------------------------------ MODULE ModelRoles -----------------------------
(***************************************************************************)
(* Provider connections, the model roles that use them, and the gates a    *)
(* role passes before it runs: a verified connection, a conformance test   *)
(* of the exact configuration, a quality evaluation (music-application     *)
(* assistant/providers.rs, model_quality.rs, model_jobs.rs; music-storage  *)
(* providers.rs; music-server provider_api.rs, cleanup_model.rs).          *)
(*                                                                         *)
(* Every storage operation is one transaction; a request reads, calls the  *)
(* provider and writes in separate ones.  Names, capabilities and wording  *)
(* are left out: a rename is an update that changes no runtime field.  The *)
(* vault is CredentialVault; here a credential is a number, 0 if none.     *)
(***************************************************************************)
EXTENDS Naturals, FiniteSets

CONSTANTS
    RoleConnections, Urls, Roles, Models, RoleClients,
    StartUrl, StartModel, \* what the first connection and the roles begin with
    RoleKinds,                \* the operations clients ask for
    RoleMaxOps, RoleMaxJobs, MaxKeys

ASSUME ModelRolesAssumption ==
    /\ RoleConnections # {} /\ StartUrl \in Urls /\ StartModel \in Models
    /\ RoleMaxOps \in Nat /\ RoleMaxJobs \in Nat /\ MaxKeys \in Nat

Tagger == "music_tagger"
TagCleanup == "tag_cleanup"
LibraryCleanup == "library_cleanup"
First == CHOOSE k \in RoleConnections : TRUE

VARIABLES
    conn,     \* assistant_provider_connections
    roleRole,     \* assistant_model_roles
    eval,     \* assistant_model_evaluations
    roleJob,      \* per role, the active job that runs it
    roleOp,       \* per client, the request under way
    checked,  \* history: per connection, its last verification since it changed
    tested,   \* history: per role, its last test since anything of it changed
    passed,   \* history: what passed: access, a test or a quality, and of what
    roleOps, roleJobs, keys

roleVars == <<conn, roleRole, eval, roleJob, roleOp, checked, tested, passed, roleOps, roleJobs, keys>>
roleBounds == <<roleOps, roleJobs, keys>>
roleStored == <<conn, roleRole, eval>>
roleHistory == <<checked, tested, passed>>

NoConn == [exists |-> FALSE, url |-> StartUrl, cred |-> 0, status |-> "never"]
NoRole == [exists |-> FALSE, conn |-> First, model |-> StartModel, enabled |-> FALSE,
           status |-> "never", fp |-> <<>>]
NoEval == [status |-> "never", fp |-> <<>>]
RoleNoJob == [pc |-> "none", kind |-> "none", fp |-> <<>>, rec |-> NoRole, seen |-> NoConn]
RoleIdle == [kind |-> "none", pc |-> "idle", k |-> First, r |-> "none", m |-> StartModel,
             enabled |-> FALSE, rec |-> NoConn, next |-> NoConn, cur |-> NoRole, fp |-> <<>>]

-----------------------------------------------------------------------------
(* Fingerprints: the name and the verification are no part of a            *)
(* connection's, the test is no part of a role's.                          *)

ConnFp(k, c) == <<k, c.url, c.cred>>
Runtime(c, r) == <<r.conn, c.url, c.cred, r.model>>   \* role_runtime_fingerprint
Config(r) == <<r.conn, r.model, r.enabled>>
SameRuntime(a, b) == a.exists /\ b.exists /\ a.conn = b.conn /\ a.model = b.model

\* current_conformance_status
Conformance(r, c) == IF r.fp = Runtime(c, r) THEN r.status ELSE "never"

\* role_has_active_model_job: jobs are known by the role_id of their parameters,
\* which a live job of the library cleanup does not have.
Known(r) == roleJob[r].pc # "none" /\ ~(r = LibraryCleanup /\ roleJob[r].kind = "live")
ConnBusy(k) == \E r \in Roles : roleRole[r].exists /\ roleRole[r].conn = k /\ Known(r)
Users(k) == {r \in Roles : roleRole[r].exists /\ roleRole[r].conn = k}

\* ensure_shared_mood_configuration
Shared(r, rec) == r = TagCleanup /\ Tagger \in Roles => SameRuntime(roleRole[Tagger], rec)

Sibling(r) == CASE r = Tagger -> {TagCleanup} \intersect Roles
                [] r = TagCleanup -> {Tagger} \intersect Roles
                [] OTHER -> {}

Ready == [NoConn EXCEPT !.exists = TRUE, !.cred = 1, !.status = "verified"]
ReadyRole == [NoRole EXCEPT !.exists = TRUE, !.enabled = TRUE, !.status = "passed",
                            !.fp = Runtime(Ready, NoRole)]

RoleInit ==
  /\ conn = [k \in RoleConnections |-> IF k = First THEN Ready ELSE NoConn]
  /\ roleRole = [r \in Roles |-> ReadyRole]
  /\ eval = [r \in Roles |-> NoEval] /\ roleJob = [r \in Roles |-> RoleNoJob]
  /\ roleOp = [c \in RoleClients |-> RoleIdle]
  /\ checked = [k \in RoleConnections |-> IF k = First THEN "verified" ELSE "never"]
  /\ tested = [r \in Roles |-> "passed"]
  /\ passed = {<<"access", ConnFp(First, Ready)>>}
              \union {<<"test", r, ReadyRole.fp>> : r \in Roles}
  /\ roleOps = 0 /\ roleJobs = 0 /\ keys = 1

-----------------------------------------------------------------------------
RoleFinish(c) == roleOp' = [roleOp EXCEPT ![c] = RoleIdle]

\* reset_roles_for_connection
ResetRoles(k) ==
  /\ roleRole' = [r \in Roles |-> IF r \in Users(k)
                                  THEN [roleRole[r] EXCEPT !.status = "never", !.fp = <<>>] ELSE roleRole[r]]
  /\ eval' = [r \in Roles |-> IF r \in Users(k) THEN NoEval ELSE eval[r]]
  /\ tested' = [r \in Roles |-> IF r \in Users(k) THEN "never" ELSE tested[r]]

RoleAsk(c, kind, new) ==
  /\ kind \in RoleKinds /\ roleOp[c] = RoleIdle /\ roleOps < RoleMaxOps
  /\ roleOps' = roleOps + 1
  /\ roleOp' = [roleOp EXCEPT ![c] = new]

-----------------------------------------------------------------------------
(* Connections.                                                            *)

\* create_connection; no role refers to a fresh id.
RoleCreate(c) ==
  /\ keys < MaxKeys /\ keys' = keys + 1
  /\ \E k \in RoleConnections, u \in Urls :
       /\ ~conn[k].exists
       /\ RoleAsk(c, "create", RoleIdle)
       /\ conn' = [conn EXCEPT ![k] = [NoConn EXCEPT !.exists = TRUE, !.url = u, !.cred = keys + 1]]
       /\ checked' = [checked EXCEPT ![k] = "never"]
  /\ UNCHANGED <<roleRole, eval, roleJob, tested, passed, roleJobs>>

\* update_connection reads the row and prepares its replacement: a rename, another
\* address, or a key where none is saved.
RoleEdit(c) ==
  /\ \E k \in RoleConnections, u \in Urls, add \in BOOLEAN :
       LET new == [conn[k] EXCEPT !.url = u, !.cred = IF add THEN keys + 1 ELSE @]
           moved == ConnFp(k, new) # ConnFp(k, conn[k])
       IN  /\ conn[k].exists
           /\ add => conn[k].cred = 0 /\ keys < MaxKeys
           /\ keys' = IF add THEN keys + 1 ELSE keys
           /\ RoleAsk(c, "edit", [RoleIdle EXCEPT !.kind = "edit", !.pc = "write", !.k = k, !.rec = conn[k],
                 !.next = IF moved THEN [new EXCEPT !.status = "never"] ELSE new])
  /\ UNCHANGED <<roleStored, roleJob, roleHistory, roleJobs>>

\* replace_provider_connection
Replace(c) ==
  /\ roleOp[c].kind = "edit"
  /\ LET k == roleOp[c].k
         moved == ConnFp(k, roleOp[c].next) # ConnFp(k, roleOp[c].rec)
     IN  IF \/ ~conn[k].exists \/ ConnFp(k, conn[k]) # ConnFp(k, roleOp[c].rec)
            \/ moved /\ ConnBusy(k)
         THEN UNCHANGED <<roleStored, roleHistory>>
         ELSE /\ conn' = [conn EXCEPT ![k] = roleOp[c].next]
              /\ IF moved THEN ResetRoles(k) /\ checked' = [checked EXCEPT ![k] = "never"]
                 ELSE UNCHANGED <<roleRole, eval, tested, checked>>
              /\ UNCHANGED passed
  /\ RoleFinish(c)
  /\ UNCHANGED <<roleJob, roleBounds>>

\* delete_provider_connection
RoleDelete(c) ==
  /\ \E k \in RoleConnections :
       /\ conn[k].exists /\ ~ConnBusy(k) /\ Users(k) = {}
       /\ RoleAsk(c, "delete", RoleIdle)
       /\ conn' = [conn EXCEPT ![k] = NoConn]
       /\ checked' = [checked EXCEPT ![k] = "never"]
  /\ UNCHANGED <<roleRole, eval, roleJob, tested, passed, roleJobs, keys>>

\* clear_provider_credential
ClearCredential(c) ==
  /\ \E k \in RoleConnections :
       /\ conn[k].exists /\ ~ConnBusy(k)
       /\ RoleAsk(c, "clear", RoleIdle)
       /\ conn' = [conn EXCEPT ![k].cred = 0, ![k].status = "never"]
       /\ checked' = [checked EXCEPT ![k] = "never"]
       /\ ResetRoles(k)
  /\ UNCHANGED <<roleJob, passed, roleJobs, keys>>

\* reset_provider_credentials: refused while any job is active
ResetAll(c) ==
  /\ \A r \in Roles : roleJob[r].pc = "none"
  /\ RoleAsk(c, "reset", RoleIdle)
  /\ conn' = [k \in RoleConnections |-> IF conn[k].exists
                                        THEN [conn[k] EXCEPT !.cred = 0, !.status = "never"] ELSE conn[k]]
  /\ roleRole' = [r \in Roles |-> [roleRole[r] EXCEPT !.status = "never", !.fp = <<>>]]
  /\ eval' = [r \in Roles |-> NoEval]
  /\ checked' = [k \in RoleConnections |-> "never"] /\ tested' = [r \in Roles |-> "never"]
  /\ UNCHANGED <<roleJob, passed, roleJobs, keys>>

\* prepare_connection_verification
RoleVerify(c) ==
  /\ \E k \in RoleConnections :
       /\ conn[k].exists /\ conn[k].cred # 0 /\ ~ConnBusy(k)
       /\ RoleAsk(c, "verify", [RoleIdle EXCEPT !.kind = "verify", !.pc = "call", !.k = k, !.rec = conn[k]])
  /\ UNCHANGED <<roleStored, roleJob, roleHistory, roleJobs, keys>>

\* Mutant: the answer is kept for whatever the connection is by now.
VerifiedLate(c) ==
  /\ roleOp[c].kind = "verify"
  /\ LET k == roleOp[c].k
     IN  IF ~conn[k].exists \/ ConnBusy(k) THEN UNCHANGED <<roleStored, roleHistory>>
         ELSE \E s \in {"verified", "failed"} :
                /\ conn' = [conn EXCEPT ![k].status = s]
                /\ checked' = [checked EXCEPT ![k] = s]
                /\ passed' = IF s = "verified"
                             THEN passed \union {<<"access", ConnFp(k, roleOp[c].rec)>>} ELSE passed
                /\ ResetRoles(k)
  /\ RoleFinish(c)
  /\ UNCHANGED <<roleJob, roleBounds>>

\* The provider answers; finish_provider_verification.
Verified(c) ==
  /\ roleOp[c].kind = "verify"
  /\ LET k == roleOp[c].k
     IN  IF ~conn[k].exists \/ ConnFp(k, conn[k]) # ConnFp(k, roleOp[c].rec) \/ ConnBusy(k)
         THEN UNCHANGED <<roleStored, roleHistory>>
         ELSE \E s \in {"verified", "failed"} :
                /\ conn' = [conn EXCEPT ![k].status = s]
                /\ checked' = [checked EXCEPT ![k] = s]
                /\ passed' = IF s = "verified"
                             THEN passed \union {<<"access", ConnFp(k, roleOp[c].rec)>>} ELSE passed
                /\ ResetRoles(k)
  /\ RoleFinish(c)
  /\ UNCHANGED <<roleJob, roleBounds>>

-----------------------------------------------------------------------------
(* Roles.                                                                  *)

\* prepare_role_conformance
Test(c) ==
  /\ \E r \in Roles :
       LET k == roleRole[r].conn
       IN  /\ roleRole[r].exists /\ ~Known(r) /\ Shared(r, roleRole[r])
           /\ conn[k].status = "verified" /\ conn[k].cred # 0
           /\ RoleAsk(c, "test", [RoleIdle EXCEPT !.kind = "test", !.pc = "call", !.r = r, !.k = k,
                    !.cur = roleRole[r], !.rec = conn[k], !.fp = Runtime(conn[k], roleRole[r])])
  /\ UNCHANGED <<roleStored, roleJob, roleHistory, roleJobs, keys>>

\* The model answers; finish_role_conformance.
Tested(c) ==
  /\ roleOp[c].kind = "test"
  /\ LET r == roleOp[c].r
         k == roleRole[r].conn
     IN  IF \/ ~roleRole[r].exists \/ Config(roleRole[r]) # Config(roleOp[c].cur)
            \/ ConnFp(k, conn[k]) # ConnFp(roleOp[c].k, roleOp[c].rec) \/ Known(r)
         THEN UNCHANGED <<roleStored, roleHistory>>
         ELSE \E s \in {"passed", "failed"} :
                /\ roleRole' = [roleRole EXCEPT ![r].status = s, ![r].fp = roleOp[c].fp]
                /\ tested' = [tested EXCEPT ![r] = s]
                /\ passed' = IF s = "passed" THEN passed \union {<<"test", r, roleOp[c].fp>>}
                             ELSE passed
                /\ UNCHANGED <<conn, eval, checked>>
  /\ RoleFinish(c)
  /\ UNCHANGED <<roleJob, roleBounds>>

\* update_model_role reads the connection ...
RoleConfigure(c) ==
  /\ \E r \in Roles, k \in RoleConnections, m \in Models, e \in BOOLEAN :
       /\ conn[k].exists
       /\ e => conn[k].status = "verified" /\ conn[k].cred # 0
       /\ RoleAsk(c, "configure", [RoleIdle EXCEPT !.kind = "configure", !.pc = "role", !.r = r, !.k = k,
                                                   !.m = m, !.enabled = e, !.rec = conn[k]])
  /\ UNCHANGED <<roleStored, roleJob, roleHistory, roleJobs, keys>>

\* ... then the role, whose test it carries over when the runtime stays the same.
ReadRole(c) ==
  /\ roleOp[c].kind = "configure" /\ roleOp[c].pc = "role"
  /\ LET cur == roleRole[roleOp[c].r]
         asked == [NoRole EXCEPT !.exists = TRUE, !.conn = roleOp[c].k, !.model = roleOp[c].m,
                                 !.enabled = roleOp[c].enabled]
         same == SameRuntime(cur, asked)
         new == IF same THEN [asked EXCEPT !.status = cur.status, !.fp = cur.fp] ELSE asked
     IN  roleOp' = IF \/ roleOp[c].enabled /\ ~(same /\ Conformance(cur, roleOp[c].rec) = "passed")
                      \/ ~Shared(roleOp[c].r, new)
                   THEN [roleOp EXCEPT ![c] = RoleIdle]
                   ELSE [roleOp EXCEPT ![c].pc = "save", ![c].cur = new, ![c].fp = <<same>>]
  /\ UNCHANGED <<roleStored, roleJob, roleHistory, roleBounds>>

\* The rows save_model_role writes: the role, and its sibling when it differs.
RoleSaved(r, new, same) ==
  LET moved == {s \in Sibling(r) : ~SameRuntime(roleRole[s], new)}
      draft == [new EXCEPT !.enabled = FALSE, !.status = "never", !.fp = <<>>]
  IN  /\ roleRole' = [s \in Roles |-> IF s = r THEN new ELSE IF s \in moved THEN draft ELSE roleRole[s]]
      /\ eval' = [s \in Roles |-> IF (s = r /\ ~same) \/ s \in moved THEN NoEval ELSE eval[s]]
      /\ tested' = [s \in Roles |-> IF (s = r /\ ~SameRuntime(roleRole[r], new)) \/ s \in moved
                                    THEN "never" ELSE tested[s]]

\* save_model_role
RoleSave(c) ==
  /\ roleOp[c].kind = "configure" /\ roleOp[c].pc = "save"
  /\ LET k == roleOp[c].k
     IN  IF \/ ~conn[k].exists \/ ConnFp(k, conn[k]) # ConnFp(k, roleOp[c].rec)
            \/ \E s \in {roleOp[c].r} \union Sibling(roleOp[c].r) : Known(s)
         THEN UNCHANGED <<roleRole, eval, tested>>
         ELSE RoleSaved(roleOp[c].r, roleOp[c].cur, roleOp[c].fp = <<TRUE>>)
  /\ RoleFinish(c)
  /\ UNCHANGED <<conn, roleJob, checked, passed, roleBounds>>

\* delete_model_role; its evaluations go with it.
DeleteRole(c) ==
  /\ \E r \in Roles :
       /\ roleRole[r].exists /\ ~Known(r)
       /\ RoleAsk(c, "drop", RoleIdle)
       /\ roleRole' = [roleRole EXCEPT ![r] = NoRole]
       /\ eval' = [eval EXCEPT ![r] = NoEval]
       /\ tested' = [tested EXCEPT ![r] = "never"]
  /\ UNCHANGED <<conn, roleJob, checked, passed, roleJobs, keys>>

-----------------------------------------------------------------------------
(* Jobs that run a role: its evaluation, or live work behind a passed one. *)

\* prepare_role_execution, and the evaluation a live job needs: rec was read first.
Runnable(r, rec, kind) ==
  /\ rec.exists /\ Shared(r, rec) /\ rec.enabled
  /\ conn[rec.conn].exists /\ conn[rec.conn].status = "verified" /\ conn[rec.conn].cred # 0
  /\ Conformance(rec, conn[rec.conn]) = "passed"
  /\ kind = "live" => eval[r].status = "passed" /\ eval[r].fp = Runtime(conn[rec.conn], rec)

\* start_role_evaluation, enqueue_model_feature and the library cleanup's start:
\* everything is read and checked ...
RoleStart(c) ==
  /\ \E r \in Roles, kind \in {"evaluation", "live"} :
       /\ Runnable(r, roleRole[r], kind)
       /\ RoleAsk(c, kind, [RoleIdle EXCEPT !.kind = kind, !.pc = "enqueue", !.r = r,
                          !.fp = Runtime(conn[roleRole[r].conn], roleRole[r])])
  /\ UNCHANGED <<roleStored, roleJob, roleHistory, roleJobs, keys>>

\* ... and then the job is queued, unless one is active.
RoleEnqueue(c) ==
  /\ roleOp[c].pc = "enqueue"
  /\ LET r == roleOp[c].r
     IN  IF roleJob[r].pc = "none" /\ roleJobs < RoleMaxJobs
         THEN /\ roleJob' = [roleJob EXCEPT ![r] = [RoleNoJob EXCEPT !.pc = "queued", !.kind = roleOp[c].kind,
                                                                     !.fp = roleOp[c].fp]]
              /\ roleJobs' = roleJobs + 1
         ELSE UNCHANGED <<roleJob, roleJobs>>
  /\ RoleFinish(c)
  /\ UNCHANGED <<roleStored, roleHistory, roleOps, keys>>

EndJob(r) == roleJob' = [roleJob EXCEPT ![r] = RoleNoJob]

\* The handler's prepare reads the role ...
JobReads(r) ==
  /\ roleJob[r].pc = "queued"
  /\ roleJob' = [roleJob EXCEPT ![r].pc = "prepare", ![r].rec = roleRole[r]]
  /\ UNCHANGED <<roleStored, roleOp, roleHistory, roleBounds>>

\* ... then the connection, and fails when it is not the runtime it was started for.
JobPrepares(r) ==
  /\ roleJob[r].pc = "prepare"
  /\ LET rec == roleJob[r].rec
     IN  IF Runnable(r, rec, roleJob[r].kind) /\ Runtime(conn[rec.conn], rec) = roleJob[r].fp
         THEN roleJob' = [roleJob EXCEPT ![r].pc = "run", ![r].seen = conn[rec.conn]]
         ELSE EndJob(r)
  /\ UNCHANGED <<roleStored, roleOp, roleHistory, roleBounds>>

\* save_model_evaluation of a finished evaluation
JobRecords(r) ==
  /\ roleJob[r].pc = "run" /\ roleJob[r].kind = "evaluation"
  /\ IF \/ ~roleRole[r].exists \/ Config(roleRole[r]) # Config(roleJob[r].rec)
        \/ ConnFp(roleRole[r].conn, conn[roleRole[r].conn]) # ConnFp(roleJob[r].rec.conn, roleJob[r].seen)
     THEN UNCHANGED <<eval, passed>>
     ELSE \E s \in {"passed", "failed"} :
            /\ eval' = [eval EXCEPT ![r] = [status |-> s, fp |-> roleJob[r].fp]]
            /\ passed' = IF s = "passed" THEN passed \union {<<"quality", r, roleJob[r].fp>>} ELSE passed
  /\ roleJob' = [roleJob EXCEPT ![r].pc = "done"]
  /\ UNCHANGED <<conn, roleRole, roleOp, checked, tested, roleBounds>>

\* The job ends: done, failed, cancelled, or failed by a restart of the process.
JobEnds(r) ==
  /\ roleJob[r].pc # "none"
  /\ EndJob(r)
  /\ UNCHANGED <<roleStored, roleOp, roleHistory, roleBounds>>

-----------------------------------------------------------------------------
RoleNext ==
  \/ \E c \in RoleClients :
       \/ RoleCreate(c) \/ RoleEdit(c) \/ Replace(c) \/ RoleDelete(c) \/ ClearCredential(c) \/ ResetAll(c)
       \/ RoleVerify(c) \/ Verified(c) \/ Test(c) \/ Tested(c)
       \/ RoleConfigure(c) \/ ReadRole(c) \/ RoleSave(c) \/ DeleteRole(c) \/ RoleStart(c) \/ RoleEnqueue(c)
  \/ \E r \in Roles : JobReads(r) \/ JobPrepares(r) \/ JobRecords(r) \/ JobEnds(r)

RoleSpec == RoleInit /\ [][RoleNext]_roleVars

-----------------------------------------------------------------------------
Statuses == {"never", "verified", "passed", "failed"}

RoleTypeOK ==
  /\ \A k \in RoleConnections : conn[k].status \in Statuses \ {"passed"} /\ conn[k].cred \in 0..keys
  /\ \A r \in Roles : roleRole[r].conn \in RoleConnections /\ roleRole[r].status \in Statuses \ {"verified"}
  /\ \A r \in Roles : roleRole[r].exists => conn[roleRole[r].conn].exists
  /\ \A r \in Roles : ~roleRole[r].exists => eval[r] = NoEval

(* What a gate shows as passed has passed for exactly the address, key and *)
(* model in force, whichever requests overlapped: an answer of the         *)
(* provider is never kept for another configuration                        *)
(* (finish_provider_verification, finish_role_conformance,                 *)
(* save_model_evaluation).                                                 *)
ExactlyTested ==
  /\ \A k \in RoleConnections :
       conn[k].status = "verified" => <<"access", ConnFp(k, conn[k])>> \in passed
  /\ \A r \in Roles : roleRole[r].exists =>
       LET now == Runtime(conn[roleRole[r].conn], roleRole[r])
       IN  /\ Conformance(roleRole[r], conn[roleRole[r].conn]) = "passed" => <<"test", r, now>> \in passed
           /\ eval[r].status = "passed" /\ eval[r].fp = now => <<"quality", r, now>> \in passed

(* A job works with the configuration it prepared to its end: nothing that *)
(* would change it is accepted meanwhile (role_has_active_model_job,       *)
(* connection_has_active_model_job).  Excepted is a live job of the        *)
(* library cleanup, whose parameters in cleanup_enrichment/ai.rs carry no  *)
(* role_id: the requests that change a configuration do not see it.        *)
JobKeepsRuntime ==
  \A r \in Roles : Known(r) /\ roleJob[r].pc = "run" =>
    /\ roleRole[r].exists /\ roleRole[r].enabled
    /\ Runtime(conn[roleRole[r].conn], roleRole[r]) = roleJob[r].fp

(* Tagging and the cleanup of tags use one model: their configurations     *)
(* agree whenever both are saved (save_model_role).                        *)
OneMoodModel ==
  {Tagger, TagCleanup} \subseteq Roles /\ roleRole[Tagger].exists /\ roleRole[TagCleanup].exists
    => SameRuntime(roleRole[Tagger], roleRole[TagCleanup])

(* A live job runs only while the quality its role was certified with is   *)
(* on record for what it runs (prepare_quality_gated_role_execution), the  *)
(* live job of the library cleanup excepted as above.                      *)
LiveCertified ==
  \A r \in Roles : Known(r) /\ roleJob[r].pc = "run" /\ roleJob[r].kind = "live" =>
    eval[r] = [status |-> "passed", fp |-> roleJob[r].fp] /\ <<"quality", r, roleJob[r].fp>> \in passed

(* The gates hold: what is shown as passed has passed, of every role, and a *)
(* job works with what it prepared and was certified for, to its end. Not   *)
(* so a live job of the library cleanup: role_has_active_model_job does not *)
(* know it, and its role may be changed or deleted while it runs.           *)
GatesHold == ExactlyTested /\ JobKeepsRuntime /\ OneMoodModel /\ LiveCertified

=============================================================================
