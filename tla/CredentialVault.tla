--------------------------- MODULE CredentialVault --------------------------
(***************************************************************************)
(* The master key and the credentials saved with it: API keys of provider  *)
(* connections and of catalog sources (music-server                        *)
(* provider_credentials.rs; music-application assistant/providers.rs and   *)
(* cleanup_sources.rs; music-storage providers.rs, cleanup_sources.rs).    *)
(*                                                                         *)
(* The key is a file behind a read-write lock whose waiting writers hold   *)
(* new readers back.  A cipher is a lease of that lock.  A ciphertext is   *)
(* [key, n]: the key it was made with and its nonce.  A decrypted secret   *)
(* keeps the lease it was decrypted under.  An operation is the sequence   *)
(* of its awaits.  Nobody touches the key file but the server.             *)
(***************************************************************************)
EXTENDS Naturals, FiniteSets

CONSTANTS
    VaultConnections,  \* ids a connection may get
    VaultSources,      \* catalog sources that take a key
    VaultClients,      \* concurrent requests and lookup jobs
    VaultMaxOps, VaultMaxFaults, VaultMaxCrashes

ASSUME VaultAssumption ==
    /\ VaultConnections \intersect VaultSources = {}
    /\ VaultMaxOps \in Nat /\ VaultMaxFaults \in Nat /\ VaultMaxCrashes \in Nat

VaultRows == VaultConnections \union VaultSources
NoKey == 0
VaultEmpty == [key |-> NoKey, n |-> 0]   \* empty ciphertext and nonce
VaultIdle == [kind |-> "idle", pc |-> "idle", row |-> "none", cred |-> VaultEmpty,
              lease |-> FALSE, write |-> FALSE, gate |-> "none", saved |-> FALSE,
              todo |-> {}, seen |-> {}, bad |-> FALSE]

VARIABLES
    vaultKey,     \* the key file: its generation, or NoKey
    made,    \* keys generated so far
    exists,  \* the connections with a row
    cred,    \* per row, the ciphertext saved
    vaultOp,      \* per client, the operation under way
    nonces, vaultOps, vaultFaults, vaultCrashes

vaultVars == <<vaultKey, made, exists, cred, vaultOp, nonces, vaultOps, vaultFaults, vaultCrashes>>
vaultBounds == <<nonces, vaultOps, vaultFaults, vaultCrashes>>

VaultInit ==
  /\ vaultKey = NoKey /\ made = 0 /\ exists = {} /\ cred = [r \in VaultRows |-> VaultEmpty]
  /\ vaultOp = [c \in VaultClients |-> VaultIdle]
  /\ nonces = 0 /\ vaultOps = 0 /\ vaultFaults = 0 /\ vaultCrashes = 0

-----------------------------------------------------------------------------
(* The lock of the key and the gate of the catalog sources.                *)

VaultSaved == {r \in VaultRows : cred[r] # VaultEmpty}
Waiting == {c \in VaultClients : vaultOp[c].pc = "lock"}
Readable == \A c \in VaultClients : ~vaultOp[c].write
MayRead == Readable /\ Waiting = {}
MayWrite == \A c \in VaultClients : ~vaultOp[c].write /\ ~vaultOp[c].lease

GateFree == \A c \in VaultClients : vaultOp[c].gate = "none"

Busy(c) == vaultOp[c].kind # "idle"
VaultFinish(c) == vaultOp' = [vaultOp EXCEPT ![c] = VaultIdle]
VaultGo(c, pc) == vaultOp' = [vaultOp EXCEPT ![c].pc = pc]

VaultBegin(c, kind, pc, row) ==
  /\ ~Busy(c) /\ vaultOps < VaultMaxOps
  /\ vaultOps' = vaultOps + 1
  /\ vaultOp' = [vaultOp EXCEPT ![c] = [VaultIdle EXCEPT !.kind = kind, !.pc = pc, !.row = row]]

-----------------------------------------------------------------------------
(* Saving a credential.                                                    *)

VaultCreate(c) ==
  /\ \E r \in VaultConnections \ exists :
       /\ \A d \in VaultClients : vaultOp[d].row # r
       /\ VaultBegin(c, "create", "cipher", r)
  /\ UNCHANGED <<vaultKey, made, exists, cred, nonces, vaultFaults, vaultCrashes>>

\* update_connection with a key: refused while one is saved
Update(c) ==
  /\ \E r \in exists : cred[r] = VaultEmpty /\ VaultBegin(c, "update", "cipher", r)
  /\ UNCHANGED <<vaultKey, made, exists, cred, nonces, vaultFaults, vaultCrashes>>

\* save_credential of a catalog source: Busy unless the gate is free
SaveSource(c) ==
  /\ GateFree
  /\ \E r \in VaultSources :
       /\ ~Busy(c) /\ vaultOps < VaultMaxOps /\ vaultOps' = vaultOps + 1
       /\ vaultOp' = [vaultOp EXCEPT ![c] = [VaultIdle EXCEPT !.kind = "source", !.pc = "cipher", !.row = r,
                                                              !.gate = "write"]]
  /\ UNCHANGED <<vaultKey, made, exists, cred, nonces, vaultFaults, vaultCrashes>>

\* Mutant: the cipher is let go as soon as it has encrypted.
CipherForNow(c) ==
  /\ vaultOp[c].pc = "cipher" /\ MayRead
  /\ IF vaultKey = NoKey THEN VaultFinish(c) /\ UNCHANGED nonces
     ELSE /\ nonces' = nonces + 1
          /\ vaultOp' = [vaultOp EXCEPT ![c].pc = "write", ![c].cred = [key |-> vaultKey, n |-> nonces + 1]]
  /\ UNCHANGED <<vaultKey, made, exists, cred, vaultOps, vaultFaults, vaultCrashes>>

\* current_cipher and encrypt
Cipher(c) ==
  /\ vaultOp[c].pc = "cipher" /\ MayRead
  /\ IF vaultKey = NoKey THEN VaultFinish(c) /\ UNCHANGED nonces
     ELSE /\ nonces' = nonces + 1
          /\ vaultOp' = [vaultOp EXCEPT ![c].pc = "write", ![c].lease = TRUE,
                                        ![c].cred = [key |-> vaultKey, n |-> nonces + 1]]
  /\ UNCHANGED <<vaultKey, made, exists, cred, vaultOps, vaultFaults, vaultCrashes>>

\* Mutant: the lease is kept for the answer.
WriteLeased(c) ==
  /\ vaultOp[c].pc = "write"
  /\ LET r == vaultOp[c].row
         applied == vaultOp[c].kind = "update" => r \in exists /\ cred[r] = VaultEmpty
     IN  /\ cred' = IF applied THEN [cred EXCEPT ![r] = vaultOp[c].cred] ELSE cred
         /\ exists' = IF vaultOp[c].kind = "create" THEN exists \union {r} ELSE exists
  /\ vaultOp' = [vaultOp EXCEPT ![c] = IF @.kind = "source" THEN [@ EXCEPT !.pc = "view"] ELSE VaultIdle]
  /\ UNCHANGED <<vaultKey, made, vaultBounds>>

\* create_provider_connection, replace_provider_connection (the fingerprint must be
\* the one read), store_cleanup_source_credential; then the lease is dropped.
Write(c) ==
  /\ vaultOp[c].pc = "write"
  /\ LET r == vaultOp[c].row
         applied == vaultOp[c].kind = "update" => r \in exists /\ cred[r] = VaultEmpty
     IN  /\ cred' = IF applied THEN [cred EXCEPT ![r] = vaultOp[c].cred] ELSE cred
         /\ exists' = IF vaultOp[c].kind = "create" THEN exists \union {r} ELSE exists
  /\ vaultOp' = [vaultOp EXCEPT ![c] = IF @.kind = "source"
                                       THEN [@ EXCEPT !.pc = "view", !.lease = FALSE] ELSE VaultIdle]
  /\ UNCHANGED <<vaultKey, made, vaultBounds>>

\* The write fails: the caller is told, and the lease and the gate are dropped.
WriteFails(c) ==
  /\ vaultOp[c].pc = "write" /\ vaultFaults < VaultMaxFaults
  /\ vaultFaults' = vaultFaults + 1
  /\ VaultFinish(c)
  /\ UNCHANGED <<vaultKey, made, exists, cred, nonces, vaultOps, vaultCrashes>>

\* credential_state of the answer asks for the cipher again.
View(c) ==
  /\ vaultOp[c].pc = "view" /\ MayRead
  /\ VaultFinish(c)
  /\ UNCHANGED <<vaultKey, made, exists, cred, vaultBounds>>

-----------------------------------------------------------------------------
(* Removing a credential or a connection.                                  *)

\* Active model jobs and roles that use the connection are in ModelRoles.
Clear(c) ==
  /\ \E r \in exists : VaultBegin(c, "clear", "clear", r)
  /\ UNCHANGED <<vaultKey, made, exists, cred, nonces, vaultFaults, vaultCrashes>>

ClearSource(c) ==
  /\ GateFree
  /\ \E r \in VaultSources :
       /\ ~Busy(c) /\ vaultOps < VaultMaxOps /\ vaultOps' = vaultOps + 1
       /\ vaultOp' = [vaultOp EXCEPT ![c] = [VaultIdle EXCEPT !.kind = "clear", !.pc = "clear", !.row = r,
                                                              !.gate = "write"]]
  /\ UNCHANGED <<vaultKey, made, exists, cred, nonces, vaultFaults, vaultCrashes>>

\* clear_provider_credential, clear_cleanup_source_credential
Cleared(c) ==
  /\ vaultOp[c].pc = "clear"
  /\ cred' = [cred EXCEPT ![vaultOp[c].row] = VaultEmpty]
  /\ VaultFinish(c)
  /\ UNCHANGED <<vaultKey, made, exists, vaultBounds>>

VaultDelete(c) ==
  /\ ~Busy(c) /\ vaultOps < VaultMaxOps /\ vaultOps' = vaultOps + 1
  /\ \E r \in exists : exists' = exists \ {r} /\ cred' = [cred EXCEPT ![r] = VaultEmpty]
  /\ UNCHANGED <<vaultKey, made, vaultOp, nonces, vaultFaults, vaultCrashes>>

-----------------------------------------------------------------------------
(* The key.                                                                *)

\* initialize_storage reads whether credentials are saved, then asks for the lock.
Initialize(c) ==
  /\ ~Busy(c) /\ vaultOps < VaultMaxOps /\ vaultOps' = vaultOps + 1
  /\ vaultOp' = [vaultOp EXCEPT ![c] = [VaultIdle EXCEPT !.kind = "initialize", !.pc = "lock",
                                                         !.saved = VaultSaved # {}]]
  /\ UNCHANGED <<vaultKey, made, exists, cred, nonces, vaultFaults, vaultCrashes>>

Reset(c) ==
  /\ VaultBegin(c, "reset", "lock", "none")
  /\ UNCHANGED <<vaultKey, made, exists, cred, nonces, vaultFaults, vaultCrashes>>

\* initialize: the key is written and the lock released without an await
Initialized(c) ==
  /\ vaultOp[c].kind = "initialize" /\ vaultOp[c].pc = "lock" /\ MayWrite
  /\ IF vaultKey = NoKey /\ ~vaultOp[c].saved THEN made' = made + 1 /\ vaultKey' = made + 1
     ELSE UNCHANGED <<vaultKey, made>>
  /\ VaultFinish(c)
  /\ UNCHANGED <<exists, cred, vaultBounds>>

\* reset takes the lock and looks at the key file (preflight_key_removal).
Lock(c) ==
  /\ vaultOp[c].kind = "reset" /\ vaultOp[c].pc = "lock" /\ MayWrite
  /\ vaultOp' = [vaultOp EXCEPT ![c].pc = "rows", ![c].write = TRUE]
  /\ UNCHANGED <<vaultKey, made, exists, cred, vaultBounds>>

Lookups == {c \in VaultClients : vaultOp[c].kind = "lookup"}

\* reset_provider_credentials: refused while a job that uses credentials is active
ResetRows(c) ==
  /\ vaultOp[c].kind = "reset" /\ vaultOp[c].pc = "rows"
  /\ IF Lookups # {} THEN VaultFinish(c) /\ UNCHANGED cred
     ELSE cred' = [r \in VaultRows |-> VaultEmpty] /\ VaultGo(c, "remove")
  /\ UNCHANGED <<vaultKey, made, exists, vaultBounds>>

\* remove_preflighted_key; a failure is reported with the reset.
Remove(c) ==
  /\ vaultOp[c].kind = "reset" /\ vaultOp[c].pc = "remove"
  /\ \/ vaultKey' = NoKey /\ UNCHANGED vaultFaults
     \/ vaultFaults < VaultMaxFaults /\ vaultFaults' = vaultFaults + 1 /\ UNCHANGED vaultKey
  /\ VaultFinish(c)
  /\ UNCHANGED <<made, exists, cred, nonces, vaultOps, vaultCrashes>>

\* The server is stopped, rotate_provider_credentials re-encrypts every row it can
\* read or none, and the operator puts the new key in place.
Rotate ==
  /\ vaultCrashes < VaultMaxCrashes /\ vaultCrashes' = vaultCrashes + 1
  /\ vaultKey # NoKey /\ \A r \in VaultSaved : cred[r].key = vaultKey
  /\ made' = made + 1 /\ vaultKey' = made + 1 /\ nonces' = nonces + 1
  /\ cred' = [r \in VaultRows |-> IF r \in VaultSaved THEN [key |-> made + 1, n |-> nonces + 1] ELSE VaultEmpty]
  /\ vaultOp' = [c \in VaultClients |-> VaultIdle]
  /\ UNCHANGED <<exists, vaultOps, vaultFaults>>

-----------------------------------------------------------------------------
(* Using a credential: a lookup job holds the gate of the sources.         *)

VaultLookup(c) ==
  /\ VaultBegin(c, "lookup", "lease", "none")
  /\ UNCHANGED <<vaultKey, made, exists, cred, nonces, vaultFaults, vaultCrashes>>

\* execution_lease
Lease(c) ==
  /\ vaultOp[c].pc = "lease" /\ \A d \in VaultClients : vaultOp[d].gate # "write"
  /\ vaultOp' = [vaultOp EXCEPT ![c].pc = "read", ![c].gate = "read", ![c].todo = VaultSources]
  /\ UNCHANGED <<vaultKey, made, exists, cred, vaultBounds>>

\* saved_credential of one source after the other reads the row ...
VaultRead(c) ==
  /\ vaultOp[c].pc = "read"
  /\ vaultOp' = IF vaultOp[c].todo = {} THEN [vaultOp EXCEPT ![c].pc = "use"]
                ELSE LET r == CHOOSE r \in vaultOp[c].todo : TRUE
                     IN  [vaultOp EXCEPT ![c].todo = @ \ {r}, ![c].row = r, ![c].cred = cred[r],
                                         ![c].pc = IF cred[r] = VaultEmpty THEN "read" ELSE "decrypt"]
  /\ UNCHANGED <<vaultKey, made, exists, cred, vaultBounds>>

\* prepare_connection_verification reads the row of a connection.
VaultVerify(c) ==
  /\ \E r \in exists :
       /\ cred[r] # VaultEmpty /\ ~Busy(c) /\ vaultOps < VaultMaxOps /\ vaultOps' = vaultOps + 1
       /\ vaultOp' = [vaultOp EXCEPT ![c] = [VaultIdle EXCEPT !.kind = "verify", !.pc = "decrypt", !.row = r,
                                                              !.cred = cred[r]]]
  /\ UNCHANGED <<vaultKey, made, exists, cred, nonces, vaultFaults, vaultCrashes>>

\* ... and then asks for the cipher; the secret keeps the lease.
Decrypt(c) ==
  /\ vaultOp[c].pc = "decrypt" /\ MayRead
  /\ vaultOp' = IF vaultKey = vaultOp[c].cred.key
                THEN [vaultOp EXCEPT ![c].pc = IF vaultOp[c].kind = "lookup" THEN "read" ELSE "use",
                                     ![c].lease = TRUE,
                                     ![c].seen = @ \union {[row |-> vaultOp[c].row, cred |-> vaultOp[c].cred]}]
                ELSE [vaultOp EXCEPT ![c].pc = "use", ![c].bad = TRUE]
  /\ UNCHANGED <<vaultKey, made, exists, cred, vaultBounds>>

\* The calls to the catalogs or the provider; the secrets are dropped with the request.
Use(c) ==
  /\ vaultOp[c].pc = "use"
  /\ VaultFinish(c)
  /\ UNCHANGED <<vaultKey, made, exists, cred, vaultBounds>>

VaultCrash ==
  /\ vaultCrashes < VaultMaxCrashes /\ vaultCrashes' = vaultCrashes + 1
  /\ vaultOp' = [c \in VaultClients |-> VaultIdle]
  /\ UNCHANGED <<vaultKey, made, exists, cred, nonces, vaultOps, vaultFaults>>

-----------------------------------------------------------------------------
Requested(c) ==
  \/ VaultCreate(c) \/ Update(c) \/ SaveSource(c) \/ Clear(c) \/ ClearSource(c) \/ VaultDelete(c)
  \/ Initialize(c) \/ Reset(c) \/ VaultLookup(c) \/ VaultVerify(c)

VaultStep(c) ==
  \/ Cipher(c) \/ Write(c) \/ WriteFails(c) \/ View(c) \/ Cleared(c) \/ Initialized(c)
  \/ Lock(c) \/ ResetRows(c) \/ Remove(c) \/ Lease(c) \/ VaultRead(c) \/ Decrypt(c) \/ Use(c)

VaultNext == (\E c \in VaultClients : Requested(c) \/ VaultStep(c)) \/ Rotate \/ VaultCrash
VaultSpec == VaultInit /\ [][VaultNext]_vaultVars

\* The runtime polls every task that can go on.
VaultFairSpec == VaultSpec /\ \A c \in VaultClients : WF_vaultVars(VaultStep(c))

-----------------------------------------------------------------------------
Ciphertexts == {VaultEmpty} \union [key : 1..made, n : 1..nonces]

VaultTypeOK ==
  /\ vaultKey \in 0..made /\ exists \subseteq VaultConnections /\ cred \in [VaultRows -> Ciphertexts]
  /\ \A r \in VaultConnections \ exists : cred[r] = VaultEmpty
  /\ Cardinality({c \in VaultClients : vaultOp[c].write}) <= 1
  /\ ~Readable => \A c \in VaultClients : ~vaultOp[c].lease
  /\ Cardinality({c \in VaultClients : vaultOp[c].gate = "write"}) <= 1

(* Every credential that is saved can be read with the key in place: a key *)
(* never goes between an encryption and its write                          *)
(* (CredentialReadLease, reset, rotate_provider_credentials).              *)
SavedReadable == \A r \in VaultSaved : cred[r].key = vaultKey

(* A lookup reads the keys of the sources once and works with them to its  *)
(* end: none of them changes meanwhile and none is found unreadable        *)
(* (execution_lease, reset_provider_credentials).                          *)
LookupStable ==
  \A c \in Lookups : ~vaultOp[c].bad /\ \A x \in vaultOp[c].seen : cred[x.row] = x.cred

(* Saved credentials are readable, and stay the same while a lookup uses   *)
(* them.                                                                   *)
KeysServe == SavedReadable /\ LookupStable

\* A lookup has the secret of one source, with its lease, and asks for the cipher of the next
\* behind a writer, who waits for that lease: neither can go on.
Crossed == \E c \in Lookups : vaultOp[c].pc = "decrypt" /\ vaultOp[c].lease /\ Waiting # {}

(* A request comes to its end: nobody waits for a lock that is held by     *)
(* somebody who waits (the lease is dropped before the answer is made).    *)
(* The exception: a lookup that holds the key of one source while it asks  *)
(* for that of another (saved_credential of AcoustID and then of Last.fm,  *)
(* cleanup_enrichment/workflow.rs:151 and :162) meets a reset or an        *)
(* initialization that waits for the lease.  Then the two wait for each    *)
(* other for ever, and everybody who needs the key after them.             *)
VaultAnswered == (\A c \in VaultClients : Busy(c) ~> ~Busy(c)) \/ <>[]Crossed
=============================================================================
