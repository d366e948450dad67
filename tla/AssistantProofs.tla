-------------------------- MODULE AssistantProofs ---------------------------
(***************************************************************************)
(* The stores the assistant works from: saved credentials, the evidence of *)
(* tags, and the configured models with the gates they have passed.        *)
(***************************************************************************)
EXTENDS CredentialVault, TagEvidence, ModelRoles, TLAPS

-----------------------------------------------------------------------------
(***************************************************************************)
(* Saved credentials stay readable and stable under a lookup, for every    *)
(* number of connections, sources, concurrent requests, faults and stops.  *)
(*                                                                         *)
(* KeysServe is not inductive.  That a key never goes between an           *)
(* encryption and its write is the read lease (Encrypted) against the      *)
(* write lock (LockKept); that a reset removes a key nothing was saved     *)
(* with is Emptied; that a source's key stands still under a lookup is the *)
(* gate of the sources (GateKept) with what each request may touch         *)
(* (Shaped).  An initialization may decide on a stale answer to "are       *)
(* credentials saved"; it does no harm because without a key there is      *)
(* nothing readable, hence nothing saved.                                  *)
(***************************************************************************)

Secrets == [key : Nat, n : Nat]
RequestKinds == {"idle", "create", "update", "source", "clear", "initialize", "reset",
                 "lookup", "verify"}
RequestSteps == {"idle", "cipher", "write", "view", "clear", "lock", "rows", "remove",
                 "lease", "read", "decrypt", "use"}
Operations == [kind : RequestKinds, pc : RequestSteps, row : VaultRows \union {"none"},
               cred : Secrets, lease : BOOLEAN, write : BOOLEAN,
               gate : {"none", "read", "write"}, saved : BOOLEAN,
               todo : SUBSET VaultSources,
               seen : SUBSET [row : VaultRows, cred : Secrets], bad : BOOLEAN]

VaultTyped ==
    /\ vaultKey \in Nat /\ made \in Nat /\ nonces \in Nat
    /\ exists \subseteq VaultConnections
    /\ cred \in [VaultRows -> Secrets]
    /\ vaultOp \in [VaultClients -> Operations]

(* A request writes to a connection, or to a source behind the gate. *)
Guarded(o) ==
    o.row \in VaultConnections \/ (o.row \in VaultSources /\ o.gate = "write")

Shaped(o) ==
    /\ o.pc \in {"cipher", "write", "clear"} => Guarded(o)
    /\ o.kind = "create" => o.row \in VaultConnections
    /\ o.pc = "decrypt" => o.row \in VaultRows
    /\ o.pc = "write" => o.lease
    /\ o.pc \in {"rows", "remove"} <=> o.write
    /\ o.pc \in {"lease", "read"} => o.kind = "lookup"
    /\ o.kind = "lookup" => /\ o.pc \in {"lease", "read", "decrypt", "use"}
                            /\ o.pc # "lease" => o.gate = "read"
                            /\ o.pc = "lease" => o.seen = {}
                            /\ o.pc = "decrypt" => o.row \in VaultSources
                            /\ \A x \in o.seen : x.row \in VaultSources

EveryShaped == \A c \in VaultClients : Shaped(vaultOp[c])

LockKept ==
    \A c, d \in VaultClients :
        vaultOp[c].write => ~vaultOp[d].lease /\ (c # d => ~vaultOp[d].write)

GateKept ==
    \A c, d \in VaultClients :
        c # d /\ vaultOp[c].gate = "write" => vaultOp[d].gate = "none"

Encrypted ==
    \A c \in VaultClients :
        vaultOp[c].pc = "write" => vaultOp[c].cred.key = vaultKey /\ vaultKey # NoKey

Emptied == \A c \in VaultClients : vaultOp[c].pc = "remove" => VaultSaved = {}

SavedWithKey == \A r \in VaultSaved : cred[r].key # NoKey

(* What a lookup has read and not yet decrypted is what is saved. *)
ReadIsSaved ==
    \A c \in Lookups : vaultOp[c].pc = "decrypt" =>
        vaultOp[c].cred # VaultEmpty /\ cred[vaultOp[c].row] = vaultOp[c].cred

VaultIInv ==
    /\ VaultTyped
    /\ EveryShaped
    /\ LockKept
    /\ GateKept
    /\ Encrypted
    /\ Emptied
    /\ SavedWithKey
    /\ ReadIsSaved
    /\ KeysServe
----------------------------------------------------------------------------
LEMMA IdleOperation ==
  /\ VaultIdle \in Operations /\ Shaped(VaultIdle)
  /\ VaultIdle.kind = "idle" /\ VaultIdle.pc = "idle" /\ VaultIdle.gate = "none"
  /\ ~VaultIdle.lease /\ ~VaultIdle.write
<1>1. VaultEmpty \in Secrets
  BY DEF VaultEmpty, Secrets, NoKey
<1>2. VaultIdle \in Operations
  BY <1>1 DEF VaultIdle, Operations, RequestKinds, RequestSteps
<1>. QED  BY <1>2 DEF VaultIdle, Shaped

LEMMA VaultInitInv == VaultInit => VaultIInv
<1> SUFFICES ASSUME VaultInit PROVE VaultIInv
  OBVIOUS
<1>1. VaultEmpty \in Secrets /\ \A r \in VaultRows : cred[r] = VaultEmpty
  BY DEF VaultEmpty, Secrets, NoKey, VaultInit
<1>2. \A c \in VaultClients : vaultOp[c] = VaultIdle
  BY DEF VaultInit
<1>3. VaultTyped
  BY <1>1, IdleOperation DEF VaultInit, VaultTyped, NoKey
<1>4. VaultSaved = {}
  BY <1>1 DEF VaultSaved
<1>5. EveryShaped /\ LockKept /\ GateKept /\ Encrypted /\ Emptied
  BY <1>2, IdleOperation DEF EveryShaped, LockKept, GateKept, Encrypted, Emptied
<1>6. Lookups = {}
  BY <1>2, IdleOperation DEF Lookups
<1>. QED  BY <1>3, <1>4, <1>5, <1>6
          DEF VaultIInv, SavedWithKey, ReadIsSaved, KeysServe, SavedReadable, LookupStable

(***************************************************************************)
(* One request moves to o.  What the others rely on is kept when the key   *)
(* stands still under their leases, the keys of the sources stand still    *)
(* under their gates, nothing is saved behind a reset, and the lock and    *)
(* the gate are taken only when they are free.                             *)
(***************************************************************************)
LEMMA RequestInv ==
  ASSUME VaultIInv, NEW c \in VaultClients, NEW o \in Operations,
         vaultOp' = [vaultOp EXCEPT ![c] = o], Shaped(o),
         vaultKey' \in Nat, made' \in Nat, nonces' \in Nat,
         exists' \subseteq VaultConnections, cred' \in [VaultRows -> Secrets],
         SavedReadable', SavedWithKey',
         \A d \in VaultClients \ {c} : vaultOp[d].lease => vaultKey' = vaultKey,
         \A d \in VaultClients \ {c} : vaultOp[d].pc = "remove" => VaultSaved' = {},
         \A d \in VaultClients \ {c} : vaultOp[d].gate = "read" =>
            \A r \in VaultSources : cred'[r] = cred[r],
         o.lease => ~o.write /\ (vaultOp[c].lease \/ Readable),
         o.write => vaultOp[c].write \/ MayWrite,
         o.gate = "write" => vaultOp[c].gate = "write" \/ GateFree,
         o.gate = "read" => \A d \in VaultClients \ {c} : vaultOp[d].gate # "write",
         o.pc = "write" => o.cred.key = vaultKey' /\ vaultKey' # NoKey,
         o.pc = "remove" => VaultSaved' = {},
         o.kind = "lookup" =>
            /\ ~o.bad
            /\ \A x \in o.seen : cred'[x.row] = x.cred
            /\ o.pc = "decrypt" => o.cred # VaultEmpty /\ cred'[o.row] = o.cred
  PROVE  VaultIInv'
<1>1. /\ vaultOp \in [VaultClients -> Operations]
      /\ vaultOp'[c] = o
      /\ \A d \in VaultClients \ {c} : vaultOp'[d] = vaultOp[d]
  BY DEF VaultIInv, VaultTyped
<1>2. VaultTyped'
  BY <1>1 DEF VaultTyped
<1>3. EveryShaped'
  BY <1>1 DEF VaultIInv, EveryShaped
<1>4. LockKept'
  <2> SUFFICES ASSUME NEW a \in VaultClients, NEW b \in VaultClients, vaultOp'[a].write
               PROVE  ~vaultOp'[b].lease /\ (a # b => ~vaultOp'[b].write)
    BY DEF LockKept
  <2>1. CASE a = c /\ b = c
    BY <1>1, <2>1
  <2>2. CASE a = c /\ b # c
    BY <1>1, <2>2 DEF VaultIInv, LockKept, MayWrite
  <2>3. CASE a # c /\ b = c
    BY <1>1, <2>3 DEF VaultIInv, LockKept, MayWrite, Readable
  <2>4. CASE a # c /\ b # c
    BY <1>1, <2>4 DEF VaultIInv, LockKept
  <2>. QED  BY <2>1, <2>2, <2>3, <2>4
<1>5. GateKept'
  <2> SUFFICES ASSUME NEW a \in VaultClients, NEW b \in VaultClients, a # b,
                      vaultOp'[a].gate = "write"
               PROVE  vaultOp'[b].gate = "none"
    BY DEF GateKept
  <2>1. CASE a = c
    BY <1>1, <2>1 DEF VaultIInv, GateKept, GateFree
  <2>2. CASE b = c
    <3>1. vaultOp[a].gate = "write" /\ vaultOp[c].gate # "write"
      BY <1>1, <2>2 DEF VaultIInv, GateKept
    <3>2. o.gate # "read" /\ o.gate # "write"
      BY <2>2, <3>1 DEF GateFree
    <3>. QED  BY <1>1, <2>2, <3>2 DEF Operations
  <2>3. CASE a # c /\ b # c
    BY <1>1, <2>3 DEF VaultIInv, GateKept
  <2>. QED  BY <2>1, <2>2, <2>3
<1>6. Encrypted'
  <2>1. \A d \in VaultClients \ {c} : vaultOp[d].pc = "write" => vaultKey' = vaultKey
    BY DEF VaultIInv, EveryShaped, Shaped
  <2>. QED  BY <1>1, <2>1 DEF VaultIInv, Encrypted
<1>7. Emptied'
  BY <1>1 DEF Emptied
<1>8. ASSUME NEW d \in VaultClients \ {c}, vaultOp[d].kind = "lookup"
      PROVE  /\ ~vaultOp[d].bad
             /\ \A x \in vaultOp[d].seen : cred'[x.row] = x.cred
             /\ vaultOp[d].pc = "decrypt" =>
                   vaultOp[d].cred # VaultEmpty /\ cred'[vaultOp[d].row] = vaultOp[d].cred
  <2>1. d \in Lookups /\ Shaped(vaultOp[d])
    BY <1>8 DEF Lookups, VaultIInv, EveryShaped
  <2>2. /\ ~vaultOp[d].bad
        /\ \A x \in vaultOp[d].seen : cred[x.row] = x.cred
        /\ vaultOp[d].pc = "decrypt" =>
              vaultOp[d].cred # VaultEmpty /\ cred[vaultOp[d].row] = vaultOp[d].cred
    BY <2>1 DEF VaultIInv, KeysServe, LookupStable, ReadIsSaved
  <2>3. CASE vaultOp[d].pc = "lease"
    BY <1>8, <2>1, <2>2, <2>3 DEF Shaped
  <2>4. CASE vaultOp[d].pc # "lease"
    <3>1. \A r \in VaultSources : cred'[r] = cred[r]
      BY <1>8, <2>1, <2>4 DEF Shaped
    <3>. QED  BY <1>8, <2>1, <2>2, <2>4, <3>1 DEF Shaped
  <2>. QED  BY <2>3, <2>4
<1>9. ReadIsSaved' /\ LookupStable'
  <2> SUFFICES ASSUME NEW d \in VaultClients, vaultOp'[d].kind = "lookup"
               PROVE  /\ ~vaultOp'[d].bad
                      /\ \A x \in vaultOp'[d].seen : cred'[x.row] = x.cred
                      /\ vaultOp'[d].pc = "decrypt" =>
                            /\ vaultOp'[d].cred # VaultEmpty
                            /\ cred'[vaultOp'[d].row] = vaultOp'[d].cred
    BY DEF ReadIsSaved, LookupStable, Lookups
  <2>1. CASE d = c
    BY <1>1, <2>1
  <2>2. CASE d # c
    BY <1>1, <1>8, <2>2
  <2>. QED  BY <2>1, <2>2
<1>. QED  BY <1>2, <1>3, <1>4, <1>5, <1>6, <1>7, <1>9 DEF VaultIInv, KeysServe

(* A request moves and leaves the keys and the rows alone. *)
LEMMA MoveInv ==
  ASSUME VaultIInv, NEW c \in VaultClients, NEW o \in Operations,
         vaultOp' = [vaultOp EXCEPT ![c] = o], Shaped(o),
         UNCHANGED <<vaultKey, made, exists, cred>>, nonces' \in Nat,
         o.lease => ~o.write /\ (vaultOp[c].lease \/ Readable),
         o.write => vaultOp[c].write \/ MayWrite,
         o.gate = "write" => vaultOp[c].gate = "write" \/ GateFree,
         o.gate = "read" => \A d \in VaultClients \ {c} : vaultOp[d].gate # "write",
         o.pc = "write" => o.cred.key = vaultKey /\ vaultKey # NoKey,
         o.pc = "remove" => VaultSaved = {},
         o.kind = "lookup" =>
            /\ ~o.bad
            /\ \A x \in o.seen : cred[x.row] = x.cred
            /\ o.pc = "decrypt" => o.cred # VaultEmpty /\ cred[o.row] = o.cred
  PROVE  VaultIInv'
<1>1. /\ vaultKey' \in Nat /\ made' \in Nat
      /\ exists' \subseteq VaultConnections /\ cred' \in [VaultRows -> Secrets]
  BY DEF VaultIInv, VaultTyped
<1>2. VaultSaved' = VaultSaved /\ SavedReadable' /\ SavedWithKey'
  BY DEF VaultIInv, KeysServe, SavedReadable, SavedWithKey, VaultSaved
<1>3. \A d \in VaultClients \ {c} : vaultOp[d].pc = "remove" => VaultSaved' = {}
  BY <1>2 DEF VaultIInv, Emptied
<1>. QED  BY <1>1, <1>2, <1>3, RequestInv

(* A request ends. *)
LEMMA EndInv ==
  ASSUME VaultIInv, NEW c \in VaultClients, VaultFinish(c),
         UNCHANGED <<vaultKey, made, exists, cred>>, nonces' \in Nat
  PROVE  VaultIInv'
<1>1. vaultOp' = [vaultOp EXCEPT ![c] = VaultIdle]
  BY DEF VaultFinish
<1>. QED  BY <1>1, IdleOperation, MoveInv

(* A request begins, without a lease and at most with the gate. *)
LEMMA BeginInv ==
  ASSUME VaultIInv, NEW c \in VaultClients, NEW o \in Operations,
         vaultOp' = [vaultOp EXCEPT ![c] = o],
         ~o.lease, ~o.write, ~o.bad, o.seen = {},
         o.pc \in {"cipher", "clear", "lock", "lease", "decrypt"},
         o.pc \in {"cipher", "clear"} => Guarded(o),
         o.kind = "create" => o.row \in VaultConnections,
         o.pc = "decrypt" => o.row \in VaultRows,
         o.kind = "lookup" <=> o.pc = "lease",
         o.gate = "none" \/ (o.gate = "write" /\ GateFree),
         UNCHANGED <<vaultKey, made, exists, cred, nonces>>
  PROVE  VaultIInv'
<1>1. Shaped(o)
  BY DEF Shaped
<1>2. nonces' \in Nat
  BY DEF VaultIInv, VaultTyped
<1>. QED  BY <1>1, <1>2, MoveInv

LEMMA EmptySecret == VaultEmpty \in Secrets
BY DEF VaultEmpty, Secrets, NoKey

(* A request that starts with neither the gate nor a ciphertext. *)
LEMMA PlainBeginInv ==
  ASSUME VaultIInv, NEW c \in VaultClients, NEW k \in RequestKinds, NEW p \in RequestSteps,
         NEW r \in VaultRows \union {"none"}, VaultBegin(c, k, p, r),
         p \in {"cipher", "clear", "lock", "lease"},
         p \in {"cipher", "clear"} => r \in VaultConnections,
         k = "create" => p = "cipher",
         k = "lookup" <=> p = "lease",
         UNCHANGED <<vaultKey, made, exists, cred, nonces>>
  PROVE  VaultIInv'
<1> DEFINE o == [VaultIdle EXCEPT !.kind = k, !.pc = p, !.row = r]
<1>1. /\ o \in Operations /\ o.kind = k /\ o.pc = p /\ o.row = r /\ o.gate = "none"
      /\ o.seen = {} /\ ~o.lease /\ ~o.write /\ ~o.bad
  BY IdleOperation DEF VaultIdle, Operations
<1>2. vaultOp' = [vaultOp EXCEPT ![c] = o]
  BY DEF VaultBegin
<1>. HIDE DEF o
<1>. QED  BY <1>1, <1>2, BeginInv DEF Guarded

(* A request on a source that takes the gate. *)
LEMMA GateBeginInv ==
  ASSUME VaultIInv, NEW c \in VaultClients, NEW k \in RequestKinds, NEW p \in {"cipher", "clear"},
         NEW r \in VaultSources, GateFree, k \notin {"create", "lookup"},
         vaultOp' = [vaultOp EXCEPT ![c] = [VaultIdle EXCEPT !.kind = k, !.pc = p, !.row = r,
                                                             !.gate = "write"]],
         UNCHANGED <<vaultKey, made, exists, cred, nonces>>
  PROVE  VaultIInv'
<1> DEFINE o == [VaultIdle EXCEPT !.kind = k, !.pc = p, !.row = r, !.gate = "write"]
<1>1. p \in RequestSteps /\ r \in VaultRows
  BY DEF RequestSteps, VaultRows
<1>2. /\ o \in Operations /\ o.kind = k /\ o.pc = p /\ o.row = r /\ o.gate = "write"
      /\ o.seen = {} /\ ~o.lease /\ ~o.write /\ ~o.bad
  BY <1>1, IdleOperation DEF VaultIdle, Operations
<1>3. vaultOp' = [vaultOp EXCEPT ![c] = o]
  OBVIOUS
<1>. HIDE DEF o
<1>. QED  BY <1>2, <1>3, BeginInv DEF Guarded

(* One row is cleared by somebody who may: nobody reads the key of a *)
(* source under the gate meanwhile.                                  *)
LEMMA ClearRowInv ==
  ASSUME VaultIInv, NEW c \in VaultClients, NEW r \in VaultRows, NEW o \in Operations,
         vaultOp' = [vaultOp EXCEPT ![c] = o],
         o = VaultIdle \/ (o = vaultOp[c] /\ vaultOp[c].kind = "idle"),
         cred' = [cred EXCEPT ![r] = VaultEmpty],
         r \in VaultConnections \/ vaultOp[c].gate = "write",
         exists' \subseteq VaultConnections, UNCHANGED <<vaultKey, made, nonces>>
  PROVE  VaultIInv'
<1>1. /\ cred' \in [VaultRows -> Secrets] /\ cred'[r] = VaultEmpty
      /\ \A q \in VaultRows \ {r} : cred'[q] = cred[q]
      /\ vaultKey' \in Nat /\ made' \in Nat /\ nonces' \in Nat
  BY EmptySecret DEF VaultIInv, VaultTyped
<1>2. VaultSaved' \subseteq VaultSaved /\ \A q \in VaultSaved' : cred'[q] = cred[q]
  BY <1>1 DEF VaultSaved
<1>3. SavedReadable' /\ SavedWithKey'
  BY <1>2 DEF VaultIInv, KeysServe, SavedReadable, SavedWithKey
<1>4. \A d \in VaultClients \ {c} : vaultOp[d].pc = "remove" => VaultSaved' = {}
  BY <1>2 DEF VaultIInv, Emptied
<1>5. ASSUME NEW d \in VaultClients \ {c}, vaultOp[d].gate = "read", NEW q \in VaultSources
      PROVE  cred'[q] = cred[q]
  <2>1. r \notin VaultSources
    BY <1>5, VaultAssumption DEF VaultIInv, GateKept
  <2>. QED  BY <1>1, <2>1 DEF VaultRows
<1>6. CASE o = VaultIdle
  BY <1>1, <1>3, <1>4, <1>5, <1>6, IdleOperation, RequestInv
<1>7. CASE o = vaultOp[c] /\ vaultOp[c].kind = "idle"
  <2>1. Shaped(o)
    BY <1>7 DEF VaultIInv, EveryShaped
  <2>2. /\ o.lease => ~o.write
        /\ o.gate = "read" => \A d \in VaultClients \ {c} : vaultOp[d].gate # "write"
        /\ o.pc = "write" => o.cred.key = vaultKey' /\ vaultKey' # NoKey
        /\ o.pc = "remove" => VaultSaved' = {}
    BY <1>2, <1>7 DEF VaultIInv, LockKept, GateKept, Encrypted, Emptied
  <2>. QED  BY <1>1, <1>3, <1>4, <1>5, <1>7, <2>1, <2>2, RequestInv
<1>. QED  BY <1>6, <1>7

LEMMA RequestedInv ==
  ASSUME VaultIInv, NEW c \in VaultClients, Requested(c)
  PROVE  VaultIInv'
<1>1. exists \subseteq VaultConnections /\ exists \subseteq VaultRows
      /\ nonces \in Nat /\ cred \in [VaultRows -> Secrets]
  BY DEF VaultIInv, VaultTyped, VaultRows
<1>2. CASE VaultCreate(c)
  <2>1. PICK r \in VaultConnections : VaultBegin(c, "create", "cipher", r)
    BY <1>2 DEF VaultCreate
  <2>2. r \in VaultRows
    BY DEF VaultRows
  <2>. QED  BY <1>2, <2>1, <2>2, PlainBeginInv DEF VaultCreate, RequestKinds, RequestSteps
<1>3. CASE Update(c)
  <2>1. PICK r \in exists : VaultBegin(c, "update", "cipher", r)
    BY <1>3 DEF Update
  <2>. QED  BY <1>1, <1>3, <2>1, PlainBeginInv DEF Update, RequestKinds, RequestSteps
<1>4. CASE SaveSource(c)
  <2>1. PICK r \in VaultSources :
           vaultOp' = [vaultOp EXCEPT ![c] = [VaultIdle EXCEPT !.kind = "source",
                          !.pc = "cipher", !.row = r, !.gate = "write"]]
    BY <1>4 DEF SaveSource
  <2>. QED  BY <1>4, <2>1, GateBeginInv DEF SaveSource, RequestKinds
<1>5. CASE Clear(c)
  <2>1. PICK r \in exists : VaultBegin(c, "clear", "clear", r)
    BY <1>5 DEF Clear
  <2>. QED  BY <1>1, <1>5, <2>1, PlainBeginInv DEF Clear, RequestKinds, RequestSteps
<1>6. CASE ClearSource(c)
  <2>1. PICK r \in VaultSources :
           vaultOp' = [vaultOp EXCEPT ![c] = [VaultIdle EXCEPT !.kind = "clear",
                          !.pc = "clear", !.row = r, !.gate = "write"]]
    BY <1>6 DEF ClearSource
  <2>. QED  BY <1>6, <2>1, GateBeginInv DEF ClearSource, RequestKinds
<1>7. CASE VaultDelete(c)
  <2>1. PICK r \in exists : exists' = exists \ {r} /\ cred' = [cred EXCEPT ![r] = VaultEmpty]
    BY <1>7 DEF VaultDelete
  <2>2. vaultOp[c] \in Operations /\ vaultOp' = [vaultOp EXCEPT ![c] = vaultOp[c]]
    BY <1>7 DEF VaultDelete, VaultIInv, VaultTyped
  <2>3. vaultOp[c].kind = "idle" /\ UNCHANGED <<vaultKey, made, nonces>>
    BY <1>7 DEF VaultDelete, Busy
  <2>4. exists' \subseteq VaultConnections
    BY <1>1, <2>1
  <2>. QED  BY <1>1, <2>1, <2>2, <2>3, <2>4, ClearRowInv
<1>8. CASE Initialize(c)
  <2> DEFINE o == [VaultIdle EXCEPT !.kind = "initialize", !.pc = "lock",
                                    !.saved = VaultSaved # {}]
  <2>1. /\ o \in Operations /\ o.kind = "initialize" /\ o.pc = "lock" /\ o.gate = "none"
        /\ o.seen = {} /\ ~o.lease /\ ~o.write /\ ~o.bad
    BY IdleOperation DEF VaultIdle, Operations, RequestKinds, RequestSteps
  <2>2. vaultOp' = [vaultOp EXCEPT ![c] = o]
    BY <1>8 DEF Initialize
  <2>. HIDE DEF o
  <2>. QED  BY <1>8, <2>1, <2>2, BeginInv DEF Initialize
<1>9. CASE Reset(c)
  BY <1>9, PlainBeginInv DEF Reset, RequestKinds, RequestSteps
<1>10. CASE VaultLookup(c)
  BY <1>10, PlainBeginInv DEF VaultLookup, RequestKinds, RequestSteps
<1>11. CASE VaultVerify(c)
  <2>1. PICK r \in exists :
           vaultOp' = [vaultOp EXCEPT ![c] = [VaultIdle EXCEPT !.kind = "verify",
                          !.pc = "decrypt", !.row = r, !.cred = cred[r]]]
    BY <1>11 DEF VaultVerify
  <2> DEFINE o == [VaultIdle EXCEPT !.kind = "verify", !.pc = "decrypt", !.row = r,
                                    !.cred = cred[r]]
  <2>2. cred[r] \in Secrets /\ r \in VaultRows
    BY <1>1
  <2>3. /\ o \in Operations /\ o.kind = "verify" /\ o.pc = "decrypt" /\ o.gate = "none"
        /\ o.row = r
        /\ o.seen = {} /\ ~o.lease /\ ~o.write /\ ~o.bad
    BY <2>2, IdleOperation DEF VaultIdle, Operations, RequestKinds, RequestSteps
  <2>4. vaultOp' = [vaultOp EXCEPT ![c] = o]
    BY <2>1
  <2>. HIDE DEF o
  <2>. QED  BY <1>11, <2>2, <2>3, <2>4, BeginInv DEF VaultVerify
<1>. QED  BY <1>2, <1>3, <1>4, <1>5, <1>6, <1>7, <1>8, <1>9, <1>10, <1>11 DEF Requested

(* A request goes on and keeps its place at the gate. *)
LEMMA AdvanceInv ==
  ASSUME VaultIInv, NEW c \in VaultClients, NEW o \in Operations,
         vaultOp' = [vaultOp EXCEPT ![c] = o], Shaped(o), o.gate = vaultOp[c].gate,
         UNCHANGED <<vaultKey, made, exists, cred>>, nonces' \in Nat,
         o.lease => ~o.write /\ (vaultOp[c].lease \/ Readable),
         o.write => vaultOp[c].write \/ MayWrite,
         o.pc = "write" => o.cred.key = vaultKey /\ vaultKey # NoKey,
         o.pc = "remove" => VaultSaved = {},
         o.kind = "lookup" =>
            /\ ~o.bad
            /\ \A x \in o.seen : cred[x.row] = x.cred
            /\ o.pc = "decrypt" => o.cred # VaultEmpty /\ cred[o.row] = o.cred
  PROVE  VaultIInv'
<1>1. o.gate = "read" => \A d \in VaultClients \ {c} : vaultOp[d].gate # "write"
  BY DEF VaultIInv, GateKept
<1>. QED  BY <1>1, MoveInv

LEMMA CipherInv ==
  ASSUME VaultIInv, NEW c \in VaultClients, Cipher(c)
  PROVE  VaultIInv'
<1>1. vaultOp[c].pc = "cipher" /\ Readable /\ UNCHANGED <<vaultKey, made, exists, cred>>
  BY DEF Cipher, MayRead
<1>2. /\ vaultOp[c] \in Operations /\ Shaped(vaultOp[c])
      /\ vaultKey \in Nat /\ nonces \in Nat
  BY DEF VaultIInv, VaultTyped, EveryShaped
<1>3. CASE vaultKey = NoKey
  BY <1>1, <1>2, <1>3, EndInv DEF Cipher
<1>4. CASE vaultKey # NoKey
  <2> DEFINE s == [key |-> vaultKey, n |-> nonces + 1]
             o == [vaultOp[c] EXCEPT !.pc = "write", !.lease = TRUE, !.cred = s]
  <2>1. s \in Secrets /\ s.key = vaultKey /\ nonces' \in Nat
    BY <1>2, <1>4 DEF Secrets, Cipher
  <2>2. vaultOp' = [vaultOp EXCEPT ![c] = o]
    BY <1>4 DEF Cipher
  <2>. HIDE DEF s
  <2>3. /\ o \in Operations /\ o.kind = vaultOp[c].kind /\ o.pc = "write"
        /\ o.row = vaultOp[c].row /\ o.gate = vaultOp[c].gate /\ o.cred = s
        /\ o.lease /\ (o.write <=> vaultOp[c].write)
    BY <1>2, <2>1 DEF Operations, RequestSteps
  <2>. HIDE DEF o
  <2>4. vaultOp[c].kind # "lookup" /\ ~vaultOp[c].write /\ Guarded(vaultOp[c])
    BY <1>1, <1>2 DEF Shaped
  <2>5. Shaped(o)
    BY <1>2, <2>3, <2>4 DEF Shaped, Guarded
  <2>. QED  BY <1>1, <1>4, <2>1, <2>2, <2>3, <2>4, <2>5, AdvanceInv
<1>. QED  BY <1>3, <1>4

LEMMA WriteInv ==
  ASSUME VaultIInv, NEW c \in VaultClients, Write(c)
  PROVE  VaultIInv'
<1> DEFINE r == vaultOp[c].row
           s == vaultOp[c].cred
           o == IF vaultOp[c].kind = "source"
                THEN [vaultOp[c] EXCEPT !.pc = "view", !.lease = FALSE] ELSE VaultIdle
<1>1. /\ vaultOp[c].pc = "write" /\ UNCHANGED <<vaultKey, made, nonces>>
      /\ cred' = [cred EXCEPT ![r] = s] \/ cred' = cred
      /\ exists' = IF vaultOp[c].kind = "create" THEN exists \union {r} ELSE exists
  BY DEF Write, vaultBounds
<1>2. /\ vaultOp[c] \in Operations /\ Shaped(vaultOp[c])
      /\ cred \in [VaultRows -> Secrets] /\ exists \subseteq VaultConnections
      /\ vaultKey' \in Nat /\ made' \in Nat /\ nonces' \in Nat
  BY <1>1 DEF VaultIInv, VaultTyped, EveryShaped
<1>3. /\ Guarded(vaultOp[c]) /\ vaultOp[c].lease /\ ~vaultOp[c].write
      /\ r \in VaultRows /\ s \in Secrets
      /\ s.key = vaultKey /\ vaultKey # NoKey
      /\ vaultOp[c].kind # "lookup"
  BY <1>1, <1>2 DEF Shaped, Guarded, VaultRows, Operations, VaultIInv, Encrypted
<1>4. vaultOp' = [vaultOp EXCEPT ![c] = o]
  BY <1>2 DEF Write
<1>5. /\ o \in Operations /\ o.pc \in {"view", "idle"} /\ ~o.lease /\ ~o.write
      /\ o.kind \in {"source", "idle"}
      /\ o.gate = "none" \/ o.gate = vaultOp[c].gate
  BY <1>2, <1>3, IdleOperation DEF Operations, RequestSteps
<1>6. exists' \subseteq VaultConnections
  BY <1>1, <1>2 DEF Shaped
<1>. HIDE DEF r, s, o
<1>7. Shaped(o)
  BY <1>5 DEF Shaped
<1>8. /\ cred' \in [VaultRows -> Secrets]
      /\ \A q \in VaultRows : cred'[q] = cred[q] \/ (q = r /\ cred'[q] = s)
  BY <1>1, <1>2, <1>3
<1>9. SavedReadable' /\ SavedWithKey'
  BY <1>1, <1>3, <1>8
  DEF VaultIInv, KeysServe, SavedReadable, SavedWithKey, VaultSaved
<1>10. \A d \in VaultClients \ {c} : vaultOp[d].pc # "remove"
  BY <1>3 DEF VaultIInv, LockKept, EveryShaped, Shaped
<1>11. ASSUME NEW d \in VaultClients \ {c}, vaultOp[d].gate = "read",
              NEW q \in VaultSources
       PROVE  cred'[q] = cred[q]
  <2>1. vaultOp[c].gate # "write"
    BY <1>11 DEF VaultIInv, GateKept
  <2>2. r \in VaultConnections
    BY <1>3, <2>1 DEF Guarded, r
  <2>3. q # r /\ q \in VaultRows
    BY <2>2, VaultAssumption DEF VaultRows
  <2>. QED  BY <1>8, <2>3
<1>12. o.gate = "read" => \A d \in VaultClients \ {c} : vaultOp[d].gate # "write"
  BY <1>5 DEF VaultIInv, GateKept
<1>. QED  BY <1>1, <1>2, <1>4, <1>5, <1>6, <1>7, <1>8, <1>9, <1>10, <1>11, <1>12,
             RequestInv

(* The key is made while nobody holds a lease and nothing is saved. *)
LEMMA InitializedInv ==
  ASSUME VaultIInv, NEW c \in VaultClients, Initialized(c)
  PROVE  VaultIInv'
<1>1. /\ vaultOp' = [vaultOp EXCEPT ![c] = VaultIdle]
      /\ MayWrite /\ UNCHANGED <<exists, cred, nonces>>
      /\ \/ vaultKey = NoKey /\ made' = made + 1 /\ vaultKey' = made + 1
         \/ UNCHANGED <<vaultKey, made>>
  BY DEF Initialized, VaultFinish, vaultBounds
<1>2. CASE UNCHANGED <<vaultKey, made>>
  BY <1>1, <1>2, EndInv DEF VaultFinish, VaultIInv, VaultTyped
<1>3. CASE vaultKey = NoKey /\ made' = made + 1 /\ vaultKey' = made + 1
  <2>1. /\ vaultKey' \in Nat /\ made' \in Nat /\ nonces' \in Nat
        /\ exists' \subseteq VaultConnections /\ cred' \in [VaultRows -> Secrets]
    BY <1>1, <1>3 DEF VaultIInv, VaultTyped
  <2>2. VaultSaved = {}
    BY <1>3 DEF VaultIInv, KeysServe, SavedReadable, SavedWithKey
  <2>3. VaultSaved' = {}
    BY <1>1, <2>2 DEF VaultSaved
  <2>4. SavedReadable' /\ SavedWithKey'
    BY <2>3 DEF SavedReadable, SavedWithKey
  <2>5. \A d \in VaultClients \ {c} : ~vaultOp[d].lease
    BY <1>1 DEF MayWrite
  <2>. QED  BY <1>1, <2>1, <2>3, <2>4, <2>5, IdleOperation, RequestInv
<1>. QED  BY <1>1, <1>2, <1>3

(* A reset clears the rows while no lookup is there, and removes the key *)
(* only then.                                                            *)
LEMMA LockInv ==
  ASSUME VaultIInv, NEW c \in VaultClients, Lock(c)
  PROVE  VaultIInv'
<1> DEFINE o == [vaultOp[c] EXCEPT !.pc = "rows", !.write = TRUE]
<1>1. /\ vaultOp[c].kind = "reset" /\ MayWrite
      /\ UNCHANGED <<vaultKey, made, exists, cred, nonces>>
      /\ vaultOp[c] \in Operations /\ nonces \in Nat
  BY DEF Lock, VaultIInv, VaultTyped, vaultBounds
<1>2. vaultOp' = [vaultOp EXCEPT ![c] = o]
  BY DEF Lock
<1>3. /\ o \in Operations /\ o.kind = "reset" /\ o.pc = "rows" /\ o.write
      /\ o.gate = vaultOp[c].gate /\ o.lease = vaultOp[c].lease
  BY <1>1 DEF Operations, RequestSteps
<1>. HIDE DEF o
<1>4. Shaped(o) /\ ~o.lease
  BY <1>1, <1>3 DEF Shaped, MayWrite
<1>. QED  BY <1>1, <1>2, <1>3, <1>4, AdvanceInv

LEMMA ResetRowsInv ==
  ASSUME VaultIInv, NEW c \in VaultClients, ResetRows(c)
  PROVE  VaultIInv'
<1>1. /\ vaultOp[c].kind = "reset" /\ vaultOp[c].pc = "rows"
      /\ UNCHANGED <<vaultKey, made, exists, nonces>>
      /\ vaultOp[c] \in Operations /\ nonces \in Nat /\ Shaped(vaultOp[c])
  BY DEF ResetRows, VaultIInv, VaultTyped, EveryShaped, vaultBounds
<1>2. CASE Lookups # {}
  BY <1>1, <1>2, EndInv DEF ResetRows
<1>3. CASE Lookups = {}
  <2> DEFINE o == [vaultOp[c] EXCEPT !.pc = "remove"]
  <2>1. cred' = [r \in VaultRows |-> VaultEmpty] /\ vaultOp' = [vaultOp EXCEPT ![c] = o]
    BY <1>3 DEF ResetRows, VaultGo
  <2>2. /\ o \in Operations /\ o.kind = "reset" /\ o.pc = "remove"
        /\ o.write = vaultOp[c].write
        /\ o.gate = vaultOp[c].gate /\ o.lease = vaultOp[c].lease
    BY <1>1 DEF Operations, RequestSteps
  <2>. HIDE DEF o
  <2>3. vaultOp[c].write /\ ~o.lease
    BY <1>1, <2>2 DEF Shaped, VaultIInv, LockKept
  <2>4. Shaped(o)
    BY <2>2, <2>3 DEF Shaped
  <2>5. cred' \in [VaultRows -> Secrets] /\ VaultSaved' = {}
    BY <2>1, EmptySecret DEF VaultSaved
  <2>6. SavedReadable' /\ SavedWithKey'
    BY <2>5 DEF SavedReadable, SavedWithKey
  <2>7. /\ vaultKey' \in Nat /\ made' \in Nat /\ nonces' \in Nat
        /\ exists' \subseteq VaultConnections
    BY <1>1 DEF VaultIInv, VaultTyped
  <2>8. vaultOp'[c] = o /\ \A d \in VaultClients \ {c} : vaultOp'[d] = vaultOp[d]
    BY <2>1 DEF VaultIInv, VaultTyped
  <2>9. VaultTyped' /\ EveryShaped'
    BY <2>1, <2>2, <2>4, <2>5, <2>7, <2>8 DEF VaultIInv, VaultTyped, EveryShaped
  <2>10. LockKept'
    BY <2>2, <2>3, <2>8 DEF VaultIInv, LockKept
  <2>11. GateKept'
    BY <2>2, <2>8 DEF VaultIInv, GateKept
  <2>12. Encrypted' /\ Emptied'
    BY <1>1, <2>2, <2>5, <2>8 DEF VaultIInv, Encrypted, Emptied
  <2>13. Lookups' = {}
    BY <1>3, <2>2, <2>8 DEF Lookups
  <2>. QED  BY <2>6, <2>9, <2>10, <2>11, <2>12, <2>13
            DEF VaultIInv, KeysServe, ReadIsSaved, LookupStable
<1>. QED  BY <1>2, <1>3

LEMMA RemoveInv ==
  ASSUME VaultIInv, NEW c \in VaultClients, Remove(c)
  PROVE  VaultIInv'
<1>1. /\ vaultOp' = [vaultOp EXCEPT ![c] = VaultIdle]
      /\ vaultOp[c].pc = "remove"
      /\ UNCHANGED <<made, exists, cred, nonces>>
      /\ vaultKey' = NoKey \/ vaultKey' = vaultKey
  BY DEF Remove, VaultFinish
<1>2. /\ vaultKey' \in Nat /\ made' \in Nat /\ nonces' \in Nat
      /\ exists' \subseteq VaultConnections /\ cred' \in [VaultRows -> Secrets]
  BY <1>1 DEF VaultIInv, VaultTyped, NoKey
<1>3. VaultSaved = {} /\ VaultSaved' = {}
  BY <1>1 DEF VaultIInv, Emptied, VaultSaved
<1>4. SavedReadable' /\ SavedWithKey'
  BY <1>3 DEF SavedReadable, SavedWithKey
<1>5. \A d \in VaultClients : ~vaultOp[d].lease
  BY <1>1 DEF VaultIInv, EveryShaped, Shaped, LockKept
<1>. QED  BY <1>1, <1>2, <1>3, <1>4, <1>5, IdleOperation, RequestInv

(* A lookup takes the gate, reads the keys and decrypts them. *)
LEMMA LeaseInv ==
  ASSUME VaultIInv, NEW c \in VaultClients, Lease(c)
  PROVE  VaultIInv'
<1> DEFINE o == [vaultOp[c] EXCEPT !.pc = "read", !.gate = "read", !.todo = VaultSources]
<1>1. /\ vaultOp[c].pc = "lease" /\ \A d \in VaultClients : vaultOp[d].gate # "write"
      /\ UNCHANGED <<vaultKey, made, exists, cred, nonces>>
      /\ vaultOp' = [vaultOp EXCEPT ![c] = o]
      /\ vaultOp[c] \in Operations /\ nonces \in Nat /\ Shaped(vaultOp[c])
  BY DEF Lease, VaultIInv, VaultTyped, EveryShaped, vaultBounds
<1>2. /\ o \in Operations /\ o.kind = vaultOp[c].kind /\ o.pc = "read" /\ o.gate = "read"
      /\ o.lease = vaultOp[c].lease /\ o.write = vaultOp[c].write
      /\ o.bad = vaultOp[c].bad /\ o.seen = vaultOp[c].seen
  BY <1>1 DEF Operations, RequestSteps
<1>. HIDE DEF o
<1>3. o.kind = "lookup" /\ o.seen = {} /\ ~o.write
  BY <1>1, <1>2 DEF Shaped
<1>4. Shaped(o)
  BY <1>2, <1>3 DEF Shaped
<1>5. ~o.bad
  BY <1>2, <1>3 DEF VaultIInv, KeysServe, LookupStable, Lookups
<1>. QED  BY <1>1, <1>2, <1>3, <1>4, <1>5, MoveInv

LEMMA ReadInv ==
  ASSUME VaultIInv, NEW c \in VaultClients, VaultRead(c)
  PROVE  VaultIInv'
<1>1. /\ vaultOp[c].pc = "read"
      /\ UNCHANGED <<vaultKey, made, exists, cred, nonces>>
      /\ vaultOp[c] \in Operations /\ nonces \in Nat /\ Shaped(vaultOp[c])
      /\ cred \in [VaultRows -> Secrets]
  BY DEF VaultRead, VaultIInv, VaultTyped, EveryShaped, vaultBounds
<1>2. /\ vaultOp[c].kind = "lookup" /\ vaultOp[c].gate = "read" /\ ~vaultOp[c].write
      /\ ~vaultOp[c].bad
      /\ \A x \in vaultOp[c].seen : cred[x.row] = x.cred /\ x.row \in VaultSources
  BY <1>1 DEF Shaped, VaultIInv, KeysServe, LookupStable, Lookups
<1>3. CASE vaultOp[c].todo = {}
  <2> DEFINE o == [vaultOp[c] EXCEPT !.pc = "use"]
  <2>1. vaultOp' = [vaultOp EXCEPT ![c] = o]
    BY <1>3 DEF VaultRead
  <2>2. /\ o \in Operations /\ o.kind = "lookup" /\ o.pc = "use" /\ o.gate = "read"
        /\ o.lease = vaultOp[c].lease /\ o.write = vaultOp[c].write
        /\ o.bad = vaultOp[c].bad /\ o.seen = vaultOp[c].seen
    BY <1>1, <1>2 DEF Operations, RequestSteps
  <2>. HIDE DEF o
  <2>3. Shaped(o)
    BY <1>2, <2>2 DEF Shaped
  <2>. QED  BY <1>1, <1>2, <2>1, <2>2, <2>3, AdvanceInv
<1>4. CASE vaultOp[c].todo # {}
  <2>1. PICK r : r = CHOOSE q \in vaultOp[c].todo : TRUE
    OBVIOUS
  <2>2. r \in vaultOp[c].todo
    BY <1>4, <2>1
  <2>3. r \in VaultSources /\ r \in VaultRows /\ cred[r] \in Secrets
    BY <1>1, <2>2 DEF Operations, VaultRows
  <2> DEFINE p == IF cred[r] = VaultEmpty THEN "read" ELSE "decrypt"
             o == [vaultOp[c] EXCEPT !.todo = @ \ {r}, !.row = r, !.cred = cred[r], !.pc = p]
  <2>4. vaultOp' = [vaultOp EXCEPT ![c] = o]
    BY <1>1, <1>4, <2>1 DEF VaultRead
  <2>5. p \in RequestSteps /\ p \in {"read", "decrypt"}
        /\ (p = "decrypt" => cred[r] # VaultEmpty)
    BY DEF RequestSteps
  <2>. HIDE DEF p
  <2>6. /\ o \in Operations /\ o.kind = "lookup" /\ o.pc = p /\ o.gate = "read"
        /\ o.row = r /\ o.cred = cred[r]
        /\ o.lease = vaultOp[c].lease /\ o.write = vaultOp[c].write
        /\ o.bad = vaultOp[c].bad /\ o.seen = vaultOp[c].seen
    BY <1>1, <1>2, <2>3, <2>5 DEF Operations
  <2>. HIDE DEF o
  <2>7. Shaped(o)
    BY <1>2, <2>3, <2>5, <2>6 DEF Shaped
  <2>. QED  BY <1>1, <1>2, <2>4, <2>5, <2>6, <2>7, AdvanceInv
<1>. QED  BY <1>3, <1>4

LEMMA DecryptInv ==
  ASSUME VaultIInv, NEW c \in VaultClients, Decrypt(c)
  PROVE  VaultIInv'
<1>1. /\ vaultOp[c].pc = "decrypt" /\ Readable
      /\ UNCHANGED <<vaultKey, made, exists, cred, nonces>>
      /\ vaultOp[c] \in Operations /\ nonces \in Nat /\ Shaped(vaultOp[c])
  BY DEF Decrypt, MayRead, VaultIInv, VaultTyped, EveryShaped, vaultBounds
<1>2. /\ ~vaultOp[c].write
      /\ vaultOp[c].kind = "create" => vaultOp[c].row \in VaultConnections
      /\ vaultOp[c].kind = "lookup" =>
            /\ vaultOp[c].gate = "read" /\ ~vaultOp[c].bad
            /\ vaultOp[c].row \in VaultSources
            /\ vaultOp[c].cred # VaultEmpty /\ cred[vaultOp[c].row] = vaultOp[c].cred
            /\ \A x \in vaultOp[c].seen : cred[x.row] = x.cred /\ x.row \in VaultSources
  BY <1>1 DEF Shaped, VaultIInv, KeysServe, LookupStable, ReadIsSaved, Lookups
<1>3. CASE vaultKey = vaultOp[c].cred.key
  <2> DEFINE p == IF vaultOp[c].kind = "lookup" THEN "read" ELSE "use"
             x == [row |-> vaultOp[c].row, cred |-> vaultOp[c].cred]
             o == [vaultOp[c] EXCEPT !.pc = p, !.lease = TRUE, !.seen = @ \union {x}]
  <2>1. vaultOp' = [vaultOp EXCEPT ![c] = o]
    BY <1>1, <1>3 DEF Decrypt
  <2>2. /\ p \in {"read", "use"} /\ p \in RequestSteps
        /\ p = "read" <=> vaultOp[c].kind = "lookup"
    BY DEF RequestSteps
  <2>3. x \in [row : VaultRows, cred : Secrets] /\ x.row = vaultOp[c].row
        /\ x.cred = vaultOp[c].cred
    BY <1>1 DEF Shaped, Operations
  <2>. HIDE DEF p, x
  <2>4. /\ o \in Operations /\ o.kind = vaultOp[c].kind /\ o.pc = p
        /\ o.row = vaultOp[c].row /\ o.gate = vaultOp[c].gate
        /\ o.lease = TRUE /\ o.write = vaultOp[c].write
        /\ o.bad = vaultOp[c].bad /\ o.seen = vaultOp[c].seen \union {x}
    BY <1>1, <2>2, <2>3 DEF Operations
  <2>. HIDE DEF o
  <2>5. Shaped(o)
    BY <1>2, <2>2, <2>3, <2>4 DEF Shaped
  <2>6. o.kind = "lookup" => ~o.bad /\ \A y \in o.seen : cred[y.row] = y.cred
    BY <1>2, <2>3, <2>4
  <2>. QED  BY <1>1, <1>2, <2>1, <2>2, <2>4, <2>5, <2>6, AdvanceInv
<1>4. CASE vaultKey # vaultOp[c].cred.key
  <2> DEFINE o == [vaultOp[c] EXCEPT !.pc = "use", !.bad = TRUE]
  <2>1. vaultOp' = [vaultOp EXCEPT ![c] = o]
    BY <1>1, <1>4 DEF Decrypt
  <2>2. /\ o \in Operations /\ o.kind = vaultOp[c].kind /\ o.pc = "use"
        /\ o.row = vaultOp[c].row
        /\ o.gate = vaultOp[c].gate /\ o.lease = vaultOp[c].lease
        /\ o.write = vaultOp[c].write
    BY <1>1 DEF Operations, RequestSteps
  <2>. HIDE DEF o
  <2>3. vaultOp[c].kind # "lookup"
    <3>1. SUFFICES ASSUME vaultOp[c].kind = "lookup" PROVE FALSE
      OBVIOUS
    <3>2. vaultOp[c].row \in VaultSaved
      BY <1>2, <3>1 DEF VaultSaved, VaultRows
    <3>. QED  BY <1>2, <1>4, <3>1, <3>2 DEF VaultIInv, KeysServe, SavedReadable
  <2>4. Shaped(o)
    BY <1>2, <2>2, <2>3 DEF Shaped
  <2>. QED  BY <1>1, <1>2, <2>1, <2>2, <2>3, <2>4, AdvanceInv
<1>. QED  BY <1>3, <1>4

(* A process that ends forgets its requests; a rotation, while it is down, *)
(* leaves every saved credential readable with the new key.                *)
LEMMA DownInv ==
  ASSUME VaultIInv, vaultOp' = [c \in VaultClients |-> VaultIdle],
         vaultKey' \in Nat, made' \in Nat, nonces' \in Nat, exists' = exists,
         cred' \in [VaultRows -> Secrets], SavedReadable', SavedWithKey'
  PROVE  VaultIInv'
<1>1. \A c \in VaultClients : vaultOp'[c] = VaultIdle
  OBVIOUS
<1>2. VaultTyped'
  BY IdleOperation DEF VaultIInv, VaultTyped
<1>3. EveryShaped' /\ LockKept' /\ GateKept' /\ Encrypted' /\ Emptied'
  BY <1>1, IdleOperation DEF EveryShaped, LockKept, GateKept, Encrypted, Emptied
<1>4. Lookups' = {}
  BY <1>1, IdleOperation DEF Lookups
<1>. QED  BY <1>2, <1>3, <1>4 DEF VaultIInv, KeysServe, ReadIsSaved, LookupStable

LEMMA RotateInv ==
  ASSUME VaultIInv, Rotate
  PROVE  VaultIInv'
<1> DEFINE s == [key |-> made + 1, n |-> nonces + 1]
<1>1. /\ vaultOp' = [c \in VaultClients |-> VaultIdle]
      /\ made' = made + 1 /\ vaultKey' = made + 1 /\ nonces' = nonces + 1
      /\ exists' = exists
      /\ cred' = [r \in VaultRows |-> IF r \in VaultSaved THEN s ELSE VaultEmpty]
  BY DEF Rotate
<1>2. made \in Nat /\ nonces \in Nat
  BY DEF VaultIInv, VaultTyped
<1>3. s \in Secrets /\ s.key = made + 1 /\ s.key # NoKey
  BY <1>2 DEF Secrets, NoKey
<1>. HIDE DEF s
<1>4. /\ cred' \in [VaultRows -> Secrets]
      /\ \A r \in VaultRows : cred'[r] = s \/ cred'[r] = VaultEmpty
  BY <1>1, <1>3, EmptySecret
<1>5. SavedReadable' /\ SavedWithKey'
  BY <1>1, <1>3, <1>4 DEF SavedReadable, SavedWithKey, VaultSaved
<1>6. vaultKey' \in Nat /\ made' \in Nat /\ nonces' \in Nat
  BY <1>1, <1>2
<1>. QED  BY <1>1, <1>4, <1>5, <1>6, DownInv

LEMMA StepInv ==
  ASSUME VaultIInv, NEW c \in VaultClients, VaultStep(c)
  PROVE  VaultIInv'
<1>1. nonces \in Nat /\ vaultOp[c] \in Operations /\ Shaped(vaultOp[c])
  BY DEF VaultIInv, VaultTyped, EveryShaped
<1>2. CASE Cipher(c)
  BY <1>2, CipherInv
<1>3. CASE Write(c)
  BY <1>3, WriteInv
<1>4. CASE WriteFails(c) \/ View(c) \/ Use(c)
  BY <1>1, <1>4, EndInv DEF WriteFails, View, Use, vaultBounds
<1>5. CASE Cleared(c)
  <2>1. /\ vaultOp' = [vaultOp EXCEPT ![c] = VaultIdle]
        /\ cred' = [cred EXCEPT ![vaultOp[c].row] = VaultEmpty]
        /\ UNCHANGED <<vaultKey, made, exists, nonces>>
        /\ exists' \subseteq VaultConnections
    BY <1>5 DEF Cleared, VaultFinish, vaultBounds, VaultIInv, VaultTyped
  <2>2. /\ vaultOp[c].row \in VaultRows
        /\ vaultOp[c].row \in VaultConnections \/ vaultOp[c].gate = "write"
    BY <1>1, <1>5 DEF Cleared, Shaped, Guarded, VaultRows
  <2>. QED  BY <2>1, <2>2, IdleOperation, ClearRowInv
<1>6. CASE Initialized(c)
  BY <1>6, InitializedInv
<1>7. CASE Lock(c)
  BY <1>7, LockInv
<1>8. CASE ResetRows(c)
  BY <1>8, ResetRowsInv
<1>9. CASE Remove(c)
  BY <1>9, RemoveInv
<1>10. CASE Lease(c)
  BY <1>10, LeaseInv
<1>11. CASE VaultRead(c)
  BY <1>11, ReadInv
<1>12. CASE Decrypt(c)
  BY <1>12, DecryptInv
<1>. QED  BY <1>2, <1>3, <1>4, <1>5, <1>6, <1>7, <1>8, <1>9, <1>10, <1>11, <1>12
          DEF VaultStep

LEMMA VaultNextInv == VaultIInv /\ [VaultNext]_vaultVars => VaultIInv'
<1> SUFFICES ASSUME VaultIInv, [VaultNext]_vaultVars PROVE VaultIInv'
  OBVIOUS
<1>1. ASSUME NEW c \in VaultClients, Requested(c) \/ VaultStep(c) PROVE VaultIInv'
  BY <1>1, RequestedInv, StepInv
<1>2. CASE Rotate
  BY <1>2, RotateInv
<1>3. CASE VaultCrash
  <2>1. /\ vaultKey' \in Nat /\ made' \in Nat /\ nonces' \in Nat
        /\ cred' \in [VaultRows -> Secrets]
    BY <1>3 DEF VaultCrash, VaultIInv, VaultTyped
  <2>2. SavedReadable' /\ SavedWithKey'
    BY <1>3 DEF VaultCrash, VaultIInv, KeysServe, SavedReadable, SavedWithKey, VaultSaved
  <2>. QED  BY <1>3, <2>1, <2>2, DownInv DEF VaultCrash
<1>4. CASE UNCHANGED vaultVars
  BY <1>4 DEF vaultVars, VaultIInv, VaultTyped, EveryShaped, LockKept, GateKept, Encrypted,
     Emptied, SavedWithKey, ReadIsSaved, KeysServe, SavedReadable, LookupStable,
     VaultSaved, Lookups
<1>. QED  BY <1>1, <1>2, <1>3, <1>4 DEF VaultNext

(***************************************************************************)
(* Every saved credential can be read with the key in place, and the keys  *)
(* of the sources stand still under a lookup: for every number of          *)
(* connections, sources and concurrent requests, and through failed        *)
(* writes, failed removals of the key, crashes and rotations.              *)
(***************************************************************************)
THEOREM CredentialsServe == VaultSpec => []KeysServe
<1>1. VaultIInv => KeysServe
  BY DEF VaultIInv
<1>. QED  BY <1>1, VaultInitInv, VaultNextInv, PTL DEF VaultSpec

-----------------------------------------------------------------------------
(***************************************************************************)
(* Stored catalog evidence is of the settings in force, and a review       *)
(* accepts only what is current, for every library, every set of           *)
(* vocabularies and any number of edits, lookups and scans.                *)
(*                                                                         *)
(* The invariant says what a lookup carries between its steps: the sources *)
(* of now, because it holds their lease, and the vocabulary of now unless  *)
(* the revision it captured before loading it is stale (Carried).  That    *)
(* order of the two reads is what makes the invariant inductive.           *)
(***************************************************************************)

LookupSteps == {"idle", "lease", "revision", "vocabulary", "track", "query", "tags",
                "enrichment"}
LookupStates ==
    [pc : LookupSteps, tracks : [Tracks -> [meta : Nat, file : Nat]], todo : SUBSET Tracks,
     src : Sources, rev : Nat, voc : SUBSET Tags, force : BOOLEAN, partial : BOOLEAN,
     found : BOOLEAN, moods : SUBSET Tags]

Typed ==
    /\ index \in [Tracks -> [meta : Nat, file : Nat]]
    /\ src \in Sources
    /\ vocabulary \in [rev : Nat, tags : SUBSET Tags]
    /\ revision \in Nat
    /\ lookup \in LookupStates

Loaded == {"track", "query", "tags", "enrichment"}

(* What a lookup carries, given the settings. *)
Carries(l, s, v, r) ==
    LET lastfm == l.src.lastfm /\ l.src.key # 0 IN
    /\ l.rev <= r
    /\ l.pc \notin {"idle", "lease"} => l.src = s
    /\ l.pc \in Loaded /\ l.rev = r => l.voc = IF lastfm THEN v ELSE {}
    /\ l.pc = "tags" => lastfm

Carried == Carries(lookup, src, vocabulary.tags, revision)

(* A profile of the model, stored or in work, names the vocabulary it was *)
(* made under.                                                            *)
ModelNamed ==
    /\ \A x \in analyses : x.a # "catalog" => x.made.voc = x.sig.voc
    /\ tagger.pc = "answer" => tagger.sig.voc = tagger.voc

EvidenceIInv ==
    /\ Typed
    /\ Carried
    /\ ModelNamed
    /\ EvidenceIsCurrent
----------------------------------------------------------------------------
LEMMA NoLookupTyped ==
  /\ NoLookup \in LookupStates
  /\ NoLookup.pc = "idle" /\ NoLookup.rev = 0
<1>1. NoTracks \in [Tracks -> [meta : Nat, file : Nat]] /\ NoSources \in Sources
  BY DEF NoTracks, NoSources, Sources
<1>. QED  BY <1>1 DEF NoLookup, LookupStates, LookupSteps

(* A lookup that has ended carries nothing. *)
LEMMA NoneCarried ==
  ASSUME NEW s, NEW v, NEW r \in Nat
  PROVE  Carries(NoLookup, s, v, r)
BY NoLookupTyped DEF Carries, Loaded

LEMMA EvidenceInitInv == Init => EvidenceIInv
<1> SUFFICES ASSUME Init PROVE EvidenceIInv
  OBVIOUS
<1>1. Typed
  <2>1. Default \in SUBSET Tags
    BY TagsAssumption
  <2>. QED  BY <2>1, NoLookupTyped DEF Init, Typed, Sources
<1>2. Carried
  BY <1>1, NoneCarried DEF Init, Carried, Typed
<1>3. ModelNamed /\ EvidenceIsCurrent
  BY DEF Init, ModelNamed, EvidenceIsCurrent, EvidenceRevision, EvidenceMatchesSettings,
     NoTagger
<1>. QED  BY <1>1, <1>2, <1>3 DEF EvidenceIInv

(* A setting changes with its invalidation: nothing made before it is left, *)
(* and what a lookup carries is of an older revision.                       *)
LEMMA SettingInv ==
  ASSUME EvidenceIInv, invalidate, UNCHANGED <<index, lookup, tagger>>,
         src' \in Sources, vocabulary' \in [rev : Nat, tags : SUBSET Tags],
         Leased => src' = src
  PROVE  EvidenceIInv'
<1>1. Typed'
  BY DEF EvidenceIInv, Typed, invalidate
<1>2. Carried'
  <2>1. lookup \in LookupStates /\ revision \in Nat /\ revision' = revision + 1
        /\ lookup' = lookup
    BY DEF EvidenceIInv, Typed, invalidate
  <2>2. lookup.rev \in Nat /\ lookup.rev <= revision
    BY <2>1 DEF LookupStates, EvidenceIInv, Carried, Carries
  <2>3. lookup.rev <= revision + 1 /\ lookup.rev # revision + 1
    BY <2>1, <2>2
  <2>4. lookup.pc \notin {"idle", "lease"} => lookup.src = src'
    BY DEF EvidenceIInv, Carried, Carries, Leased
  <2>5. lookup.pc = "tags" => lookup.src.lastfm /\ lookup.src.key # 0
    BY DEF EvidenceIInv, Carried, Carries
  <2>. QED  BY <2>1, <2>3, <2>4, <2>5 DEF Carried, Carries
<1>3. ModelNamed'
  BY DEF EvidenceIInv, ModelNamed, invalidate
<1>4. EvidenceIsCurrent'
  BY DEF EvidenceIsCurrent, EvidenceRevision, EvidenceMatchesSettings, invalidate
<1>. QED  BY <1>1, <1>2, <1>3, <1>4 DEF EvidenceIInv

(* Everything the evidence is about stays; a lookup carries what it may. *)
LEMMA QuietInv ==
  ASSUME EvidenceIInv, index' \in [Tracks -> [meta : Nat, file : Nat]],
         UNCHANGED <<src, vocabulary, revision, enrichments, analyses, reviews>>,
         tagger'.pc = "answer" => tagger'.sig.voc = tagger'.voc,
         lookup' \in LookupStates, Carries(lookup', src, vocabulary.tags, revision)
  PROVE  EvidenceIInv'
<1>1. Typed' /\ Carried'
  BY DEF EvidenceIInv, Typed, Carried
<1>2. ModelNamed' /\ EvidenceIsCurrent'
  BY DEF EvidenceIInv, ModelNamed, EvidenceIsCurrent, EvidenceRevision, EvidenceMatchesSettings
<1>. QED  BY <1>1, <1>2 DEF EvidenceIInv

(* Nothing of the evidence or of a lookup changes. *)
LEMMA AsideInv ==
  ASSUME EvidenceIInv, index' \in [Tracks -> [meta : Nat, file : Nat]],
         UNCHANGED <<src, vocabulary, evidence, reviews, lookup, tagger>>
  PROVE  EvidenceIInv'
BY QuietInv DEF EvidenceIInv, Typed, Carried, ModelNamed, evidence

LEMMA SettingsInv ==
  ASSUME EvidenceIInv, Settings
  PROVE  EvidenceIInv'
<1>1. src \in Sources /\ vocabulary \in [rev : Nat, tags : SUBSET Tags]
      /\ index \in [Tracks -> [meta : Nat, file : Nat]]
  BY DEF EvidenceIInv, Typed
<1>2. ASSUME NEW enabled \in BOOLEAN, SetSourceEnabled(enabled) PROVE EvidenceIInv'
  <2>1. src' \in Sources
    BY <1>1, <1>2 DEF SetSourceEnabled, Sources
  <2>. QED  BY <1>1, <1>2, <2>1, SettingInv DEF SetSourceEnabled, library, requests
<1>3. ASSUME NEW key \in Nat, WriteCredential(key) PROVE EvidenceIInv'
  <2>1. src' \in Sources
    BY <1>1, <1>3 DEF WriteCredential, Sources
  <2>. QED  BY <1>1, <1>3, <2>1, SettingInv DEF WriteCredential, library, requests
<1>4. CASE ResetCredentials
  <2>1. src' \in Sources
    BY <1>1, <1>4 DEF ResetCredentials, Sources
  <2>. QED  BY <1>1, <1>4, <2>1, SettingInv DEF ResetCredentials, library, requests, Leased
<1>5. ASSUME NEW tags \in Vocabularies, ReplaceVocabulary(tags) PROVE EvidenceIInv'
  <2>1. tags \in SUBSET Tags
    BY TagsAssumption
  <2>2. vocabulary' \in [rev : Nat, tags : SUBSET Tags]
    BY <1>1, <1>5, <2>1 DEF ReplaceVocabulary
  <2>. QED  BY <1>1, <1>5, <2>2, SettingInv DEF ReplaceVocabulary, library, requests
<1>6. CASE ChangeRole
  BY <1>1, <1>6, AsideInv DEF ChangeRole, library, requests
<1>7. src.key + 1 \in Nat
  BY <1>1 DEF Sources
<1>. QED  BY <1>2, <1>3, <1>4, <1>5, <1>6, <1>7 DEF Settings

(* A step of the lookup alone. *)
LEMMA LookupStepInv ==
  ASSUME EvidenceIInv, NEW new \in LookupStates, LookupStep(new),
         Carries(new, src, vocabulary.tags, revision)
  PROVE  EvidenceIInv'
BY QuietInv DEF LookupStep, EvidenceIInv, Typed, ModelNamed, library, settings, evidence, requests

(* A lookup that goes from track to track carries the same. *)
LEMMA SameCarried ==
  ASSUME EvidenceIInv, NEW new, lookup.pc \in Loaded, new.pc \in Loaded,
         new.src = lookup.src, new.rev = lookup.rev, new.voc = lookup.voc,
         new.pc = "tags" => LastFm
  PROVE  Carries(new, src, vocabulary.tags, revision)
<1>1. lookup.pc \notin {"idle", "lease"} /\ new.pc \notin {"idle", "lease"}
  BY DEF Loaded
<1>. QED  BY <1>1 DEF EvidenceIInv, Carried, Carries, LastFm

LEMMA NextTrackTyped ==
  ASSUME lookup \in LookupStates
  PROVE  /\ NextTrack \in LookupStates /\ NextTrack.pc = "track"
         /\ NextTrack.src = lookup.src /\ NextTrack.rev = lookup.rev
         /\ NextTrack.voc = lookup.voc
BY DEF NextTrack, LookupStates, LookupSteps

LEMMA NextTrackCarried ==
  ASSUME EvidenceIInv, lookup.pc \in Loaded
  PROVE  NextTrack \in LookupStates /\ Carries(NextTrack, src, vocabulary.tags, revision)
<1>1. lookup \in LookupStates
  BY DEF EvidenceIInv, Typed
<1>2. "track" \in Loaded
  BY DEF Loaded
<1>. QED  BY <1>1, <1>2, NextTrackTyped, SameCarried

(* The lookup up to its writes. *)
LEMMA LookupReadsInv ==
  ASSUME EvidenceIInv, \/ \E force \in BOOLEAN : StartLookup(force)
               \/ LookupSources \/ LookupSnapshot \/ LookupTrack \/ LookupAnswer
               \/ EndLookup
  PROVE  EvidenceIInv'
<1>1. /\ lookup \in LookupStates /\ revision \in Nat /\ src \in Sources
      /\ vocabulary.tags \in SUBSET Tags /\ lookup.rev \in Nat
      /\ index \in [Tracks -> [meta : Nat, file : Nat]]
  BY DEF EvidenceIInv, Typed, LookupStates
<1>2. NoLookup \in LookupStates /\ Carries(NoLookup, src, vocabulary.tags, revision)
  BY <1>1, NoLookupTyped, NoneCarried
<1>3. ASSUME NEW force \in BOOLEAN, StartLookup(force) PROVE EvidenceIInv'
  <2> DEFINE new == [NoLookup EXCEPT !.pc = "lease", !.todo = Tracks, !.tracks = index,
                                     !.force = force]
  <2>1. new \in LookupStates /\ new.pc = "lease" /\ new.rev = 0
    BY <1>1, NoLookupTyped DEF LookupStates, LookupSteps
  <2>2. lookup' = new
    BY <1>3 DEF StartLookup
  <2>. HIDE DEF new
  <2>3. Carries(new, src, vocabulary.tags, revision)
    BY <1>1, <2>1 DEF Carries, Loaded
  <2>4. /\ UNCHANGED <<src, vocabulary, revision, enrichments, analyses, reviews>>
        /\ index' = index /\ tagger' = tagger
    BY <1>3 DEF StartLookup, library, settings, evidence, requests
  <2>5. tagger'.pc = "answer" => tagger'.sig.voc = tagger'.voc
    BY <2>4 DEF EvidenceIInv, ModelNamed
  <2>. QED  BY <1>1, <2>1, <2>2, <2>3, <2>4, <2>5, QuietInv
<1>4. CASE LookupSources
  <2> DEFINE new == [lookup EXCEPT !.pc = "revision", !.src = src]
  <2>1. /\ new \in LookupStates /\ new.pc = "revision" /\ new.src = src
        /\ new.rev = lookup.rev
    BY <1>1 DEF LookupStates, LookupSteps
  <2>2. LookupStep(new) \/ LookupStep(NoLookup)
    BY <1>4 DEF LookupSources
  <2>. HIDE DEF new
  <2>3. Carries(new, src, vocabulary.tags, revision)
    BY <2>1 DEF Carries, Loaded, EvidenceIInv, Carried
  <2>. QED  BY <1>2, <2>1, <2>2, <2>3, LookupStepInv
<1>5. CASE LookupSnapshot
  <2>1. CASE /\ lookup.pc = "revision"
             /\ LookupStep([lookup EXCEPT !.pc = "vocabulary", !.rev = revision])
    <3> DEFINE new == [lookup EXCEPT !.pc = "vocabulary", !.rev = revision]
    <3>1. /\ new \in LookupStates /\ new.pc = "vocabulary" /\ new.rev = revision
          /\ new.src = lookup.src
      BY <1>1 DEF LookupStates, LookupSteps
    <3>2. LookupStep(new)
      BY <2>1
    <3>. HIDE DEF new
    <3>3. lookup.src = src
      BY <2>1 DEF EvidenceIInv, Carried, Carries
    <3>4. Carries(new, src, vocabulary.tags, revision)
      BY <1>1, <3>1, <3>3 DEF Carries, Loaded
    <3>. QED  BY <3>1, <3>2, <3>4, LookupStepInv
  <2>2. CASE /\ lookup.pc = "vocabulary"
             /\ LookupStep([lookup EXCEPT !.pc = "track",
                                          !.voc = IF LastFm THEN vocabulary.tags ELSE {}])
    <3> DEFINE v == IF LastFm THEN vocabulary.tags ELSE {}
               new == [lookup EXCEPT !.pc = "track", !.voc = v]
    <3>1. v \in SUBSET Tags
      BY <1>1
    <3>2. /\ new \in LookupStates /\ new.pc = "track" /\ new.voc = v
          /\ new.src = lookup.src /\ new.rev = lookup.rev
      BY <1>1, <3>1 DEF LookupStates, LookupSteps
    <3>3. LookupStep(new)
      BY <2>2
    <3>. HIDE DEF new
    <3>4. lookup.src = src /\ lookup.rev <= revision
      BY <2>2 DEF EvidenceIInv, Carried, Carries
    <3>5. Carries(new, src, vocabulary.tags, revision)
      BY <3>2, <3>4 DEF Carries, LastFm
    <3>. QED  BY <3>2, <3>3, <3>5, LookupStepInv
  <2>. QED  BY <1>5, <2>1, <2>2 DEF LookupSnapshot
<1>6. CASE LookupTrack
  <2> DEFINE new == [lookup EXCEPT !.pc = "query"]
  <2>1. lookup.pc \in Loaded /\ "query" \in Loaded
    BY <1>6 DEF LookupTrack, Loaded
  <2>2. /\ new \in LookupStates /\ new.pc = "query" /\ new.src = lookup.src
        /\ new.rev = lookup.rev /\ new.voc = lookup.voc
    BY <1>1 DEF LookupStates, LookupSteps
  <2>3. LookupStep(NoLookup) \/ LookupStep(NextTrack) \/ LookupStep(new)
    BY <1>6 DEF LookupTrack
  <2>. HIDE DEF new
  <2>4. Carries(new, src, vocabulary.tags, revision)
    BY <2>1, <2>2, SameCarried
  <2>. QED  BY <1>2, <2>1, <2>2, <2>3, <2>4, NextTrackCarried, LookupStepInv
<1>7. CASE LookupAnswer
  <2>1. lookup.pc \in Loaded /\ "enrichment" \in Loaded /\ "tags" \in Loaded
    BY <1>7 DEF LookupAnswer, Loaded
  <2>2. CASE LookupStep(NextTrack)
    BY <2>1, <2>2, NextTrackCarried, LookupStepInv
  <2>3. ASSUME NEW f \in BOOLEAN, NEW p \in BOOLEAN,
               LookupStep([lookup EXCEPT !.pc = "enrichment", !.found = f, !.partial = p])
        PROVE  EvidenceIInv'
    <3> DEFINE new == [lookup EXCEPT !.pc = "enrichment", !.found = f, !.partial = p]
    <3>1. /\ new \in LookupStates /\ new.pc = "enrichment" /\ new.src = lookup.src
          /\ new.rev = lookup.rev /\ new.voc = lookup.voc
      BY <1>1 DEF LookupStates, LookupSteps
    <3>2. LookupStep(new)
      BY <2>3
    <3>. HIDE DEF new
    <3>. QED  BY <2>1, <3>1, <3>2, SameCarried, LookupStepInv
  <2>4. ASSUME NEW p \in BOOLEAN, NEW moods \in SUBSET lookup.voc, LastFm,
               LookupStep([lookup EXCEPT !.pc = "tags", !.found = TRUE, !.partial = p,
                                         !.moods = moods])
        PROVE  EvidenceIInv'
    <3> DEFINE new == [lookup EXCEPT !.pc = "tags", !.found = TRUE, !.partial = p,
                                     !.moods = moods]
    <3>1. moods \in SUBSET Tags
      BY <1>1 DEF LookupStates
    <3>2. /\ new \in LookupStates /\ new.pc = "tags" /\ new.src = lookup.src
          /\ new.rev = lookup.rev /\ new.voc = lookup.voc
      BY <1>1, <3>1 DEF LookupStates, LookupSteps
    <3>3. LookupStep(new)
      BY <2>4
    <3>. HIDE DEF new
    <3>. QED  BY <2>1, <2>4, <3>2, <3>3, SameCarried, LookupStepInv
  <2>. QED  BY <1>7, <2>2, <2>3, <2>4 DEF LookupAnswer
<1>8. CASE EndLookup
  BY <1>2, <1>8, LookupStepInv DEF EndLookup
<1>. QED  BY <1>3, <1>4, <1>5, <1>6, <1>7, <1>8

(* The writes of the lookup: what is stored was made with the sources and  *)
(* the vocabulary of the revision that the transaction compares.           *)
LEMMA StoreCatalogTagsInv ==
  ASSUME EvidenceIInv, StoreCatalogTags
  PROVE  EvidenceIInv'
<1> DEFINE q == [lookup EXCEPT !.pc = "enrichment"]
           p == [lookup EXCEPT !.pc = "enrichment", !.partial = TRUE]
<1>1. /\ lookup \in LookupStates /\ revision \in Nat /\ lookup.pc = "tags"
      /\ index \in [Tracks -> [meta : Nat, file : Nat]]
  BY DEF EvidenceIInv, Typed, StoreCatalogTags
<1>2. /\ q \in LookupStates /\ q.pc = "enrichment" /\ q.src = lookup.src
      /\ q.rev = lookup.rev /\ q.voc = lookup.voc
  BY <1>1 DEF LookupStates, LookupSteps
<1>3. /\ p \in LookupStates /\ p.pc = "enrichment" /\ p.src = lookup.src
      /\ p.rev = lookup.rev /\ p.voc = lookup.voc
  BY <1>1 DEF LookupStates, LookupSteps
<1>4. lookup' = q \/ lookup' = p
  BY DEF StoreCatalogTags
<1>. HIDE DEF q, p
<1>5. /\ lookup' \in LookupStates
      /\ Carries(lookup', src, vocabulary.tags, revision)
  <2>1. lookup.pc \in Loaded /\ "enrichment" \in Loaded
    BY <1>1 DEF Loaded
  <2>. QED  BY <1>2, <1>3, <1>4, <2>1, SameCarried
<1>6. UNCHANGED <<index, src, vocabulary, revision, enrichments, reviews, tagger>>
  BY DEF StoreCatalogTags, library, settings, requests
<1>7. Typed' /\ Carried'
  BY <1>5, <1>6 DEF EvidenceIInv, Typed, Carried
<1>8. ASSUME NEW x \in analyses', x \notin analyses
      PROVE  /\ x.a = "catalog" /\ x.sig.rev = revision
             /\ x.made.src = src /\ x.made.voc = vocabulary.tags
  <2>1. CatalogAnalysisFits(Track)
    BY <1>8 DEF StoreCatalogTags
  <2>2. x = [t |-> Track, a |-> "catalog", moods |-> lookup.moods,
             sig |-> catalog_tag_source_signature(lookup.tracks[Track], lookup.rev),
             made |-> [src |-> lookup.src, voc |-> lookup.voc,
                       file |-> lookup.tracks[Track].file]]
    BY <1>8, <2>1 DEF StoreCatalogTags, StoreAnalysis
  <2>3. /\ x.a = "catalog" /\ x.made.src = lookup.src /\ x.made.voc = lookup.voc
        /\ x.sig.rev = lookup.rev
    BY <2>2 DEF catalog_tag_source_signature
  <2>4. lookup.rev = revision
    BY <2>1 DEF CatalogAnalysisFits
  <2>5. lookup.src = src /\ lookup.voc = vocabulary.tags
    BY <1>1, <2>4 DEF EvidenceIInv, Carried, Carries, Loaded
  <2>. QED  BY <2>3, <2>4, <2>5
<1>9. ModelNamed' /\ EvidenceIsCurrent'
  BY <1>6, <1>8
  DEF EvidenceIInv, ModelNamed, EvidenceIsCurrent, EvidenceRevision, EvidenceMatchesSettings
<1>. QED  BY <1>7, <1>9 DEF EvidenceIInv

LEMMA StoreEnrichmentInv ==
  ASSUME EvidenceIInv, StoreEnrichment
  PROVE  EvidenceIInv'
<1>1. /\ lookup \in LookupStates /\ revision \in Nat /\ lookup.pc = "enrichment"
      /\ lookup' = NextTrack \/ lookup' = NoLookup
      /\ UNCHANGED <<index, src, vocabulary, revision, analyses, reviews, tagger>>
  BY DEF EvidenceIInv, Typed, StoreEnrichment, library, settings, requests
<1>2. lookup' \in LookupStates /\ Carries(lookup', src, vocabulary.tags, revision)
  <2>1. lookup.pc \in Loaded
    BY <1>1 DEF Loaded
  <2>. QED  BY <1>1, <2>1, NextTrackCarried, NoLookupTyped, NoneCarried
<1>3. Typed' /\ Carried'
  BY <1>1, <1>2 DEF EvidenceIInv, Typed, Carried
<1>4. ASSUME NEW e \in enrichments', e \notin enrichments
      PROVE  e.rev = revision /\ e.made.src = src
  <2>1. EnrichmentFits(Track)
    BY <1>4 DEF StoreEnrichment
  <2>2. e = [t |-> Track, rev |-> lookup.rev, found |-> lookup.found,
             stamp |-> bounds.lookups,
             sig |-> cleanup_enrichment_source_signature(lookup.tracks[Track]),
             lastfm |-> LastFm, made |-> [src |-> lookup.src, voc |-> lookup.voc]]
    BY <1>4 DEF StoreEnrichment
  <2>3. e.rev = lookup.rev /\ e.made.src = lookup.src
    BY <2>2
  <2>4. lookup.rev = revision /\ lookup.src = src
    BY <1>1, <2>1 DEF EnrichmentFits, EvidenceIInv, Carried, Carries
  <2>. QED  BY <2>3, <2>4
<1>5. ModelNamed' /\ EvidenceIsCurrent'
  BY <1>1, <1>4
  DEF EvidenceIInv, ModelNamed, EvidenceIsCurrent, EvidenceRevision, EvidenceMatchesSettings
<1>. QED  BY <1>3, <1>5 DEF EvidenceIInv

(* A model run reads, and stores in a later step. *)
LEMMA ModelInv ==
  ASSUME EvidenceIInv, Model
  PROVE  EvidenceIInv'
<1>1. index \in [Tracks -> [meta : Nat, file : Nat]] /\ lookup \in LookupStates
  BY DEF EvidenceIInv, Typed
<1>2. ASSUME NEW t \in Tracks, TaggerReads(t) PROVE EvidenceIInv'
  <2>1. tagger'.sig.voc = tagger'.voc
    BY <1>2 DEF TaggerReads, model_tag_source_signature
  <2>. QED  BY <1>1, <1>2, <2>1, QuietInv
            DEF TaggerReads, library, settings, evidence, EvidenceIInv, Carried
<1>3. ASSUME NEW t \in Tracks, StoreContext(t) PROVE EvidenceIInv'
  BY <1>1, <1>3, AsideInv DEF StoreContext, settings, requests
<1>4. CASE TaggerStores
  <2>1. /\ tagger.pc = "answer" /\ tagger' = NoTagger
        /\ UNCHANGED <<index, src, vocabulary, revision, enrichments, reviews, lookup>>
    BY <1>4 DEF TaggerStores, library, settings
  <2>2. ASSUME NEW x \in analyses', x \notin analyses
        PROVE  x.a # "catalog" /\ x.made.voc = x.sig.voc
    <3>1. PICK moods \in SUBSET tagger.voc :
             x = [t |-> tagger.t, a |-> "model", moods |-> moods, sig |-> tagger.sig,
                  made |-> [src |-> NoSources, voc |-> tagger.voc,
                            file |-> tagger.sig.ctx]]
      BY <1>4, <2>2 DEF TaggerStores, StoreAnalysis
    <3>2. x.a = "model" /\ x.made.voc = tagger.voc /\ x.sig = tagger.sig
      BY <3>1
    <3>3. tagger.sig.voc = tagger.voc
      BY <2>1 DEF EvidenceIInv, ModelNamed
    <3>. QED  BY <3>2, <3>3
  <2>3. Typed' /\ Carried'
    BY <2>1 DEF EvidenceIInv, Typed, Carried
  <2>4. ModelNamed' /\ EvidenceIsCurrent'
    BY <2>1, <2>2
    DEF EvidenceIInv, ModelNamed, EvidenceIsCurrent, EvidenceRevision, EvidenceMatchesSettings,
        NoTagger
  <2>. QED  BY <2>3, <2>4 DEF EvidenceIInv
<1>. QED  BY <1>2, <1>3, <1>4 DEF Model

(* What a review decides on, it decides on a profile that is current. *)
LEMMA ReviewedIsCurrent ==
  ASSUME EvidenceIInv, NEW target, Reviewable(target)
  PROVE  \E x \in analyses :
            /\ x.t = target.t /\ target.tag \in x.moods /\ x.a = target.a
            /\ x.sig = target.sig /\ x.sig.meta = index[x.t].meta
            /\ x.made.voc = vocabulary.tags
            /\ x.a = "catalog" => x.made.src = src /\ x.sig.rev = revision
            /\ x.a # "catalog" => x.sig.role = role
<1>1. PICK x \in analyses :
         /\ x.t = target.t /\ x.a = target.a /\ x.sig = target.sig
         /\ target.tag \in x.moods
         /\ IF x.a = "catalog"
            THEN x.sig = catalog_tag_source_signature(index[x.t], revision)
            ELSE /\ review.guard = [role |-> role, voc |-> vocabulary.tags]
                 /\ target.tag \in vocabulary.tags
                 /\ x.sig = model_tag_source_signature(x.t, role, vocabulary.tags)
  BY DEF Reviewable
<1>2. CASE x.a = "catalog"
  <2>1. x.sig.meta = index[x.t].meta /\ x.sig.rev = revision
    BY <1>1, <1>2 DEF catalog_tag_source_signature
  <2>2. x.made.src = src /\ x.made.voc = vocabulary.tags
    BY <1>2 DEF EvidenceIInv, EvidenceIsCurrent, EvidenceMatchesSettings
  <2>. QED  BY <1>1, <1>2, <2>1, <2>2
<1>3. CASE x.a # "catalog"
  <2>1. /\ x.sig.meta = index[x.t].meta /\ x.sig.role = role
        /\ x.sig.voc = vocabulary.tags
    BY <1>1, <1>3 DEF model_tag_source_signature
  <2>2. x.made.voc = x.sig.voc
    BY <1>3 DEF EvidenceIInv, ModelNamed
  <2>. QED  BY <1>1, <1>3, <2>1, <2>2
<1>. QED  BY <1>2, <1>3

LEMMA CommitReviewInv ==
  ASSUME EvidenceIInv, CommitReview
  PROVE  EvidenceIInv'
<1>1. UNCHANGED <<index, src, vocabulary, revision, enrichments, analyses, lookup, tagger>>
  BY DEF CommitReview, library, settings, evidence
<1>2. ASSUME NEW r \in reviews', r \notin reviews, r.a = "catalog"
      PROVE  r.sig.rev = revision
  <2>1. PICK x \in review.targets :
           /\ Reviewable(x)
           /\ r = [t |-> x.t, a |-> x.a, tag |-> x.tag, sig |-> x.sig,
                   decision |-> review.decision]
    BY <1>2 DEF CommitReview
  <2>2. r.a = x.a /\ r.sig = x.sig
    BY <2>1
  <2>. QED  BY <1>2, <2>1, <2>2, ReviewedIsCurrent
<1>3. Typed' /\ Carried' /\ ModelNamed'
  BY <1>1 DEF EvidenceIInv, Typed, Carried, ModelNamed
<1>4. EvidenceIsCurrent'
  BY <1>1, <1>2 DEF EvidenceIInv, EvidenceIsCurrent, EvidenceRevision, EvidenceMatchesSettings
<1>. QED  BY <1>3, <1>4 DEF EvidenceIInv

LEMMA EvidenceNextInv == EvidenceIInv /\ [Next]_vars => EvidenceIInv'
<1> SUFFICES ASSUME EvidenceIInv, [Next]_vars PROVE EvidenceIInv'
  OBVIOUS
<1>1. index \in [Tracks -> [meta : Nat, file : Nat]]
  BY DEF EvidenceIInv, Typed
<1>2. CASE Settings
  BY <1>2, SettingsInv
<1>3. CASE Lookup
  BY <1>3, LookupReadsInv, StoreCatalogTagsInv, StoreEnrichmentInv DEF Lookup
<1>4. CASE Model
  BY <1>4, ModelInv
<1>5. CASE Review
  <2>1. CASE LoadPage
    BY <1>1, <2>1, AsideInv DEF LoadPage, library, settings
  <2>2. ASSUME NEW targets, NEW decision, StartReview(targets, decision) PROVE EvidenceIInv'
    BY <1>1, <2>2, AsideInv DEF StartReview, library, settings
  <2>. QED  BY <1>5, <2>1, <2>2, CommitReviewInv DEF Review
<1>6. CASE Editing
  <2>1. ASSUME NEW t \in Tracks, Reindex(t) PROVE EvidenceIInv'
    <3>1. index' \in [Tracks -> [meta : Nat, file : Nat]]
      BY <1>1, <2>1 DEF Reindex
    <3>. QED  BY <2>1, <3>1, AsideInv DEF Reindex, settings, requests
  <2>2. ASSUME NEW t, NEW add, NEW remove, PatchTags(t, add, remove) PROVE EvidenceIInv'
    BY <1>1, <2>2, AsideInv DEF PatchTags, library, settings, requests
  <2>3. ASSUME NEW source, NEW target, RenameTag(source, target) PROVE EvidenceIInv'
    BY <1>1, <2>3, AsideInv DEF RenameTag, library, settings, requests
  <2>4. ASSUME NEW source, NEW target, PreviewCleanup(source, target) PROVE EvidenceIInv'
    BY <1>1, <2>4, AsideInv DEF PreviewCleanup, library, settings
  <2>5. CASE ApplyCleanup
    BY <1>1, <2>5, AsideInv DEF ApplyCleanup, library, settings
  <2>. QED  BY <1>6, <2>1, <2>2, <2>3, <2>4, <2>5 DEF Editing
<1>7. CASE UNCHANGED vars
  BY <1>1, <1>7, AsideInv DEF vars, evidence
<1>. QED  BY <1>2, <1>3, <1>4, <1>5, <1>6, <1>7 DEF Next

(***************************************************************************)
(* Stored catalog evidence is of the revision, the sources, the credential *)
(* and the vocabulary in force, for every library and every vocabulary,    *)
(* however late a lookup writes and whatever was changed meanwhile.        *)
(***************************************************************************)
THEOREM EvidenceCorrect == Spec => []EvidenceIsCurrent
<1>1. EvidenceIInv => EvidenceIsCurrent
  BY DEF EvidenceIInv
<1>. QED  BY <1>1, EvidenceInitInv, EvidenceNextInv, PTL DEF Spec

(* Only the commit of a review ends one. *)
LEMMA ReviewEnds ==
  ASSUME [Next]_vars, review.pc = "commit", review' = NoReview
  PROVE  CommitReview
<1>1. NoReview.pc = "idle"
  BY DEF NoReview
<1>2. review' # review
  BY <1>1
<1>3. ASSUME UNCHANGED review PROVE FALSE
  BY <1>2, <1>3
<1>4. Settings => UNCHANGED review
  BY DEF Settings, SetSourceEnabled, WriteCredential, ResetCredentials, ReplaceVocabulary,
     ChangeRole, requests
<1>5. Lookup => UNCHANGED review
  BY DEF Lookup, StartLookup, LookupSources, LookupSnapshot, LookupTrack, LookupAnswer,
     StoreCatalogTags, StoreEnrichment, EndLookup, LookupStep, requests
<1>6. Model => UNCHANGED review
  BY DEF Model, TaggerStores, TaggerReads, StoreContext, requests
<1>7. Editing => UNCHANGED review
  BY DEF Editing, Reindex, PatchTags, RenameTag, PreviewCleanup, ApplyCleanup, requests
<1>8. LoadPage => UNCHANGED review
  BY DEF LoadPage
<1>9. ASSUME NEW targets, NEW decision, StartReview(targets, decision) PROVE FALSE
  BY <1>9 DEF StartReview
<1>10. UNCHANGED vars => UNCHANGED review
  BY DEF vars
<1>. QED  BY <1>3, <1>4, <1>5, <1>6, <1>7, <1>8, <1>9, <1>10 DEF Next, Review

(* The step that adds a tag to a track by a review. *)
LEMMA AcceptedStep ==
  ASSUME EvidenceIInv, [Next]_vars, NEW t \in Tracks, NEW tag \in Tags,
         review.pc = "commit", review' = NoReview, tag \in manual'[t] \ manual[t]
  PROVE  \E x \in analyses :
            /\ x.t = t /\ tag \in x.moods /\ x.sig.meta = index[t].meta
            /\ x.made.voc = vocabulary.tags
            /\ IF x.a = "catalog" THEN x.made.src = src ELSE x.sig.role = role
<1>1. CommitReview
  BY ReviewEnds
<1>2. PICK y \in review.targets : Reviewable(y) /\ y.t = t /\ y.tag = tag
  BY <1>1 DEF CommitReview
<1>. QED  BY <1>2, ReviewedIsCurrent

(***************************************************************************)
(* A review adds a tag to a track only from a profile that was made under  *)
(* the vocabulary, the sources and the model in force when it commits.     *)
(***************************************************************************)
THEOREM AcceptanceCorrect == Spec => AcceptedIsCurrent
<1>1. EvidenceIInv /\ [Next]_vars =>
         [\A t \in Tracks, tag \in Tags :
            (review.pc = "commit" /\ review' = NoReview /\ tag \in manual'[t] \ manual[t]) =>
               \E x \in analyses :
                  /\ x.t = t /\ tag \in x.moods /\ x.sig.meta = index[t].meta
                  /\ x.made.voc = vocabulary.tags
                  /\ IF x.a = "catalog" THEN x.made.src = src ELSE x.sig.role = role]_vars
  BY AcceptedStep
<1>. QED  BY <1>1, EvidenceInitInv, EvidenceNextInv, PTL DEF Spec, AcceptedIsCurrent

-----------------------------------------------------------------------------
(***************************************************************************)
(* The gates of the model roles. ExactlyTested speaks of what is stored;   *)
(* inductive is that what a request has read and is about to store has     *)
(* passed as well, for the configuration it names (OpOk). Fingerprints are *)
(* compared when a result is stored, which is why a result that was        *)
(* overtaken is not kept. That a job keeps what it prepared is a second    *)
(* invariant (JobOk) over the rows of jobs that the requests look at       *)
(* before they write.                                                      *)
(***************************************************************************)

RowFields == {"exists", "url", "cred", "status"}
RoleFields == {"exists", "conn", "model", "enabled", "status", "fp"}
JobFields == {"pc", "kind", "fp", "rec", "seen"}
OpFields == {"kind", "pc", "k", "r", "m", "enabled", "rec", "next", "cur", "fp"}

(* A gate that shows as passed has passed, for what it names. *)
ConnOk(k) ==
  DOMAIN conn[k] = RowFields /\ (conn[k].status = "verified" => <<"access", ConnFp(k, conn[k])>> \in passed)
RoleOk(r) ==
  /\ DOMAIN roleRole[r] = RoleFields /\ roleRole[r].conn \in RoleConnections
  /\ roleRole[r].status = "passed" => <<"test", r, roleRole[r].fp>> \in passed
EvalOk(r) ==
  /\ eval[r] = [status |-> eval[r].status, fp |-> eval[r].fp]
  /\ eval[r].status = "passed" => <<"quality", r, eval[r].fp>> \in passed

(* What a request has read, and is about to write. *)
OpOk(o) ==
  /\ DOMAIN o = OpFields /\ o.k \in RoleConnections
  /\ o.kind = "edit" => /\ DOMAIN o.next = RowFields /\ o.next.exists
                        /\ o.next.status = "verified" => <<"access", ConnFp(o.k, o.next)>> \in passed
  /\ o.kind \in {"test", "configure"} \/ o.pc = "enqueue" => o.r \in Roles
  /\ o.pc = "enqueue" => o.kind \in RoleKinds
  /\ o.kind = "configure" /\ o.pc = "save" =>
       /\ DOMAIN o.cur = RoleFields /\ o.cur.conn \in RoleConnections /\ o.cur.exists
       /\ o.cur.status = "passed" => <<"test", o.r, o.cur.fp>> \in passed

ConnsOk == DOMAIN conn = RoleConnections /\ \A k \in RoleConnections : ConnOk(k)
RolesOk ==
  /\ DOMAIN roleRole = Roles /\ DOMAIN eval = Roles
  /\ \A r \in Roles : RoleOk(r) /\ EvalOk(r)
  /\ OneMoodModel
OpsOk == DOMAIN roleOp = RoleClients /\ \A c \in RoleClients : OpOk(roleOp[c])
JobsShaped == DOMAIN roleJob = Roles /\ \A r \in Roles : DOMAIN roleJob[r] = JobFields
GatesIInv == ConnsOk /\ RolesOk /\ OpsOk /\ JobsShaped

(* A job that has read its role still has it, and one that runs is still   *)
(* what it was prepared for, if the requests that would change it know it. *)
JobOk(r) ==
  Known(r) =>
    /\ roleJob[r].pc \in {"prepare", "run"} => roleRole[r] = roleJob[r].rec
    /\ roleJob[r].pc = "run" =>
         /\ roleRole[r].exists /\ roleRole[r].enabled /\ conn[roleRole[r].conn].exists
         /\ Runtime(conn[roleRole[r].conn], roleRole[r]) = roleJob[r].fp
    /\ roleJob[r].pc = "run" /\ roleJob[r].kind = "live" => eval[r] = [status |-> "passed", fp |-> roleJob[r].fp]
JobsIInv == \A r \in Roles : JobOk(r)

-----------------------------------------------------------------------------
(* What a step leaves alone *)
LEMMA FirstConnection == First \in RoleConnections
BY ModelRolesAssumption DEF First

(* A client at rest has read nothing. *)
LEMMA IdleOp == OpOk(RoleIdle) /\ OpOk(RoleIdle)'
BY FirstConnection DEF OpOk, RoleIdle, OpFields

(* A connection stays proven while gates are only added. *)
LEMMA ConnsKept == ASSUME ConnsOk, UNCHANGED conn, passed \subseteq passed' PROVE ConnsOk'
BY DEF ConnsOk, ConnOk

(* A role and its evaluation stay proven while gates are only added. *)
LEMMA RolesKept == ASSUME RolesOk, UNCHANGED <<roleRole, eval>>, passed \subseteq passed' PROVE RolesOk'
BY DEF RolesOk, RoleOk, EvalOk, OneMoodModel, SameRuntime

(* One request moves on, the others hold what they have read. *)
LEMMA OpsAfter ==
  ASSUME OpsOk, passed \subseteq passed', NEW c \in RoleClients, NEW o, OpOk(o)', roleOp' = [roleOp EXCEPT ![c] = o]
  PROVE  OpsOk'
<1>1. ASSUME NEW d \in RoleClients PROVE OpOk(roleOp[d])'
  <2>1. CASE d = c
    BY <2>1 DEF OpsOk
  <2>2. CASE d # c
    <3>1. roleOp'[d] = roleOp[d] /\ OpOk(roleOp[d])
      BY <2>2 DEF OpsOk
    <3>2. QED
      BY <3>1 DEF OpOk
  <2>3. QED
    BY <2>1, <2>2
<1>2. QED
  BY <1>1 DEF OpsOk

(* Every request holds what it has read. *)
LEMMA OpsKept == ASSUME OpsOk, UNCHANGED roleOp, passed \subseteq passed' PROVE OpsOk'
BY DEF OpsOk, OpOk

(* A request ends and holds nothing. *)
LEMMA OpEnds == ASSUME OpsOk, passed \subseteq passed', NEW c \in RoleClients, RoleFinish(c) PROVE OpsOk'
BY OpsAfter, IdleOp DEF RoleFinish

(* A reset withdraws the gates of the roles of a connection, and of no other role. *)
LEMMA ResetOk ==
  ASSUME RolesOk, NEW k \in RoleConnections, ResetRoles(k), passed \subseteq passed'
  PROVE  /\ RolesOk'
         /\ \A r \in Roles \ Users(k) : roleRole'[r] = roleRole[r] /\ eval'[r] = eval[r]
<1>1. /\ DOMAIN roleRole = Roles /\ DOMAIN eval = Roles /\ OneMoodModel
      /\ \A r \in Roles : RoleOk(r) /\ EvalOk(r)
  BY DEF RolesOk
<1>2. DOMAIN roleRole' = Roles /\ DOMAIN eval' = Roles
  BY DEF ResetRoles
<1>3. ASSUME NEW r \in Roles
      PROVE  /\ RoleOk(r)' /\ EvalOk(r)' /\ roleRole'[r].exists = roleRole[r].exists
             /\ roleRole'[r].conn = roleRole[r].conn /\ roleRole'[r].model = roleRole[r].model
  <2>1. CASE r \in Users(k)
    <3>1. roleRole'[r] = [roleRole[r] EXCEPT !.status = "never", !.fp = <<>>] /\ eval'[r] = NoEval
      BY <2>1 DEF ResetRoles
    <3>2. DOMAIN roleRole[r] = RoleFields /\ roleRole[r].conn \in RoleConnections
      BY <1>1 DEF RoleOk
    <3>3. /\ DOMAIN roleRole'[r] = RoleFields /\ roleRole'[r].status = "never" /\ roleRole'[r].conn = roleRole[r].conn
          /\ roleRole'[r].exists = roleRole[r].exists /\ roleRole'[r].model = roleRole[r].model
      BY <3>1, <3>2 DEF RoleFields
    <3>4. EvalOk(r)'
      BY <3>1 DEF EvalOk, NoEval
    <3>5. QED
      BY <3>2, <3>3, <3>4 DEF RoleOk
  <2>2. CASE r \notin Users(k)
    <3>1. roleRole'[r] = roleRole[r] /\ eval'[r] = eval[r]
      BY <2>2 DEF ResetRoles
    <3>2. QED
      BY <1>1, <3>1 DEF RoleOk, EvalOk
  <2>3. QED
    BY <2>1, <2>2
<1>4. OneMoodModel'
  BY <1>1, <1>3 DEF OneMoodModel, SameRuntime
<1>5. QED
  BY <1>2, <1>3, <1>4 DEF RolesOk, ResetRoles

(* A request that only reads. *)
LEMMA AskOnly ==
  ASSUME GatesIInv, NEW c \in RoleClients, NEW o, OpOk(o), roleOp' = [roleOp EXCEPT ![c] = o],
         UNCHANGED <<roleStored, roleJob, roleHistory>>
  PROVE  GatesIInv'
<1>1. UNCHANGED <<conn, roleRole, eval, roleJob, passed>>
  BY DEF roleStored, roleHistory
<1>2. OpOk(o)'
  BY <1>1 DEF OpOk
<1>3. QED
  BY <1>1, <1>2, ConnsKept, RolesKept, OpsAfter DEF GatesIInv, JobsShaped

-----------------------------------------------------------------------------
(* Connections *)
LEMMA CreateGates == ASSUME GatesIInv, NEW c \in RoleClients, RoleCreate(c) PROVE GatesIInv'
<1>1. PICK k \in RoleConnections, u \in Urls :
        /\ RoleAsk(c, "create", RoleIdle)
        /\ conn' = [conn EXCEPT ![k] = [NoConn EXCEPT !.exists = TRUE, !.url = u, !.cred = keys + 1]]
  BY DEF RoleCreate
<1>2. UNCHANGED <<roleRole, eval, roleJob, passed>>
  BY DEF RoleCreate
<1> DEFINE n == [NoConn EXCEPT !.exists = TRUE, !.url = u, !.cred = keys + 1]
<1>3. DOMAIN n = RowFields /\ n.status = "never"
  BY DEF NoConn, RowFields
<1> HIDE DEF n
<1>4. ConnsOk'
  BY <1>1, <1>2, <1>3 DEF GatesIInv, ConnsOk, ConnOk, n
<1>5. OpsOk'
  BY <1>1, <1>2, OpsAfter, IdleOp DEF GatesIInv, RoleAsk
<1>6. QED
  BY <1>2, <1>4, <1>5, RolesKept DEF GatesIInv, JobsShaped

(* The edit of a connection keeps its verification only for the same endpoint and *)
(* credential.                                                                    *)
LEMMA EditGates == ASSUME GatesIInv, NEW c \in RoleClients, RoleEdit(c) PROVE GatesIInv'
<1>1. PICK k \in RoleConnections, u \in Urls, add \in BOOLEAN :
       LET new == [conn[k] EXCEPT !.url = u, !.cred = IF add THEN keys + 1 ELSE @]
           moved == ConnFp(k, new) # ConnFp(k, conn[k])
       IN  /\ conn[k].exists
           /\ RoleAsk(c, "edit", [RoleIdle EXCEPT !.kind = "edit", !.pc = "write", !.k = k, !.rec = conn[k],
                 !.next = IF moved THEN [new EXCEPT !.status = "never"] ELSE new])
  BY DEF RoleEdit
<1> DEFINE new == [conn[k] EXCEPT !.url = u, !.cred = IF add THEN keys + 1 ELSE @]
           moved == ConnFp(k, new) # ConnFp(k, conn[k])
           n == IF moved THEN [new EXCEPT !.status = "never"] ELSE new
           o == [RoleIdle EXCEPT !.kind = "edit", !.pc = "write", !.k = k, !.rec = conn[k], !.next = n]
<1>2. conn[k].exists /\ roleOp' = [roleOp EXCEPT ![c] = o] /\ UNCHANGED <<roleStored, roleJob, roleHistory>>
  BY <1>1 DEF RoleAsk, RoleEdit
<1>3. DOMAIN conn[k] = RowFields /\ (conn[k].status = "verified" => <<"access", ConnFp(k, conn[k])>> \in passed)
  BY DEF GatesIInv, ConnsOk, ConnOk
<1>4. DOMAIN new = RowFields /\ new.exists = conn[k].exists /\ new.status = conn[k].status
  BY <1>3 DEF RowFields
<1> HIDE DEF new
<1>5. DOMAIN n = RowFields /\ n.exists = conn[k].exists
  BY <1>4 DEF RowFields
<1>6. n.status = "verified" => ~moved /\ n = new
  BY <1>4 DEF RowFields
<1>7. n.status = "verified" => <<"access", ConnFp(k, n)>> \in passed
  BY <1>3, <1>4, <1>6
<1> HIDE DEF n
<1>8. DOMAIN o = OpFields /\ o.k = k /\ o.kind = "edit" /\ o.pc = "write" /\ o.next = n
  BY DEF RoleIdle, OpFields
<1> HIDE DEF o
<1>9. OpOk(o)
  BY <1>2, <1>5, <1>7, <1>8 DEF OpOk
<1>10. QED
  BY <1>2, <1>9, AskOnly

(* The connection that is written is the one the edit has read. *)
LEMMA ReplaceGates == ASSUME GatesIInv, NEW c \in RoleClients, Replace(c) PROVE GatesIInv'
<1> DEFINE o == roleOp[c]
           k == o.k
<1>1. OpOk(o) /\ o.kind = "edit" /\ k \in RoleConnections /\ RoleFinish(c) /\ UNCHANGED roleJob
  BY DEF GatesIInv, OpsOk, OpOk, Replace
<1>2. CASE UNCHANGED <<roleStored, roleHistory>>
  BY <1>1, <1>2, ConnsKept, RolesKept, OpEnds DEF GatesIInv, JobsShaped, roleStored, roleHistory
<1>3. CASE /\ conn' = [conn EXCEPT ![k] = o.next] /\ UNCHANGED passed
           /\ ResetRoles(k) \/ UNCHANGED <<roleRole, eval>>
  <2>1. DOMAIN o.next = RowFields /\ (o.next.status = "verified" => <<"access", ConnFp(k, o.next)>> \in passed)
    BY <1>1 DEF OpOk
  <2> HIDE DEF o, k
  <2>2. ConnsOk'
    BY <1>1, <1>3, <2>1 DEF GatesIInv, ConnsOk, ConnOk
  <2>3. RolesOk'
    BY <1>1, <1>3, ResetOk, RolesKept DEF GatesIInv
  <2>4. QED
    BY <1>1, <1>3, <2>2, <2>3, OpEnds DEF GatesIInv, JobsShaped
<1>4. QED
  BY <1>2, <1>3 DEF Replace

(* The deletion of a connection withdraws the gates of its roles. *)
LEMMA DeleteGates == ASSUME GatesIInv, NEW c \in RoleClients, RoleDelete(c) PROVE GatesIInv'
<1>1. PICK k \in RoleConnections : RoleAsk(c, "delete", RoleIdle) /\ conn' = [conn EXCEPT ![k] = NoConn]
  BY DEF RoleDelete
<1>2. UNCHANGED <<roleRole, eval, roleJob, passed>>
  BY DEF RoleDelete
<1>3. DOMAIN NoConn = RowFields /\ NoConn.status = "never"
  BY DEF NoConn, RowFields
<1>4. ConnsOk'
  BY <1>1, <1>2, <1>3 DEF GatesIInv, ConnsOk, ConnOk
<1>5. OpsOk'
  BY <1>1, <1>2, OpsAfter, IdleOp DEF GatesIInv, RoleAsk
<1>6. QED
  BY <1>2, <1>4, <1>5, RolesKept DEF GatesIInv, JobsShaped

(* The deletion of a credential withdraws the verification and the gates of the roles. *)
LEMMA ClearGates == ASSUME GatesIInv, NEW c \in RoleClients, ClearCredential(c) PROVE GatesIInv'
<1>1. PICK k \in RoleConnections : /\ RoleAsk(c, "clear", RoleIdle) /\ ResetRoles(k)
                                   /\ conn' = [conn EXCEPT ![k].cred = 0, ![k].status = "never"]
  BY DEF ClearCredential
<1>2. UNCHANGED <<roleJob, passed>>
  BY DEF ClearCredential
<1>3. DOMAIN conn = RoleConnections /\ \A z \in RoleConnections : ConnOk(z)
  BY DEF GatesIInv, ConnsOk
<1>4. DOMAIN conn' = RoleConnections /\ \A z \in RoleConnections \ {k} : conn'[z] = conn[z]
  BY <1>1, <1>3
<1>5. conn'[k] = [conn[k] EXCEPT !.cred = 0, !.status = "never"]
  BY <1>1, <1>3
<1>6. DOMAIN conn'[k] = RowFields /\ conn'[k].status = "never"
  BY <1>3, <1>5 DEF ConnOk, RowFields
<1>7. ConnsOk'
  BY <1>2, <1>3, <1>4, <1>6 DEF ConnsOk, ConnOk
<1>8. OpsOk'
  BY <1>1, <1>2, OpsAfter, IdleOp DEF GatesIInv, RoleAsk
<1>9. QED
  BY <1>1, <1>2, <1>7, <1>8, ResetOk DEF GatesIInv, JobsShaped

(* A reset after a change of the connection withdraws the gates of all its roles. *)
LEMMA ResetAllGates == ASSUME GatesIInv, NEW c \in RoleClients, ResetAll(c) PROVE GatesIInv'
<1>1. /\ RoleAsk(c, "reset", RoleIdle) /\ UNCHANGED <<roleJob, passed>>
      /\ conn' = [k \in RoleConnections |-> IF conn[k].exists
                                        THEN [conn[k] EXCEPT !.cred = 0, !.status = "never"] ELSE conn[k]]
      /\ roleRole' = [r \in Roles |-> [roleRole[r] EXCEPT !.status = "never", !.fp = <<>>]]
      /\ eval' = [r \in Roles |-> NoEval]
  BY DEF ResetAll
<1>2. /\ \A k \in RoleConnections : ConnOk(k)
      /\ \A r \in Roles : RoleOk(r)
      /\ OneMoodModel
  BY DEF GatesIInv, ConnsOk, RolesOk
<1>3. ConnsOk'
  <2>1. ASSUME NEW k \in RoleConnections PROVE ConnOk(k)'
    <3>1. CASE ~conn[k].exists
      BY <1>1, <1>2, <3>1 DEF ConnOk
    <3>2. CASE conn[k].exists
      <4>1. conn'[k] = [conn[k] EXCEPT !.cred = 0, !.status = "never"]
        BY <1>1, <3>2
      <4>2. DOMAIN conn'[k] = RowFields /\ conn'[k].status = "never"
        BY <1>2, <4>1 DEF ConnOk, RowFields
      <4>3. QED
        BY <4>2 DEF ConnOk
    <3>3. QED
      BY <3>1, <3>2
  <2>2. QED
    BY <1>1, <2>1 DEF ConnsOk
<1>4. ASSUME NEW r \in Roles
      PROVE  /\ RoleOk(r)' /\ EvalOk(r)' /\ roleRole'[r].exists = roleRole[r].exists
             /\ roleRole'[r].conn = roleRole[r].conn /\ roleRole'[r].model = roleRole[r].model
  <2>1. roleRole'[r] = [roleRole[r] EXCEPT !.status = "never", !.fp = <<>>] /\ eval'[r] = NoEval
    BY <1>1
  <2>2. DOMAIN roleRole[r] = RoleFields /\ roleRole[r].conn \in RoleConnections
    BY <1>2 DEF RoleOk
  <2>3. /\ DOMAIN roleRole'[r] = RoleFields /\ roleRole'[r].status = "never" /\ roleRole'[r].conn = roleRole[r].conn
        /\ roleRole'[r].exists = roleRole[r].exists /\ roleRole'[r].model = roleRole[r].model
    BY <2>1, <2>2 DEF RoleFields
  <2>4. EvalOk(r)'
    BY <2>1 DEF EvalOk, NoEval
  <2>5. QED
    BY <2>2, <2>3, <2>4 DEF RoleOk
<1>5. OneMoodModel'
  BY <1>2, <1>4 DEF OneMoodModel, SameRuntime
<1>6. OpsOk'
  BY <1>1, OpsAfter, IdleOp DEF GatesIInv, RoleAsk
<1>7. QED
  BY <1>1, <1>3, <1>4, <1>5, <1>6 DEF GatesIInv, RolesOk, JobsShaped

(* A verification reads the connection it asks the provider with. *)
LEMMA VerifyGates == ASSUME GatesIInv, NEW c \in RoleClients, RoleVerify(c) PROVE GatesIInv'
<1>1. PICK k \in RoleConnections :
        RoleAsk(c, "verify", [RoleIdle EXCEPT !.kind = "verify", !.pc = "call", !.k = k, !.rec = conn[k]])
  BY DEF RoleVerify
<1> DEFINE o == [RoleIdle EXCEPT !.kind = "verify", !.pc = "call", !.k = k, !.rec = conn[k]]
<1>2. roleOp' = [roleOp EXCEPT ![c] = o] /\ UNCHANGED <<roleStored, roleJob, roleHistory>>
  BY <1>1 DEF RoleAsk, RoleVerify
<1>3. OpOk(o)
  BY DEF OpOk, RoleIdle, OpFields
<1> HIDE DEF o
<1>4. QED
  BY <1>2, <1>3, AskOnly

(* A verification is stored for the connection it was made with. *)
LEMMA VerifiedGates == ASSUME GatesIInv, NEW c \in RoleClients, Verified(c) PROVE GatesIInv'
<1> DEFINE o == roleOp[c]
<1>1. o.k \in RoleConnections /\ RoleFinish(c) /\ UNCHANGED roleJob
  BY DEF GatesIInv, OpsOk, OpOk, Verified
<1>5. PICK k \in RoleConnections : k = o.k
  BY <1>1
<1>2. CASE UNCHANGED <<roleStored, roleHistory>>
  BY <1>1, <1>2, ConnsKept, RolesKept, OpEnds DEF GatesIInv, JobsShaped, roleStored, roleHistory
<1>3. ASSUME NEW s \in {"verified", "failed"}, conn' = [conn EXCEPT ![k].status = s], ResetRoles(k),
             ConnFp(k, conn[k]) = ConnFp(k, o.rec),
             passed' = IF s = "verified" THEN passed \union {<<"access", ConnFp(k, o.rec)>>} ELSE passed
      PROVE  GatesIInv'
  <2> HIDE DEF o
  <2>1. DOMAIN conn = RoleConnections /\ \A z \in RoleConnections : ConnOk(z)
    BY DEF GatesIInv, ConnsOk
  <2>2. DOMAIN conn' = RoleConnections /\ \A z \in RoleConnections \ {k} : conn'[z] = conn[z]
    BY <1>3, <2>1
  <2>3. conn'[k] = [conn[k] EXCEPT !.status = s]
    BY <1>1, <1>3, <2>1
  <2>4. DOMAIN conn'[k] = RowFields /\ conn'[k].status = s /\ ConnFp(k, conn'[k]) = ConnFp(k, conn[k])
    BY <1>1, <2>1, <2>3 DEF ConnOk, RowFields, ConnFp
  <2>5. passed \subseteq passed'
    BY <1>3
  <2>6. ConnOk(k)'
    <3>1. conn'[k].status = "verified" => <<"access", ConnFp(k, conn'[k])>> \in passed'
      BY <1>3, <2>4
    <3>2. QED
      BY <2>4, <3>1 DEF ConnOk, ConnFp
  <2>7. ConnsOk'
    BY <2>1, <2>2, <2>5, <2>6 DEF ConnsOk, ConnOk, ConnFp
  <2>8. QED
    BY <1>1, <1>3, <2>5, <2>7, ResetOk, OpEnds DEF GatesIInv, JobsShaped
<1>4. QED
  BY <1>2, <1>3, <1>5 DEF Verified

-----------------------------------------------------------------------------
(* Roles *)
LEMMA TestGates == ASSUME GatesIInv, NEW c \in RoleClients, Test(c) PROVE GatesIInv'
<1>1. PICK r \in Roles :
        RoleAsk(c, "test", [RoleIdle EXCEPT !.kind = "test", !.pc = "call", !.r = r, !.k = roleRole[r].conn,
                  !.cur = roleRole[r], !.rec = conn[roleRole[r].conn], !.fp = Runtime(conn[roleRole[r].conn], roleRole[r])])
  BY DEF Test
<1> DEFINE o == [RoleIdle EXCEPT !.kind = "test", !.pc = "call", !.r = r, !.k = roleRole[r].conn,
                  !.cur = roleRole[r], !.rec = conn[roleRole[r].conn], !.fp = Runtime(conn[roleRole[r].conn], roleRole[r])]
<1>2. roleOp' = [roleOp EXCEPT ![c] = o] /\ UNCHANGED <<roleStored, roleJob, roleHistory>>
  BY <1>1 DEF RoleAsk, Test
<1>3. roleRole[r].conn \in RoleConnections
  BY DEF GatesIInv, RolesOk, RoleOk
<1>4. DOMAIN o = OpFields /\ o.kind = "test" /\ o.pc = "call" /\ o.r = r /\ o.k = roleRole[r].conn
  BY DEF RoleIdle, OpFields
<1> HIDE DEF o
<1>5. OpOk(o)
  BY <1>3, <1>4 DEF OpOk
<1>6. QED
  BY <1>2, <1>5, AskOnly

(* A test is stored for the role it was made with. *)
LEMMA TestedGates == ASSUME GatesIInv, NEW c \in RoleClients, Tested(c) PROVE GatesIInv'
<1> DEFINE o == roleOp[c]
<1>1. o.r \in Roles /\ RoleFinish(c) /\ UNCHANGED roleJob
  BY DEF GatesIInv, OpsOk, OpOk, Tested
<1>2. PICK r \in Roles : r = o.r
  BY <1>1
<1>3. CASE UNCHANGED <<roleStored, roleHistory>>
  BY <1>1, <1>3, ConnsKept, RolesKept, OpEnds DEF GatesIInv, JobsShaped, roleStored, roleHistory
<1>4. ASSUME NEW s \in {"passed", "failed"}, roleRole' = [roleRole EXCEPT ![r].status = s, ![r].fp = o.fp],
             passed' = IF s = "passed" THEN passed \union {<<"test", r, o.fp>>} ELSE passed,
             UNCHANGED <<conn, eval>>
      PROVE  GatesIInv'
  <2> HIDE DEF o
  <2>1. /\ DOMAIN roleRole = Roles /\ DOMAIN eval = Roles /\ OneMoodModel
        /\ \A z \in Roles : RoleOk(z) /\ EvalOk(z)
    BY DEF GatesIInv, RolesOk
  <2>2. DOMAIN roleRole' = Roles /\ \A z \in Roles \ {r} : roleRole'[z] = roleRole[z]
    BY <1>4, <2>1
  <2>3. roleRole'[r] = [roleRole[r] EXCEPT !.status = s, !.fp = o.fp]
    BY <1>4, <2>1
  <2>4. /\ DOMAIN roleRole'[r] = RoleFields /\ roleRole'[r].status = s /\ roleRole'[r].fp = o.fp
        /\ roleRole'[r].exists = roleRole[r].exists /\ roleRole'[r].conn = roleRole[r].conn
        /\ roleRole'[r].model = roleRole[r].model /\ roleRole[r].conn \in RoleConnections
    BY <2>1, <2>3 DEF RoleOk, RoleFields
  <2>5. passed \subseteq passed'
    BY <1>4
  <2>6. roleRole'[r].status = "passed" => <<"test", r, roleRole'[r].fp>> \in passed'
    BY <1>4, <2>4
  <2>7. \A z \in Roles : RoleOk(z)' /\ EvalOk(z)'
    BY <1>4, <2>1, <2>2, <2>4, <2>5, <2>6 DEF RoleOk, EvalOk
  <2>8. OneMoodModel'
    BY <2>1, <2>2, <2>4 DEF OneMoodModel, SameRuntime
  <2>9. QED
    BY <1>1, <1>4, <2>1, <2>2, <2>5, <2>7, <2>8, ConnsKept, OpEnds DEF GatesIInv, RolesOk, JobsShaped
<1>5. QED
  BY <1>2, <1>3, <1>4 DEF Tested

(* A configuration reads the role it replaces. *)
LEMMA ConfigureGates == ASSUME GatesIInv, NEW c \in RoleClients, RoleConfigure(c) PROVE GatesIInv'
<1>1. PICK r \in Roles, k \in RoleConnections, m \in Models, e \in BOOLEAN :
        RoleAsk(c, "configure", [RoleIdle EXCEPT !.kind = "configure", !.pc = "role", !.r = r, !.k = k,
                                                   !.m = m, !.enabled = e, !.rec = conn[k]])
  BY DEF RoleConfigure
<1> DEFINE o == [RoleIdle EXCEPT !.kind = "configure", !.pc = "role", !.r = r, !.k = k, !.m = m, !.enabled = e,
                                 !.rec = conn[k]]
<1>2. roleOp' = [roleOp EXCEPT ![c] = o] /\ UNCHANGED <<roleStored, roleJob, roleHistory>>
  BY <1>1 DEF RoleAsk, RoleConfigure
<1>3. DOMAIN o = OpFields /\ o.kind = "configure" /\ o.pc = "role" /\ o.r = r /\ o.k = k
  BY DEF RoleIdle, OpFields
<1> HIDE DEF o
<1>4. OpOk(o)
  BY <1>3 DEF OpOk
<1>5. QED
  BY <1>2, <1>4, AskOnly

(* A request reads the role it acts on. *)
LEMMA ReadRoleGates == ASSUME GatesIInv, NEW c \in RoleClients, ReadRole(c) PROVE GatesIInv'
<1> DEFINE p == roleOp[c]
           cur == roleRole[p.r]
           asked == [NoRole EXCEPT !.exists = TRUE, !.conn = p.k, !.model = p.m, !.enabled = p.enabled]
           same == SameRuntime(cur, asked)
           new == IF same THEN [asked EXCEPT !.status = cur.status, !.fp = cur.fp] ELSE asked
           o == [p EXCEPT !.pc = "save", !.cur = new, !.fp = <<same>>]
<1>1. OpOk(p) /\ p.kind = "configure" /\ UNCHANGED <<roleStored, roleJob, roleHistory>> /\ DOMAIN roleOp = RoleClients
  BY DEF GatesIInv, OpsOk, ReadRole
<1>2. roleOp' = [roleOp EXCEPT ![c] = RoleIdle] \/ roleOp' = [roleOp EXCEPT ![c].pc = "save", ![c].cur = new, ![c].fp = <<same>>]
  BY DEF ReadRole
<1>3. CASE roleOp' = [roleOp EXCEPT ![c] = RoleIdle]
  BY <1>1, <1>3, AskOnly, IdleOp
<1>4. CASE roleOp' = [roleOp EXCEPT ![c].pc = "save", ![c].cur = new, ![c].fp = <<same>>]
  <2>1. p.r \in Roles /\ p.k \in RoleConnections /\ DOMAIN p = OpFields
    BY <1>1 DEF OpOk
  <2>2. DOMAIN asked = RoleFields /\ asked.exists = TRUE /\ asked.conn = p.k /\ asked.status = "never"
    BY DEF NoRole, RoleFields
  <2>3. cur.status = "passed" => <<"test", p.r, cur.fp>> \in passed
    BY <2>1 DEF GatesIInv, RolesOk, RoleOk
  <2> HIDE DEF asked, same, cur
  <2>4. DOMAIN new = RoleFields /\ new.exists /\ new.conn = p.k
    BY <2>2 DEF RoleFields
  <2>5. new.status = "passed" => <<"test", p.r, new.fp>> \in passed
    BY <2>2, <2>3 DEF RoleFields
  <2> HIDE DEF new
  <2>6. roleOp' = [roleOp EXCEPT ![c] = o]
    BY <1>1, <1>4
  <2>7. DOMAIN o = OpFields /\ o.kind = "configure" /\ o.pc = "save" /\ o.r = p.r /\ o.k = p.k /\ o.cur = new
    BY <1>1, <2>1 DEF OpFields
  <2> HIDE DEF o, p
  <2>8. OpOk(o)
    BY <2>1, <2>4, <2>5, <2>7 DEF OpOk
  <2>9. QED
    BY <1>1, <2>6, <2>8, AskOnly
<1>5. QED
  BY <1>2, <1>3, <1>4

(* The other mood role of a role is a role. *)
LEMMA Siblings == \A r \in Roles : Sibling(r) \subseteq Roles \ {r}
BY DEF Sibling, Tagger, TagCleanup

(* A role that is saved loses its test when what the test was of has changed. *)
LEMMA SaveGates == ASSUME GatesIInv, NEW c \in RoleClients, RoleSave(c) PROVE GatesIInv'
<1> DEFINE o == roleOp[c]
<1>1. /\ OpOk(o) /\ o.kind = "configure" /\ o.pc = "save" /\ RoleFinish(c) /\ UNCHANGED <<conn, roleJob, passed>>
      /\ UNCHANGED <<roleRole, eval>> \/ RoleSaved(o.r, o.cur, o.fp = <<TRUE>>)
  BY DEF GatesIInv, OpsOk, RoleSave
<1>2. ASSUME RolesOk' PROVE GatesIInv'
  BY <1>1, <1>2, ConnsKept, OpEnds DEF GatesIInv, JobsShaped
<1>3. CASE UNCHANGED <<roleRole, eval>>
  BY <1>1, <1>2, <1>3, RolesKept DEF GatesIInv
<1>4. ASSUME RoleSaved(o.r, o.cur, o.fp = <<TRUE>>) PROVE RolesOk'
  <2>1. o.r \in Roles /\ DOMAIN o.cur = RoleFields /\ o.cur.conn \in RoleConnections /\ o.cur.exists
        /\ (o.cur.status = "passed" => <<"test", o.r, o.cur.fp>> \in passed)
    BY <1>1 DEF OpOk
  <2>2. PICK r \in Roles, new \in {o.cur}, same \in {o.fp = <<TRUE>>} : r = o.r /\ new = o.cur /\ same = (o.fp = <<TRUE>>)
    BY <2>1
  <2>3. /\ DOMAIN new = RoleFields /\ new.conn \in RoleConnections /\ new.exists
        /\ new.status = "passed" => <<"test", r, new.fp>> \in passed
    BY <2>1, <2>2
  <2> DEFINE moved == {s \in Sibling(r) : ~SameRuntime(roleRole[s], new)}
             draft == [new EXCEPT !.enabled = FALSE, !.status = "never", !.fp = <<>>]
  <2>4. /\ roleRole' = [s \in Roles |-> IF s = r THEN new ELSE IF s \in moved THEN draft ELSE roleRole[s]]
        /\ eval' = [s \in Roles |-> IF (s = r /\ ~same) \/ s \in moved THEN NoEval ELSE eval[s]]
    BY <1>4, <2>2 DEF RoleSaved
  <2>5. /\ DOMAIN draft = RoleFields /\ draft.status = "never" /\ draft.conn = new.conn /\ draft.model = new.model
        /\ draft.exists = new.exists
    BY <2>3 DEF RoleFields
  <2> HIDE DEF draft
  <2>6. /\ DOMAIN roleRole = Roles /\ DOMAIN eval = Roles /\ OneMoodModel
        /\ \A z \in Roles : RoleOk(z) /\ EvalOk(z)
    BY DEF GatesIInv, RolesOk
  <2>7. ASSUME NEW z \in Roles PROVE RoleOk(z)'
    <3>1. (roleRole'[z] = new /\ z = r) \/ roleRole'[z] = draft \/ roleRole'[z] = roleRole[z]
      BY <2>4
    <3>2. CASE roleRole'[z] = new /\ z = r
      BY <1>1, <2>3, <3>2 DEF RoleOk
    <3>3. CASE roleRole'[z] = draft
      BY <2>3, <2>5, <3>3 DEF RoleOk
    <3>4. CASE roleRole'[z] = roleRole[z]
      BY <1>1, <2>6, <3>4 DEF RoleOk
    <3>5. QED
      BY <3>1, <3>2, <3>3, <3>4
  <2>8. ASSUME NEW z \in Roles PROVE EvalOk(z)'
    <3>1. eval'[z] = NoEval \/ eval'[z] = eval[z]
      BY <2>4
    <3>2. CASE eval'[z] = NoEval
      BY <3>2 DEF EvalOk, NoEval
    <3>3. CASE eval'[z] = eval[z]
      BY <1>1, <2>6, <3>3 DEF EvalOk
    <3>4. QED
      BY <3>1, <3>2, <3>3
  <2>9. ASSUME {Tagger, TagCleanup} \subseteq Roles, roleRole'[Tagger].exists, roleRole'[TagCleanup].exists
        PROVE  SameRuntime(roleRole'[Tagger], roleRole'[TagCleanup])
    <3>1. CASE r = Tagger
      <4>1. Sibling(r) = {TagCleanup} /\ TagCleanup # r
        BY <2>9, <3>1 DEF Sibling, Tagger, TagCleanup
      <4>2. /\ roleRole'[Tagger] = new
            /\ roleRole'[TagCleanup] = IF TagCleanup \in moved THEN draft ELSE roleRole[TagCleanup]
        BY <2>4, <2>9, <3>1, <4>1
      <4>9. TagCleanup \notin moved => SameRuntime(roleRole[TagCleanup], new)
        BY <4>1
      <4>3. QED
        BY <2>3, <2>5, <4>2, <4>9 DEF SameRuntime
    <3>2. CASE r = TagCleanup
      <4>1. Sibling(r) = {Tagger} /\ Tagger # r
        BY <2>9, <3>2 DEF Sibling, Tagger, TagCleanup
      <4>2. /\ roleRole'[TagCleanup] = new
            /\ roleRole'[Tagger] = IF Tagger \in moved THEN draft ELSE roleRole[Tagger]
        BY <2>4, <2>9, <3>2, <4>1
      <4>9. Tagger \notin moved => SameRuntime(roleRole[Tagger], new)
        BY <4>1
      <4>3. QED
        BY <2>3, <2>5, <4>2, <4>9 DEF SameRuntime
    <3>3. CASE r \notin {Tagger, TagCleanup}
      <4>1. Sibling(r) = {}
        BY <3>3 DEF Sibling
      <4>2. roleRole'[Tagger] = roleRole[Tagger] /\ roleRole'[TagCleanup] = roleRole[TagCleanup]
        BY <2>4, <2>9, <3>3, <4>1
      <4>3. QED
        BY <2>6, <2>9, <4>2 DEF OneMoodModel
    <3>4. QED
      BY <3>1, <3>2, <3>3
  <2>10. QED
    BY <2>4, <2>7, <2>8, <2>9 DEF RolesOk, OneMoodModel
<1>5. QED
  BY <1>1, <1>2, <1>3, <1>4

(* The deletion of a role withdraws its evaluation. *)
LEMMA DeleteRoleGates == ASSUME GatesIInv, NEW c \in RoleClients, DeleteRole(c) PROVE GatesIInv'
<1>1. PICK r \in Roles : /\ RoleAsk(c, "drop", RoleIdle)
                         /\ roleRole' = [roleRole EXCEPT ![r] = NoRole] /\ eval' = [eval EXCEPT ![r] = NoEval]
  BY DEF DeleteRole
<1>2. UNCHANGED <<conn, roleJob, passed>>
  BY DEF DeleteRole
<1>3. /\ DOMAIN NoRole = RoleFields /\ NoRole.status = "never" /\ NoRole.conn \in RoleConnections /\ ~NoRole.exists
  BY FirstConnection DEF NoRole, RoleFields
<1>4. /\ DOMAIN roleRole = Roles /\ DOMAIN eval = Roles /\ OneMoodModel
      /\ \A z \in Roles : RoleOk(z) /\ EvalOk(z)
  BY DEF GatesIInv, RolesOk
<1>5. \A z \in Roles : RoleOk(z)'
  BY <1>1, <1>2, <1>3, <1>4 DEF RoleOk
<1>6. \A z \in Roles : EvalOk(z)'
  BY <1>1, <1>2, <1>4 DEF EvalOk, NoEval
<1>7. OneMoodModel'
  BY <1>1, <1>3, <1>4 DEF OneMoodModel
<1>8. OpsOk'
  BY <1>1, <1>2, OpsAfter, IdleOp DEF GatesIInv, RoleAsk
<1>9. QED
  BY <1>1, <1>2, <1>4, <1>5, <1>6, <1>7, <1>8, ConnsKept DEF GatesIInv, RolesOk, JobsShaped

-----------------------------------------------------------------------------
(* Jobs *)
LEMMA StartGates == ASSUME GatesIInv, NEW c \in RoleClients, RoleStart(c) PROVE GatesIInv'
<1>1. PICK r \in Roles, kind \in {"evaluation", "live"} :
        RoleAsk(c, kind, [RoleIdle EXCEPT !.kind = kind, !.pc = "enqueue", !.r = r,
                          !.fp = Runtime(conn[roleRole[r].conn], roleRole[r])])
  BY DEF RoleStart
<1> DEFINE o == [RoleIdle EXCEPT !.kind = kind, !.pc = "enqueue", !.r = r,
                                 !.fp = Runtime(conn[roleRole[r].conn], roleRole[r])]
<1>2. roleOp' = [roleOp EXCEPT ![c] = o] /\ kind \in RoleKinds /\ UNCHANGED <<roleStored, roleJob, roleHistory>>
  BY <1>1 DEF RoleAsk, RoleStart
<1>3. DOMAIN o = OpFields /\ o.kind = kind /\ o.pc = "enqueue" /\ o.r = r /\ o.k \in RoleConnections
  BY FirstConnection DEF RoleIdle, OpFields
<1> HIDE DEF o
<1>4. OpOk(o)
  BY <1>2, <1>3 DEF OpOk
<1>5. QED
  BY <1>2, <1>4, AskOnly

(* A job is queued with the fingerprint that was read. *)
LEMMA EnqueueGates == ASSUME GatesIInv, NEW c \in RoleClients, RoleEnqueue(c) PROVE GatesIInv'
<1>1. RoleFinish(c) /\ UNCHANGED <<conn, roleRole, eval, passed>>
  BY DEF RoleEnqueue, roleStored, roleHistory
<1>2. JobsShaped'
  <2>1. ASSUME NEW n, DOMAIN n = JobFields, NEW r, roleJob' = [roleJob EXCEPT ![r] = n] PROVE JobsShaped'
    BY <2>1 DEF GatesIInv, JobsShaped
  <2>2. \A fp, kind : DOMAIN [RoleNoJob EXCEPT !.pc = "queued", !.kind = kind, !.fp = fp] = JobFields
    BY DEF RoleNoJob, JobFields
  <2>3. CASE UNCHANGED roleJob
    BY <2>3 DEF GatesIInv, JobsShaped
  <2>4. QED
    BY <2>1, <2>2, <2>3 DEF RoleEnqueue
<1>3. QED
  BY <1>1, <1>2, ConnsKept, RolesKept, OpEnds DEF GatesIInv

(* A job that reads, prepares or ends passes no gate. *)
LEMMA JobGates ==
  ASSUME GatesIInv, NEW r \in Roles, JobReads(r) \/ JobPrepares(r) \/ JobEnds(r)
  PROVE  GatesIInv'
<1>1. UNCHANGED <<conn, roleRole, eval, passed, roleOp>>
  BY DEF JobReads, JobPrepares, JobEnds, roleStored, roleHistory
<1>2. JobsShaped'
  <2>1. DOMAIN RoleNoJob = JobFields
    BY DEF RoleNoJob, JobFields
  <2>2. DOMAIN roleJob = Roles /\ \A z \in Roles : DOMAIN roleJob[z] = JobFields
    BY DEF GatesIInv, JobsShaped
  <2>3. DOMAIN roleJob' = Roles /\ \A z \in Roles : DOMAIN roleJob'[z] = JobFields
    BY <2>1, <2>2 DEF JobReads, JobPrepares, JobEnds, EndJob
  <2>4. QED
    BY <2>3 DEF JobsShaped
<1>3. QED
  BY <1>1, <1>2, ConnsKept, RolesKept, OpsKept DEF GatesIInv

(* An evaluation that passed is stored under the fingerprint it was made with. *)
LEMMA RecordsGates == ASSUME GatesIInv, NEW r \in Roles, JobRecords(r) PROVE GatesIInv'
<1>1. UNCHANGED <<conn, roleRole, roleOp>> /\ roleJob' = [roleJob EXCEPT ![r].pc = "done"]
  BY DEF JobRecords
<1>2. JobsShaped'
  BY <1>1 DEF GatesIInv, JobsShaped
<1>3. CASE UNCHANGED <<eval, passed>>
  BY <1>1, <1>2, <1>3, ConnsKept, RolesKept, OpsKept DEF GatesIInv
<1>4. ASSUME NEW s \in {"passed", "failed"}, eval' = [eval EXCEPT ![r] = [status |-> s, fp |-> roleJob[r].fp]],
             passed' = IF s = "passed" THEN passed \union {<<"quality", r, roleJob[r].fp>>} ELSE passed
      PROVE  GatesIInv'
  <2>1. /\ DOMAIN roleRole = Roles /\ DOMAIN eval = Roles /\ OneMoodModel
        /\ \A z \in Roles : RoleOk(z) /\ EvalOk(z)
    BY DEF GatesIInv, RolesOk
  <2>2. passed \subseteq passed'
    BY <1>4
  <2>3. EvalOk(r)'
    <3>1. eval'[r] = [status |-> s, fp |-> roleJob[r].fp]
      BY <1>4, <2>1
    <3>2. QED
      BY <1>4, <3>1 DEF EvalOk
  <2>4. \A z \in Roles : EvalOk(z)'
    BY <1>4, <2>1, <2>2, <2>3 DEF EvalOk
  <2>5. \A z \in Roles : RoleOk(z)'
    BY <1>1, <2>1, <2>2 DEF RoleOk
  <2>6. OneMoodModel'
    BY <1>1, <2>1 DEF OneMoodModel, SameRuntime
  <2>7. RolesOk'
    BY <1>1, <1>4, <2>1, <2>4, <2>5, <2>6 DEF RolesOk
  <2>8. QED
    BY <1>1, <1>2, <2>2, <2>7, ConnsKept, OpsKept DEF GatesIInv
<1>5. QED
  BY <1>3, <1>4 DEF JobRecords

(* At first nothing is configured. *)
LEMMA GatesInit == RoleInit => GatesIInv
<1> SUFFICES ASSUME RoleInit PROVE GatesIInv
  OBVIOUS
<1>1. ConnsOk
  <2>1. ASSUME NEW k \in RoleConnections PROVE ConnOk(k)
    <3>1. CASE k = First
      <4>1. conn[k] = Ready /\ <<"access", ConnFp(k, Ready)>> \in passed
        BY <3>1, FirstConnection DEF RoleInit
      <4>2. DOMAIN Ready = RowFields
        BY DEF Ready, NoConn, RowFields
      <4>3. QED
        BY <4>1, <4>2 DEF ConnOk
    <3>2. CASE k # First
      BY <3>2 DEF RoleInit, ConnOk, NoConn, RowFields
    <3>3. QED
      BY <3>1, <3>2
  <2>2. QED
    BY <2>1 DEF RoleInit, ConnsOk
<1>2. RolesOk
  <2>1. DOMAIN ReadyRole = RoleFields /\ ReadyRole.conn \in RoleConnections /\ ReadyRole.exists
    BY FirstConnection DEF ReadyRole, NoRole, RoleFields
  <2>2. \A r \in Roles : roleRole[r] = ReadyRole /\ <<"test", r, ReadyRole.fp>> \in passed /\ eval[r] = NoEval
    BY DEF RoleInit
  <2>3. \A r \in Roles : RoleOk(r)
    BY <2>1, <2>2 DEF RoleOk
  <2>4. ASSUME NEW r \in Roles PROVE EvalOk(r)
    <3>1. eval[r] = NoEval
      BY <2>2
    <3>2. QED
      BY <3>1 DEF EvalOk, NoEval
  <2>5. OneMoodModel
    BY <2>1, <2>2 DEF OneMoodModel, SameRuntime
  <2>6. QED
    BY <2>3, <2>4, <2>5 DEF RolesOk, RoleInit
<1>3. OpsOk
  BY IdleOp DEF RoleInit, OpsOk
<1>4. JobsShaped
  BY DEF RoleInit, JobsShaped, RoleNoJob, JobFields
<1>5. QED
  BY <1>1, <1>2, <1>3, <1>4 DEF GatesIInv

(* Every step of a request and of a job keeps the invariant. *)
LEMMA GatesNext == GatesIInv /\ [RoleNext]_roleVars => GatesIInv'
<1> SUFFICES ASSUME GatesIInv, [RoleNext]_roleVars PROVE GatesIInv'
  OBVIOUS
<1>1. CASE UNCHANGED roleVars
  BY <1>1, ConnsKept, RolesKept, OpsKept DEF roleVars, GatesIInv, JobsShaped
<1>2. CASE RoleNext
  BY <1>2, CreateGates, EditGates, ReplaceGates, DeleteGates, ClearGates, ResetAllGates, VerifyGates, VerifiedGates,
     TestGates, TestedGates, ConfigureGates, ReadRoleGates, SaveGates, DeleteRoleGates, StartGates, EnqueueGates,
     JobGates, RecordsGates DEF RoleNext
<1>3. QED
  BY <1>1, <1>2

(* For every set of roles, connections, models and requests: what a gate   *)
(* shows as passed has passed for exactly the address, key and model in    *)
(* force, and the configurations of tagging and of the cleanup of tags     *)
(* agree whenever both are saved, whichever requests overlap               *)
(* (finish_provider_verification, finish_role_conformance,                 *)
(* save_model_evaluation, save_model_role).                                *)
THEOREM GatesAreExact == RoleSpec => [](ExactlyTested /\ OneMoodModel)
<1>1. GatesIInv => ExactlyTested /\ OneMoodModel
  <2> SUFFICES ASSUME GatesIInv PROVE ExactlyTested
    BY DEF GatesIInv, RolesOk
  <2>1. \A k \in RoleConnections : conn[k].status = "verified" => <<"access", ConnFp(k, conn[k])>> \in passed
    BY DEF GatesIInv, ConnsOk, ConnOk
  <2>2. \A r \in Roles : /\ roleRole[r].status = "passed" => <<"test", r, roleRole[r].fp>> \in passed
                         /\ eval[r].status = "passed" => <<"quality", r, eval[r].fp>> \in passed
    BY DEF GatesIInv, RolesOk, RoleOk, EvalOk
  <2>3. QED
    BY <2>1, <2>2 DEF ExactlyTested, Conformance
<1>2. QED
  BY GatesInit, GatesNext, <1>1, PTL DEF RoleSpec

-----------------------------------------------------------------------------
(* What a job prepared, kept to its end *)
(* Whatever else happens to it, a job whose role, connection and           *)
(* evaluation stay is right.                                               *)
LEMMA JobKept ==
  ASSUME NEW r \in Roles, JobOk(r), roleJob'[r] = roleJob[r],
         Known(r) /\ roleJob[r].pc \in {"prepare", "run"} => roleRole'[r] = roleRole[r],
         Known(r) /\ roleJob[r].pc = "run" => /\ eval'[r] = eval[r] /\ conn'[roleRole[r].conn].exists
                                  /\ ConnFp(roleRole[r].conn, conn'[roleRole[r].conn])
                                       = ConnFp(roleRole[r].conn, conn[roleRole[r].conn])
  PROVE  JobOk(r)'
BY DEF JobOk, Known, Runtime, ConnFp

(* Requests that change a connection leave alone the ones in use. *)
LEMMA OtherConnection ==
  ASSUME GatesIInv, JobsIInv, NEW r \in Roles, NEW k \in RoleConnections, ~ConnBusy(k),
         UNCHANGED roleJob, \A z \in RoleConnections \ {k} : conn'[z] = conn[z],
         \A s \in Roles \ Users(k) : roleRole'[s] = roleRole[s] /\ eval'[s] = eval[s]
  PROVE  JobOk(r)'
<1>1. JobOk(r) /\ roleRole[r].conn \in RoleConnections
  BY DEF JobsIInv, GatesIInv, RolesOk, RoleOk
<1>2. Known(r) => ~(roleRole[r].exists /\ roleRole[r].conn = k)
  BY DEF ConnBusy
<1>3. Known(r) => roleRole'[r] = roleRole[r] /\ eval'[r] = eval[r]
  BY <1>2 DEF Users
<1>4. Known(r) /\ roleJob[r].pc = "run" => roleRole[r].exists /\ conn[roleRole[r].conn].exists
  BY <1>1 DEF JobOk
<1>5. Known(r) /\ roleJob[r].pc = "run" => conn'[roleRole[r].conn] = conn[roleRole[r].conn]
  BY <1>1, <1>2, <1>4
<1>6. QED
  BY <1>1, <1>3, <1>4, <1>5, JobKept

(* Requests that change a role leave alone the ones with a job. *)
LEMMA OtherRole ==
  ASSUME JobsIInv, NEW r \in Roles, UNCHANGED <<conn, roleJob>>,
         Known(r) => roleRole'[r] = roleRole[r] /\ eval'[r] = eval[r]
  PROVE  JobOk(r)'
<1>1. JobOk(r)
  BY DEF JobsIInv
<1>2. QED
  BY <1>1, JobKept DEF JobOk

(* Every step keeps what a job at work has read. *)
LEMMA JobsNext ==
  ASSUME GatesIInv, JobsIInv, [RoleNext]_roleVars
  PROVE  JobsIInv'
<1> SUFFICES ASSUME NEW r \in Roles PROVE JobOk(r)'
  BY DEF JobsIInv
<1>1. /\ JobOk(r) /\ roleRole[r].conn \in RoleConnections /\ DOMAIN roleJob = Roles
      /\ \A z \in Roles : DOMAIN roleJob[z] = JobFields
      /\ DOMAIN conn = RoleConnections /\ DOMAIN roleRole = Roles /\ DOMAIN eval = Roles
  BY DEF JobsIInv, GatesIInv, RolesOk, RoleOk, JobsShaped, ConnsOk
<1>2. CASE UNCHANGED <<conn, roleRole, eval, roleJob>>
  BY <1>2, OtherRole
<1>3. ASSUME NEW c \in RoleClients, RoleCreate(c) PROVE JobOk(r)'
  <2>1. PICK k \in RoleConnections : ~conn[k].exists /\ \E n : conn' = [conn EXCEPT ![k] = n]
    BY <1>3 DEF RoleCreate
  <2>2. UNCHANGED <<roleRole, eval, roleJob>>
    BY <1>3 DEF RoleCreate
  <2>3. Known(r) /\ roleJob[r].pc = "run" => conn[roleRole[r].conn].exists
    BY <1>1 DEF JobOk
  <2>4. Known(r) /\ roleJob[r].pc = "run" => conn'[roleRole[r].conn] = conn[roleRole[r].conn]
    BY <1>1, <2>1, <2>3
  <2>5. QED
    BY <1>1, <2>2, <2>3, <2>4, JobKept
<1>4. ASSUME NEW c \in RoleClients, Replace(c) PROVE JobOk(r)'
  <2> DEFINE o == roleOp[c]
  <2>1. OpOk(o) /\ o.kind = "edit" /\ o.k \in RoleConnections /\ UNCHANGED roleJob
    BY <1>4 DEF GatesIInv, OpsOk, OpOk, Replace
  <2>2. PICK k \in RoleConnections : k = o.k
    BY <2>1
  <2>3. ASSUME ~(ConnFp(k, o.next) # ConnFp(k, o.rec)), ConnFp(k, conn[k]) = ConnFp(k, o.rec),
               conn' = [conn EXCEPT ![k] = o.next], UNCHANGED <<roleRole, eval>>
        PROVE  JobOk(r)'
    <3>1. o.next.exists
      BY <2>1 DEF OpOk
    <3> HIDE DEF o
    <3>2. conn'[k] = o.next /\ \A z \in RoleConnections \ {k} : conn'[z] = conn[z]
      BY <1>1, <2>3
    <3>3. Known(r) /\ roleJob[r].pc = "run" => conn[roleRole[r].conn].exists
      BY <1>1 DEF JobOk
    <3>4. Known(r) /\ roleJob[r].pc = "run" => /\ conn'[roleRole[r].conn].exists
                                   /\ ConnFp(roleRole[r].conn, conn'[roleRole[r].conn])
                                        = ConnFp(roleRole[r].conn, conn[roleRole[r].conn])
      <4>1. CASE roleRole[r].conn = k
        BY <2>3, <3>1, <3>2, <4>1
      <4>2. CASE roleRole[r].conn # k
        BY <1>1, <3>2, <3>3, <4>2
      <4>3. QED
        BY <4>1, <4>2
    <3>5. QED
      BY <1>1, <2>1, <2>3, <3>4, JobKept
  <2>4. ASSUME ~ConnBusy(k), conn' = [conn EXCEPT ![k] = o.next], ResetRoles(k) PROVE JobOk(r)'
    <3>1. \A s \in Roles \ Users(k) : roleRole'[s] = roleRole[s] /\ eval'[s] = eval[s]
      BY <2>4 DEF ResetRoles
    <3>2. \A z \in RoleConnections \ {k} : conn'[z] = conn[z]
      BY <1>1, <2>4
    <3>3. QED
      BY <2>1, <2>4, <3>1, <3>2, OtherConnection
  <2>5. CASE UNCHANGED <<roleStored, roleHistory>>
    BY <1>2, <2>1, <2>5 DEF roleStored
  <2>6. QED
    BY <1>4, <2>2, <2>3, <2>4, <2>5 DEF Replace
<1>5. ASSUME NEW c \in RoleClients, RoleDelete(c) PROVE JobOk(r)'
  <2>1. PICK k \in RoleConnections : ~ConnBusy(k) /\ conn' = [conn EXCEPT ![k] = NoConn]
    BY <1>5 DEF RoleDelete
  <2>2. UNCHANGED <<roleRole, eval, roleJob>>
    BY <1>5 DEF RoleDelete
  <2>3. \A z \in RoleConnections \ {k} : conn'[z] = conn[z]
    BY <1>1, <2>1
  <2>4. QED
    BY <2>1, <2>2, <2>3, OtherConnection
<1>6. ASSUME NEW c \in RoleClients, ClearCredential(c) PROVE JobOk(r)'
  <2>1. PICK k \in RoleConnections : /\ ~ConnBusy(k) /\ ResetRoles(k)
                                     /\ conn' = [conn EXCEPT ![k].cred = 0, ![k].status = "never"]
    BY <1>6 DEF ClearCredential
  <2>2. \A z \in RoleConnections \ {k} : conn'[z] = conn[z]
    BY <1>1, <2>1
  <2>3. UNCHANGED roleJob /\ \A s \in Roles \ Users(k) : roleRole'[s] = roleRole[s] /\ eval'[s] = eval[s]
    BY <1>6, <2>1 DEF ResetRoles, ClearCredential
  <2>4. QED
    BY <2>1, <2>2, <2>3, OtherConnection
<1>7. ASSUME NEW c \in RoleClients, ResetAll(c) PROVE JobOk(r)'
  <2>1. roleJob[r].pc = "none" /\ roleJob'[r] = roleJob[r]
    BY <1>7 DEF ResetAll
  <2>2. QED
    BY <1>1, <2>1, JobKept
<1>8. ASSUME NEW c \in RoleClients, Verified(c) PROVE JobOk(r)'
  <2> DEFINE o == roleOp[c]
  <2>1. o.k \in RoleConnections /\ UNCHANGED roleJob
    BY <1>8 DEF GatesIInv, OpsOk, OpOk, Verified
  <2>2. PICK k \in RoleConnections : k = o.k
    BY <2>1
  <2>3. ASSUME ~ConnBusy(k), NEW s, conn' = [conn EXCEPT ![k].status = s], ResetRoles(k) PROVE JobOk(r)'
    <3>1. \A z \in Roles \ Users(k) : roleRole'[z] = roleRole[z] /\ eval'[z] = eval[z]
      BY <2>3 DEF ResetRoles
    <3>2. \A z \in RoleConnections \ {k} : conn'[z] = conn[z]
      BY <1>1, <2>3
    <3>3. QED
      BY <2>1, <2>3, <3>1, <3>2, OtherConnection
  <2>4. CASE UNCHANGED <<roleStored, roleHistory>>
    BY <1>2, <2>1, <2>4 DEF roleStored
  <2>5. QED
    BY <1>8, <2>2, <2>3, <2>4 DEF Verified
<1>9. ASSUME NEW c \in RoleClients, Tested(c) PROVE JobOk(r)'
  <2> DEFINE o == roleOp[c]
  <2>1. UNCHANGED <<conn, roleJob>>
    BY <1>9 DEF Tested, roleStored
  <2>2. Known(r) => roleRole'[r] = roleRole[r] /\ eval'[r] = eval[r]
    <3>1. CASE UNCHANGED <<roleStored, roleHistory>>
      BY <3>1 DEF roleStored
    <3>2. ASSUME ~Known(o.r), NEW s, roleRole' = [roleRole EXCEPT ![o.r].status = s, ![o.r].fp = o.fp], UNCHANGED eval
          PROVE  Known(r) => roleRole'[r] = roleRole[r] /\ eval'[r] = eval[r]
      <4>1. Known(r) => r # o.r
        BY <1>1, <3>2
      <4> HIDE DEF o
      <4>2. QED
        BY <1>1, <3>2, <4>1
    <3>3. QED
      BY <1>9, <3>1, <3>2 DEF Tested
  <2>3. QED
    BY <2>1, <2>2, OtherRole
<1>10. ASSUME NEW c \in RoleClients, RoleSave(c) PROVE JobOk(r)'
  <2> DEFINE o == roleOp[c]
  <2>1. UNCHANGED <<conn, roleJob>>
    BY <1>10 DEF RoleSave
  <2>2. CASE UNCHANGED <<roleRole, eval, tested>>
    BY <1>2, <2>1, <2>2
  <2>3. ASSUME \A s \in {o.r} \union Sibling(o.r) : ~Known(s), RoleSaved(o.r, o.cur, o.fp = <<TRUE>>)
        PROVE  JobOk(r)'
    <3>1. Known(r) => r # o.r /\ r \notin Sibling(o.r)
      BY <1>1, <2>3
    <3> HIDE DEF o
    <3>2. Known(r) => roleRole'[r] = roleRole[r] /\ eval'[r] = eval[r]
      BY <2>3, <3>1 DEF RoleSaved
    <3>3. QED
      BY <2>1, <3>2, OtherRole
  <2>4. QED
    BY <1>10, <2>2, <2>3 DEF RoleSave
<1>11. ASSUME NEW c \in RoleClients, DeleteRole(c) PROVE JobOk(r)'
  <2>1. PICK z \in Roles : ~Known(z) /\ roleRole' = [roleRole EXCEPT ![z] = NoRole] /\ eval' = [eval EXCEPT ![z] = NoEval]
    BY <1>11 DEF DeleteRole
  <2>2. UNCHANGED <<conn, roleJob>>
    BY <1>11 DEF DeleteRole
  <2>3. Known(r) => roleRole'[r] = roleRole[r] /\ eval'[r] = eval[r]
    BY <1>1, <2>1
  <2>4. QED
    BY <2>2, <2>3, OtherRole
<1>12. ASSUME NEW c \in RoleClients, RoleEnqueue(c) PROVE JobOk(r)'
  <2> DEFINE o == roleOp[c]
             n == [RoleNoJob EXCEPT !.pc = "queued", !.kind = o.kind, !.fp = o.fp]
  <2>1. UNCHANGED <<conn, roleRole, eval>> /\ o.kind \in RoleKinds
    BY <1>12 DEF RoleEnqueue, roleStored, GatesIInv, OpsOk, OpOk
  <2>2. CASE UNCHANGED roleJob
    BY <1>2, <2>1, <2>2
  <2>3. CASE roleJob' = [roleJob EXCEPT ![o.r] = n]
    <3>1. n.pc = "queued" /\ n.kind = o.kind
      BY DEF RoleNoJob
    <3> HIDE DEF n, o
    <3>2. CASE r = o.r
      BY <1>1, <2>1, <2>3, <3>1, <3>2 DEF JobOk
    <3>3. CASE r # o.r
      <4>1. roleJob'[r] = roleJob[r]
        BY <1>1, <2>3, <3>3
      <4>2. QED
        BY <1>1, <2>1, <4>1 DEF JobOk, Known, Runtime
    <3>4. QED
      BY <3>2, <3>3
  <2>4. QED
    BY <1>12, <2>2, <2>3 DEF RoleEnqueue
<1>13. ASSUME NEW z \in Roles, JobReads(z) \/ JobPrepares(z) \/ JobEnds(z) \/ JobRecords(z), z # r PROVE JobOk(r)'
  <2>1. UNCHANGED <<conn, roleRole>> /\ roleJob'[r] = roleJob[r] /\ eval'[r] = eval[r]
    BY <1>1, <1>13 DEF JobReads, JobPrepares, JobEnds, EndJob, JobRecords, roleStored
  <2>2. QED
    BY <1>1, <2>1 DEF JobOk, Known, Runtime
<1>14. CASE JobReads(r)
  <2>1. roleJob'[r] = [roleJob[r] EXCEPT !.pc = "prepare", !.rec = roleRole[r]] /\ UNCHANGED roleRole /\ roleJob[r].pc = "queued"
    BY <1>1, <1>14 DEF JobReads, roleStored
  <2>2. roleJob'[r].pc = "prepare" /\ roleJob'[r].kind = roleJob[r].kind /\ roleJob'[r].rec = roleRole[r]
    BY <1>1, <2>1 DEF JobFields
  <2>3. QED
    BY <1>1, <2>1, <2>2 DEF JobOk
<1>15. CASE JobPrepares(r)
  <2> DEFINE rec == roleJob[r].rec
  <2>1. /\ UNCHANGED <<conn, roleRole, eval>> /\ roleJob[r].pc = "prepare"
        /\ Known(r) => rec = roleRole[r]
    BY <1>1, <1>15 DEF JobPrepares, roleStored, JobOk
  <2>2. CASE EndJob(r)
    BY <1>1, <2>2 DEF EndJob, JobOk, Known, RoleNoJob
  <2>3. CASE /\ Runnable(r, rec, roleJob[r].kind) /\ Runtime(conn[rec.conn], rec) = roleJob[r].fp
             /\ roleJob' = [roleJob EXCEPT ![r].pc = "run", ![r].seen = conn[rec.conn]]
    <3>1. roleJob'[r] = [roleJob[r] EXCEPT !.pc = "run", !.seen = conn[rec.conn]]
      BY <1>1, <2>3
    <3>2. /\ roleJob'[r].pc = "run" /\ roleJob'[r].kind = roleJob[r].kind /\ roleJob'[r].rec = rec
          /\ roleJob'[r].fp = roleJob[r].fp
      BY <1>1, <3>1 DEF JobFields
    <3> SUFFICES ASSUME Known(r)' PROVE JobOk(r)'
      BY DEF JobOk
    <3> Known(r)
      BY <2>1, <3>2 DEF Known
    <3>3. eval[r] = [status |-> eval[r].status, fp |-> eval[r].fp]
      BY DEF GatesIInv, RolesOk, EvalOk
    <3>4. /\ roleRole[r].exists /\ roleRole[r].enabled /\ conn[roleRole[r].conn].exists
          /\ roleJob[r].kind = "live" => eval[r].status = "passed" /\ eval[r].fp = roleJob[r].fp
      BY <2>1, <2>3 DEF Runnable
    <3> HIDE DEF rec
    <3>5. QED
      BY <1>1, <2>1, <2>3, <3>2, <3>3, <3>4 DEF JobOk
  <2>4. QED
    BY <1>15, <2>2, <2>3 DEF JobPrepares
<1>16. CASE JobEnds(r)
  BY <1>1, <1>16 DEF JobEnds, EndJob, JobOk, Known, RoleNoJob
<1>17. CASE JobRecords(r)
  <2>1. roleJob'[r] = [roleJob[r] EXCEPT !.pc = "done"] /\ roleJob[r].pc = "run"
    BY <1>1, <1>17 DEF JobRecords
  <2>2. roleJob'[r].pc = "done" /\ roleJob'[r].kind = roleJob[r].kind
    BY <1>1, <2>1 DEF JobFields
  <2>3. QED
    BY <1>1, <2>1, <2>2 DEF JobOk
<1>18. ASSUME NEW c \in RoleClients,
              RoleEdit(c) \/ RoleVerify(c) \/ Test(c) \/ RoleConfigure(c) \/ ReadRole(c) \/ RoleStart(c) PROVE JobOk(r)'
  BY <1>2, <1>18 DEF RoleEdit, RoleVerify, Test, RoleConfigure, ReadRole, RoleStart, roleStored
<1>19. CASE UNCHANGED roleVars
  BY <1>2, <1>19 DEF roleVars
<1>20. QED
  BY <1>3, <1>4, <1>5, <1>6, <1>7, <1>8, <1>9, <1>10, <1>11, <1>12, <1>13, <1>14, <1>15, <1>16, <1>17, <1>18, <1>19
     DEF RoleNext

(* For every set of roles, connections, models and requests, besides: a    *)
(* job works with the configuration it prepared to its end, and a live job *)
(* runs only while the quality its role was certified with is on record    *)
(* (role_has_active_model_job, prepare_quality_gated_role_execution).      *)
(* GatesHold excepts the live job of the library cleanup, and only this    *)
(* one: it may run, and the requests that change a configuration do not    *)
(* see it (cleanup_enrichment/ai.rs).                                      *)
THEOREM JobsPassedTheirGates == RoleSpec => []GatesHold
<1>1. RoleInit => JobsIInv
  BY DEF RoleInit, JobsIInv, JobOk, Known, RoleNoJob
<1>2. GatesIInv /\ JobsIInv /\ [RoleNext]_roleVars => JobsIInv'
  BY JobsNext
<1>3. GatesIInv /\ JobsIInv => JobKeepsRuntime /\ LiveCertified
  <2> SUFFICES ASSUME GatesIInv, JobsIInv, NEW r \in Roles, Known(r), roleJob[r].pc = "run"
               PROVE  /\ roleRole[r].exists /\ roleRole[r].enabled
                      /\ Runtime(conn[roleRole[r].conn], roleRole[r]) = roleJob[r].fp
                      /\ roleJob[r].kind = "live" => /\ eval[r] = [status |-> "passed", fp |-> roleJob[r].fp]
                                                     /\ <<"quality", r, roleJob[r].fp>> \in passed
    BY DEF JobKeepsRuntime, LiveCertified
  <2>1. JobOk(r) /\ EvalOk(r)
    BY DEF GatesIInv, RolesOk, JobsIInv
  <2>2. QED
    BY <2>1 DEF JobOk, EvalOk
<1>4. QED
  BY GatesInit, GatesNext, GatesAreExact, <1>1, <1>2, <1>3, PTL DEF RoleSpec, GatesHold

=============================================================================
