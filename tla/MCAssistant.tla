----------------------------- MODULE MCAssistant ----------------------------
(***************************************************************************)
(* Small instances of TagEvidence, ModelRoles and CredentialVault, which   *)
(* share no state: each behaviour moves one of them, as its part says.     *)
(*   evidence  two lookups beside two changes of a setting and a scan      *)
(*   tagger    a model run and a lookup beside one change of a setting     *)
(*   tags      a lookup, two edits of the library's tags and a change of   *)
(*             the vocabulary                                              *)
(*   gates     a connection of two addresses and one role, six requests    *)
(*   moods     two connections and the two roles that share a model        *)
(*   cleanup   one connection and the role of the library cleanup, whose   *)
(*             live job no other request knows of                          *)
(*   vault     two connections and a source, three clients                 *)
(***************************************************************************)
EXTENDS TagEvidence, ModelRoles, CredentialVault, TLC

CONSTANT Parts
VARIABLE part

EditedVocabularies == {{"mellow"}, {"tense"}}
Mellow == {"mellow"}

Bounded(s, f, l, t) ==
    bounds'.settings <= s /\ bounds'.files <= f /\ bounds'.lookups <= l /\ bounds'.tags <= t
\* Answers of the catalogs are complete and reviews accept; "tags" has the others.
Complete == ~lookup'.partial /\ (review'.pc = "commit" => review'.decision = "accepted")
NoModel == UNCHANGED <<tagger, contexts, role>>
EvidencePart ==
    /\ part \in {"evidence", "tagger", "tags"} /\ Next
    /\ CASE part = "evidence" -> NoModel /\ Bounded(2, 1, 2, 0) /\ Complete
                                 /\ bounds'.settings + bounds'.files + bounds'.lookups <= 4
         [] part = "tagger"   -> Bounded(1, 0, 1, 0) /\ Complete /\ ~lookup'.force /\ UNCHANGED <<src, cleanup>>
                                 /\ (page' # page => lookup.pc = "idle")
         [] part = "tags"     -> NoModel /\ Bounded(1, 0, 1, 2)
    /\ UNCHANGED <<roleVars, vaultVars>>

RoleOf(roles) == \A c \in RoleClients : roleOp'[c].r \in roles \union {"none"}
KindOf(kinds) == \A c \in RoleClients : roleOp'[c].kind \in kinds \union {"none"}
RolesPart ==
    /\ part \in {"gates", "moods", "cleanup"} /\ RoleNext
    /\ part # "cleanup" => roleRole'[LibraryCleanup].exists
    /\ CASE part = "gates" -> /\ RoleOf({"eq_assistant"}) /\ ~conn'["k2"].exists
                              /\ roleRole'[Tagger].exists /\ roleRole'[TagCleanup].exists
         [] part = "moods" -> /\ RoleOf({Tagger, TagCleanup}) /\ roleRole'["eq_assistant"].exists
                              /\ roleOps' <= 3 /\ roleJobs' <= 1
                              /\ \A k \in RoleConnections : conn'[k].url = StartUrl
                              /\ KindOf({"verify", "test", "configure", "evaluation"})
         [] part = "cleanup" -> /\ RoleOf({LibraryCleanup}) /\ ~conn'["k2"].exists
                                /\ \A r \in Roles \ {LibraryCleanup} : roleRole'[r].exists
                                /\ roleOps' <= 4 /\ roleJobs' <= 2
    /\ UNCHANGED <<vars, vaultVars>>
VaultPart == part = "vault" /\ VaultNext /\ UNCHANGED <<vars, roleVars>>

MCInit == part \in Parts /\ Init /\ RoleInit /\ VaultInit
MCNext == (EvidencePart \/ RolesPart \/ VaultPart) /\ UNCHANGED part
MCSpec == MCInit /\ [][MCNext]_<<vars, roleVars, vaultVars, part>>

MCSymmetry == Permutations(RoleClients) \union Permutations(VaultClients)
=============================================================================
