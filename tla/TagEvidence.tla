---------------------------- MODULE TagEvidence ----------------------------
(***************************************************************************)
(* Where the suggested tags of a track come from and how one becomes a tag *)
(* of the library.  A catalog lookup reads its sources under a lease and   *)
(* stores enrichments and catalog analyses; a model run stores model       *)
(* analyses; a page shows what is current as suggestions; a review accepts *)
(* or rejects them.  Each of these reads in one step and writes in a later *)
(* one, while sources, credentials, the vocabulary, the model and the      *)
(* files change.  One revision of the catalog evidence ties it together:   *)
(* every change of a setting raises it and deletes what was made before.   *)
(*                                                                         *)
(* Versions of metadata, files, keys and roles only grow; 0 is none.       *)
(***************************************************************************)
EXTENDS Integers, FiniteSets

CONSTANTS
    Tracks,      \* tracks of the library
    Tags,        \* tags a vocabulary may have
    Vocabularies,\* the vocabularies an operator may save: sets of tags
    Default,     \* the vocabulary of a new installation
    Limit,       \* MAX_TAGS_PER_TRACK
    Decisions,   \* what a review may decide
    MaxSettings, \* bound on the edits of sources, keys, vocabulary and role
    MaxFiles,    \* bound on what a scan finds changed
    MaxLookups,  \* bound on the catalog lookups
    MaxTagEdits, \* bound on the edits of the library's own tags
    WithModel    \* whether a model suggests tags as well

ASSUME TagsAssumption == Vocabularies \subseteq SUBSET Tags /\ Default \in Vocabularies
ASSUME DecisionsAssumption == Decisions \subseteq {"accepted", "rejected", "pending"}
ASSUME LimitAssumption == Limit \in Nat /\ MaxSettings \in Nat /\ MaxFiles \in Nat
                          /\ MaxLookups \in Nat /\ MaxTagEdits \in Nat /\ WithModel \in BOOLEAN

VARIABLES
    index,      \* index[t]: metadata and file of a track as the library has them
    contexts,   \* contexts[t]: the file whose audio context is stored, or 0
    src,        \* the source policies and the saved Last.fm credential
    vocabulary, \* the tag vocabulary
    role,       \* the model that tags: its inference fingerprint
    revision,   \* catalog_evidence_state.revision
    enrichments,\* cleanup_track_enrichments
    analyses,   \* track_analyses
    reviews,    \* track_analysis_tag_reviews
    manual,     \* manual[t]: the tags of a track, track_user_tags
    lookup,     \* the catalog lookup that is running
    tagger,     \* the model run
    page,       \* the suggestions a client has on its page
    review,     \* the review request in progress
    cleanup,    \* a preview of the tag cleanup
    bounds      \* edits so far

vars == <<index, contexts, src, vocabulary, role, revision, enrichments, analyses, reviews,
          manual, lookup, tagger, page, review, cleanup, bounds>>
library == <<index, contexts>>
settings == <<src, vocabulary, role>>
evidence == <<revision, enrichments, analyses>>
requests == <<tagger, page, review, cleanup>>

Analyzers == {"catalog", "model"}
Signatures == [meta : Nat, rev : Nat, role : Nat, voc : SUBSET Tags, ctx : Nat,
               song : {<<>>} \cup (Nat \X BOOLEAN)]
Targets == [t : Tracks, a : Analyzers, tag : Tags, sig : Signatures]
Sources == [mb : BOOLEAN, lastfm : BOOLEAN, key : Nat]

NoTracks == [t \in Tracks |-> [meta |-> 0, file |-> 0]]
NoSources == [mb |-> FALSE, lastfm |-> FALSE, key |-> 0]
NoLookup == [pc |-> "idle", tracks |-> NoTracks, todo |-> {}, src |-> NoSources, rev |-> 0,
             voc |-> {}, force |-> FALSE, partial |-> FALSE, found |-> FALSE, moods |-> {}]
NoTagger == [pc |-> "idle"]
NoReview == [pc |-> "idle"]
NoCleanup == [pc |-> "idle"]

TypeOK ==
    /\ index \in [Tracks -> [meta : Nat, file : Nat]]
    /\ contexts \in [Tracks -> Nat]
    /\ src \in Sources /\ vocabulary \in [rev : Nat, tags : SUBSET Tags]
    /\ role \in Nat /\ revision \in Nat
    /\ \A x, y \in enrichments : x.t = y.t => x = y
    /\ \A x, y \in analyses : (x.t = y.t /\ x.a = y.a) => x = y
    /\ \A x, y \in reviews : (x.t = y.t /\ x.a = y.a /\ x.tag = y.tag) => x = y
    /\ \A t \in Tracks : manual[t] \subseteq Tags /\ Cardinality(manual[t]) <= Limit

Init ==
    /\ index = [t \in Tracks |-> [meta |-> 1, file |-> 1]]
    /\ contexts = [t \in Tracks |-> 0]
    /\ src = [mb |-> TRUE, lastfm |-> TRUE, key |-> 1]
    /\ vocabulary = [rev |-> 1, tags |-> Default]
    /\ role = 1
    /\ revision = 1
    /\ enrichments = {} /\ analyses = {} /\ reviews = {}
    /\ manual = [t \in Tracks |-> {}]
    /\ lookup = NoLookup
    /\ tagger = NoTagger
    /\ page = {}
    /\ review = NoReview
    /\ cleanup = NoCleanup
    /\ bounds = [settings |-> 0, files |-> 0, lookups |-> 0, tags |-> 0]

-----------------------------------------------------------------------------
(* Signatures: what a stored row, a suggestion and a review are tied to.    *)

cleanup_enrichment_source_signature(track) == <<track.meta, track.file>>

(* Metadata and revision, but neither the file's size nor its time. *)
catalog_tag_source_signature(track, rev) ==
    [meta |-> track.meta, rev |-> rev, role |-> 0, voc |-> {}, ctx |-> 0, song |-> <<>>]

current_context(t) == IF contexts[t] = index[t].file THEN contexts[t] ELSE 0

(* The catalog claims the model is given about a track: none unless its     *)
(* enrichment is current, identified and MusicBrainz enabled.               *)
song_catalog_evidence(t) ==
    IF \E e \in enrichments :
          /\ e.t = t /\ e.rev = revision /\ e.found /\ src.mb
          /\ e.sig = cleanup_enrichment_source_signature(index[t])
    THEN LET e == CHOOSE x \in enrichments : x.t = t IN <<e.stamp, src.lastfm>>
    ELSE <<>>

model_tag_source_signature(t, fingerprint, voc) ==
    [meta |-> index[t].meta, rev |-> 0, role |-> fingerprint, voc |-> voc,
     ctx |-> current_context(t), song |-> song_catalog_evidence(t)]

-----------------------------------------------------------------------------
(* The settings.  Each change and its invalidation are one transaction.     *)

invalidate ==
    /\ revision' = revision + 1
    /\ enrichments' = {}
    /\ reviews' = {r \in reviews : r.a # "catalog"}
    /\ analyses' = {x \in analyses : x.a # "catalog"}

Setting ==
    /\ bounds.settings < MaxSettings
    /\ bounds' = [bounds EXCEPT !.settings = @ + 1]

(* The lease a lookup holds through its evidence writes. *)
Leased == lookup.pc \notin {"idle", "lease"}

(* update: a source is switched on or off, unless a lookup is active. *)
SetSourceEnabled(enabled) ==
    /\ Setting
    /\ ~Leased
    /\ \/ src' = [src EXCEPT !.mb = enabled]
       \/ src' = [src EXCEPT !.lastfm = enabled]
    /\ invalidate
    /\ UNCHANGED <<library, vocabulary, role, manual, lookup, requests>>

(* save_credential and delete_credential. *)
WriteCredential(key) ==
    /\ Setting
    /\ ~Leased
    /\ src' = [src EXCEPT !.key = key]
    /\ invalidate
    /\ UNCHANGED <<library, vocabulary, role, manual, lookup, requests>>

(* The reset of all credentials does not take the gate: it is refused while *)
(* a lookup or a model job is active.                                       *)
ResetCredentials ==
    /\ Setting
    /\ lookup.pc = "idle" /\ tagger.pc = "idle"
    /\ src' = [src EXCEPT !.key = 0]
    /\ invalidate
    /\ UNCHANGED <<library, vocabulary, role, manual, lookup, requests>>

(* The vocabulary is compared and swapped; no lease holds it. *)
ReplaceVocabulary(tags) ==
    /\ Setting
    /\ vocabulary' = [rev |-> vocabulary.rev + 1, tags |-> tags]
    /\ invalidate
    /\ UNCHANGED <<library, src, role, manual, lookup, requests>>

ChangeRole ==
    /\ WithModel
    /\ Setting
    /\ role' = role + 1
    /\ UNCHANGED <<library, src, vocabulary, evidence, reviews, manual, lookup, requests>>

(* A scan finds a file replaced, with other or the same metadata. *)
Reindex(t) ==
    /\ bounds.files < MaxFiles
    /\ bounds' = [bounds EXCEPT !.files = @ + 1]
    /\ \E meta \in {index[t].meta, index[t].meta + 1} :
          index' = [index EXCEPT ![t] = [meta |-> meta, file |-> index[t].file + 1]]
    /\ UNCHANGED <<contexts, settings, evidence, reviews, manual, lookup, requests>>

(* The context job stores the audio context of the file (ContextAnalysis). *)
StoreContext(t) ==
    /\ WithModel /\ contexts[t] # index[t].file
    /\ contexts' = [contexts EXCEPT ![t] = index[t].file]
    /\ UNCHANGED <<index, settings, evidence, reviews, manual, lookup, requests, bounds>>

-----------------------------------------------------------------------------
(* The catalog lookup. *)

LookupStep(new) ==
    /\ lookup' = new
    /\ UNCHANGED <<library, settings, evidence, reviews, manual, requests, bounds>>

(* The job runs and reads its tracks. *)
StartLookup(force) ==
    /\ lookup.pc = "idle"
    /\ bounds.lookups < MaxLookups
    /\ bounds' = [bounds EXCEPT !.lookups = @ + 1]
    /\ lookup' = [NoLookup EXCEPT !.pc = "lease", !.todo = Tracks, !.tracks = index,
                                  !.force = force]
    /\ UNCHANGED <<library, settings, evidence, reviews, manual, requests>>

(* The lease, then the policies and the saved credential. *)
LookupSources ==
    /\ lookup.pc = "lease"
    /\ LookupStep(IF src.mb THEN [lookup EXCEPT !.pc = "revision", !.src = src]
                  ELSE NoLookup)

LastFm == lookup.src.lastfm /\ lookup.src.key # 0

(* Mutant: the vocabulary is loaded before the revision is captured. *)
SnapshotSwapped ==
    \/ /\ lookup.pc = "revision"
       /\ LookupStep([lookup EXCEPT !.pc = "vocabulary", !.voc = IF LastFm THEN vocabulary.tags ELSE {}])
    \/ /\ lookup.pc = "vocabulary"
       /\ LookupStep([lookup EXCEPT !.pc = "track", !.rev = revision])

(* The revision is captured before the vocabulary is loaded, which takes a  *)
(* later step: an edit between them leaves a revision that is stale.        *)
LookupSnapshot ==
    \/ /\ lookup.pc = "revision"
       /\ LookupStep([lookup EXCEPT !.pc = "vocabulary", !.rev = revision])
    \/ /\ lookup.pc = "vocabulary"
       /\ LookupStep([lookup EXCEPT !.pc = "track", !.voc = IF LastFm THEN vocabulary.tags ELSE {}])

(* A stored result is used again while everything it was made from stands   *)
(* and it has not expired.                                                  *)
Cached(t) ==
    /\ ~lookup.force
    /\ \E e \in enrichments :
          /\ e.t = t /\ e.rev = revision /\ e.rev = lookup.rev
          /\ e.sig = cleanup_enrichment_source_signature(lookup.tracks[t])
          /\ e.lastfm = LastFm

(* The next track of the lookup. *)
Track == CHOOSE t \in lookup.todo : TRUE
NextTrack == [lookup EXCEPT !.pc = "track", !.todo = @ \ {Track}, !.found = FALSE,
                            !.partial = FALSE, !.moods = {}]

(* A track is taken up: the lookup ends when the evidence or the file has   *)
(* changed since it began.                                                  *)
LookupTrack ==
    /\ lookup.pc = "track" /\ lookup.todo # {}
    /\ IF revision # lookup.rev \/ index[Track].file # lookup.tracks[Track].file
       THEN LookupStep(NoLookup)
       ELSE \/ Cached(Track) /\ LookupStep(NextTrack)
            \/ LookupStep([lookup EXCEPT !.pc = "query"])

(* What the catalogs answer: an error, no match, or a recording; with it,   *)
(* where Last.fm is asked, tags of the vocabulary, or another failure.      *)
LookupAnswer ==
    /\ lookup.pc = "query"
    /\ \/ LookupStep(NextTrack)
       \/ \E partial \in BOOLEAN :
             LookupStep([lookup EXCEPT !.pc = "enrichment", !.found = FALSE, !.partial = partial])
       \/ \E partial \in BOOLEAN :
             /\ ~LastFm \/ partial
             /\ LookupStep([lookup EXCEPT !.pc = "enrichment", !.found = TRUE, !.partial = partial])
       \/ \E partial \in BOOLEAN, moods \in SUBSET lookup.voc :
             /\ LastFm
             /\ LookupStep([lookup EXCEPT !.pc = "tags", !.found = TRUE, !.partial = partial,
                              !.moods = moods])

StoreAnalysis(x) ==
    analyses' = {y \in analyses : y.t # x.t \/ y.a # x.a} \cup {x}

(* What the write transaction of the catalog tags compares. *)
CatalogAnalysisFits(t) ==
    /\ src.lastfm
    /\ lookup.rev = revision
    /\ catalog_tag_source_signature(lookup.tracks[t], lookup.rev)
          = catalog_tag_source_signature(index[t], revision)

(* store_catalog_tags: when it is refused the result counts as partial. *)
StoreCatalogTags ==
    /\ lookup.pc = "tags"
    /\ IF CatalogAnalysisFits(Track)
       THEN /\ StoreAnalysis([t |-> Track, a |-> "catalog", moods |-> lookup.moods,
                  sig |-> catalog_tag_source_signature(lookup.tracks[Track], lookup.rev),
                  made |-> [src |-> lookup.src, voc |-> lookup.voc,
                            file |-> lookup.tracks[Track].file]])
            /\ lookup' = [lookup EXCEPT !.pc = "enrichment"]
       ELSE /\ lookup' = [lookup EXCEPT !.pc = "enrichment", !.partial = TRUE]
            /\ UNCHANGED analyses
    /\ UNCHANGED <<library, settings, revision, enrichments, reviews, manual, requests, bounds>>

EnrichmentFits(t) ==
    /\ lookup.rev = revision
    /\ cleanup_enrichment_source_signature(lookup.tracks[t])
          = cleanup_enrichment_source_signature(index[t])

(* A complete result is cached; when that is refused the lookup ends.  The  *)
(* stamp stands for the time and content of the answer.                     *)
StoreEnrichment ==
    /\ lookup.pc = "enrichment"
    /\ LET fits == EnrichmentFits(Track)
       IN /\ enrichments' =
                IF ~lookup.partial /\ fits
                THEN {e \in enrichments : e.t # Track} \cup
                     {[t |-> Track, rev |-> lookup.rev, found |-> lookup.found, stamp |-> bounds.lookups,
                       sig |-> cleanup_enrichment_source_signature(lookup.tracks[Track]),
                       lastfm |-> LastFm, made |-> [src |-> lookup.src, voc |-> lookup.voc]]}
                ELSE enrichments
          /\ lookup' = IF lookup.partial \/ fits
                       THEN NextTrack
                       ELSE NoLookup
    /\ UNCHANGED <<library, settings, revision, analyses, reviews, manual, requests, bounds>>

(* It ends with its tracks, or is cancelled, or stops with the process. *)
EndLookup ==
    /\ lookup.pc # "idle"
    /\ LookupStep(NoLookup)

-----------------------------------------------------------------------------
(* The model run: what a track is judged from is read in one step, the      *)
(* answer is stored in a later one.                                         *)

TaggerReads(t) ==
    /\ WithModel /\ tagger.pc = "idle"
    /\ tagger' = [pc |-> "answer", t |-> t, role |-> role, voc |-> vocabulary.tags,
                  sig |-> model_tag_source_signature(t, role, vocabulary.tags)]
    /\ UNCHANGED <<library, settings, evidence, reviews, manual, lookup, page, review, cleanup, bounds>>

(* store_model_analysis compares with the track, context and catalog claims *)
(* of now under the model and vocabulary of the run.                        *)
TaggerStores ==
    /\ tagger.pc = "answer"
    /\ IF tagger.sig = model_tag_source_signature(tagger.t, tagger.role, tagger.voc)
       THEN \E moods \in SUBSET tagger.voc :
               StoreAnalysis([t |-> tagger.t, a |-> "model", moods |-> moods, sig |-> tagger.sig,
                  made |-> [src |-> NoSources, voc |-> tagger.voc, file |-> tagger.sig.ctx]])
       ELSE UNCHANGED analyses
    /\ tagger' = NoTagger
    /\ UNCHANGED <<library, settings, revision, enrichments, reviews, manual, lookup, page, review,
                   cleanup, bounds>>

-----------------------------------------------------------------------------
(* Suggestions and their review. *)

(* view_for_track: the profiles that are current, the catalog's by the      *)
(* revision they carry.                                                     *)
Current(x) ==
    \/ x.a = "catalog" /\ x.sig = catalog_tag_source_signature(index[x.t], x.sig.rev)
    \/ x.a = "model" /\ x.sig = model_tag_source_signature(x.t, role, vocabulary.tags)

Suggestions ==
    UNION {{[t |-> x.t, a |-> x.a, tag |-> tag, sig |-> x.sig] : tag \in x.moods} :
              x \in {y \in analyses : Current(y)}}

LoadPage ==
    /\ page # Suggestions
    /\ page' = Suggestions
    /\ UNCHANGED <<library, settings, evidence, reviews, manual, lookup, tagger, review, cleanup, bounds>>

(* review_analysis: the model and the vocabulary are read first when a      *)
(* target is a suggestion of the model.                                     *)
StartReview(targets, decision) ==
    /\ review.pc = "idle" /\ targets # {}
    /\ review' = [pc |-> "commit", targets |-> targets, decision |-> decision,
                  guard |-> [role |-> role, voc |-> vocabulary.tags]]
    /\ UNCHANGED <<library, settings, evidence, reviews, manual, lookup, tagger, page, cleanup, bounds>>

(* Mutant: the model and the vocabulary are those read before the transaction. *)
GuardTrusted(target) ==
    \E x \in analyses :
       /\ x.t = target.t /\ x.a = target.a /\ x.sig = target.sig /\ target.tag \in x.moods
       /\ IF x.a = "catalog"
          THEN x.sig = catalog_tag_source_signature(index[x.t], revision)
          ELSE x.sig = model_tag_source_signature(x.t, review.guard.role, review.guard.voc)

(* What the transaction requires of a target: the profile is the one that   *)
(* was shown, its inputs are those of now, and it has the tag.              *)
Reviewable(target) ==
    \E x \in analyses :
       /\ x.t = target.t /\ x.a = target.a /\ x.sig = target.sig /\ target.tag \in x.moods
       /\ IF x.a = "catalog"
          THEN x.sig = catalog_tag_source_signature(index[x.t], revision)
          ELSE /\ review.guard = [role |-> role, voc |-> vocabulary.tags]
               /\ target.tag \in vocabulary.tags
               /\ x.sig = model_tag_source_signature(x.t, role, vocabulary.tags)

(* All new tags of a track are refused when together they exceed the limit. *)
Overflows(valid, t) ==
    Cardinality(manual[t]) +
       Cardinality({x.tag : x \in {y \in valid : y.t = t}} \ manual[t]) > Limit

CommitReview ==
    /\ review.pc = "commit"
    /\ LET accepts == review.decision = "accepted"
           valid == {x \in review.targets : Reviewable(x)}
           Refused(x) == accepts /\ x.tag \notin manual[x.t] /\ Overflows(valid, x.t)
           planned == {x \in valid : ~Refused(x)}
           Same(r, x) == r.t = x.t /\ r.a = x.a /\ r.tag = x.tag
           others == {r \in reviews : ~\E x \in planned : Same(r, x)}
           decided == {[t |-> x.t, a |-> x.a, tag |-> x.tag, sig |-> x.sig,
                        decision |-> review.decision] : x \in planned}
       IN /\ manual' = [t \in Tracks |->
                IF accepts THEN manual[t] \cup {x.tag : x \in {y \in planned : y.t = t}}
                ELSE manual[t]]
          /\ reviews' = others \cup (IF review.decision = "pending" THEN {} ELSE decided)
    /\ review' = NoReview
    /\ UNCHANGED <<library, settings, evidence, lookup, tagger, page, cleanup, bounds>>

-----------------------------------------------------------------------------
(* The library's own tags. *)

TagEdit ==
    /\ bounds.tags < MaxTagEdits
    /\ bounds' = [bounds EXCEPT !.tags = @ + 1]

PatchTags(t, add, remove) ==
    /\ TagEdit
    /\ add \cap remove = {}
    /\ LET after == (manual[t] \ remove) \cup add
       IN /\ Cardinality(after) <= Limit
          /\ manual' = [manual EXCEPT ![t] = after]
    /\ UNCHANGED <<library, settings, evidence, reviews, lookup, requests>>

Renamed(source, target) ==
    [t \in Tracks |-> IF source \in manual[t] THEN (manual[t] \ {source}) \cup {target}
                      ELSE manual[t]]
Usage == [tag \in Tags |-> Cardinality({t \in Tracks : tag \in manual[t]})]

RenameTag(source, target) ==
    /\ TagEdit
    /\ source # target /\ Usage[source] > 0
    /\ manual' = Renamed(source, target)
    /\ UNCHANGED <<library, settings, evidence, reviews, lookup, requests>>

(* A preview proposes tags in use that are not in the vocabulary for tags   *)
(* that are; it is bound to the use of the tags and to the vocabulary.      *)
PreviewCleanup(source, target) ==
    /\ cleanup.pc = "idle"
    /\ source \notin vocabulary.tags /\ target \in vocabulary.tags /\ Usage[source] > 0
    /\ cleanup' = [pc |-> "apply", source |-> source, target |-> target, usage |-> Usage,
                   voc |-> vocabulary.tags]
    /\ UNCHANGED <<library, settings, evidence, reviews, manual, lookup, tagger, page, review, bounds>>

CleanupFits == cleanup.usage = Usage /\ cleanup.voc = vocabulary.tags

ApplyCleanup ==
    /\ cleanup.pc = "apply"
    /\ manual' = IF CleanupFits THEN Renamed(cleanup.source, cleanup.target) ELSE manual
    /\ cleanup' = NoCleanup
    /\ UNCHANGED <<library, settings, evidence, reviews, lookup, tagger, page, review, bounds>>

-----------------------------------------------------------------------------
Settings ==
    \/ \E enabled \in BOOLEAN : SetSourceEnabled(enabled)
    \/ \E key \in {0, src.key + 1} : WriteCredential(key)
    \/ ResetCredentials
    \/ \E tags \in Vocabularies : ReplaceVocabulary(tags)
    \/ ChangeRole

Lookup ==
    \/ \E force \in BOOLEAN : StartLookup(force)
    \/ LookupSources \/ LookupSnapshot \/ LookupTrack \/ LookupAnswer
    \/ StoreCatalogTags \/ StoreEnrichment \/ EndLookup

Model == TaggerStores \/ \E t \in Tracks : TaggerReads(t) \/ StoreContext(t)

Review ==
    \/ LoadPage
    \/ \E targets \in SUBSET page, decision \in Decisions :
          StartReview(targets, decision)
    \/ CommitReview

Editing ==
    \/ \E t \in Tracks : Reindex(t)
    \/ \E t \in Tracks, add, remove \in SUBSET Tags : PatchTags(t, add, remove)
    \/ \E source, target \in Tags : RenameTag(source, target) \/ PreviewCleanup(source, target)
    \/ ApplyCleanup

Next == Settings \/ Lookup \/ Model \/ Review \/ Editing

Spec == Init /\ [][Next]_vars

-----------------------------------------------------------------------------
(* Every piece of catalog evidence that is stored, and every review of it,  *)
(* belongs to the revision in force: no worker brings back what a change of *)
(* a setting has deleted, however late it writes.                           *)
EvidenceRevision ==
    /\ \A e \in enrichments : e.rev = revision
    /\ \A x \in analyses : x.a = "catalog" => x.sig.rev = revision
    /\ \A r \in reviews : r.a = "catalog" => r.sig.rev = revision

(* Stored catalog evidence was made with the sources, the credential and    *)
(* the vocabulary that are in force now, also when a setting was changed    *)
(* and changed back, and when the vocabulary was edited while a lookup      *)
(* loaded it.                                                               *)
EvidenceMatchesSettings ==
    /\ \A e \in enrichments : e.made.src = src
    /\ \A x \in analyses : x.a = "catalog" =>
          x.made.src = src /\ x.made.voc = vocabulary.tags

(* Catalog evidence is of the revision and of the settings in force.        *)
EvidenceIsCurrent == EvidenceRevision /\ EvidenceMatchesSettings

(* A review accepts a tag only from a profile that was made under the       *)
(* vocabulary, the sources and the model that are in force when it commits, *)
(* however old the page and the request are.  The version of the file it    *)
(* describes is not part of the claim (tags.rs:997).                        *)
AcceptedIsCurrent ==
    [][\A t \in Tracks, tag \in Tags :
          (review.pc = "commit" /\ review' = NoReview /\ tag \in manual'[t] \ manual[t]) =>
             \E x \in analyses :
                /\ x.t = t /\ tag \in x.moods /\ x.sig.meta = index[t].meta
                /\ x.made.voc = vocabulary.tags
                /\ IF x.a = "catalog" THEN x.made.src = src ELSE x.sig.role = role]_vars

=============================================================================
