---------------------------- MODULE AutomaticRules --------------------------
(***************************************************************************)
(* The rule of an automatic playlist: which rows of the library it takes,  *)
(* in which order, and the signature of what it was resolved against       *)
(* (music-application playlists.rs).                                       *)
(*                                                                         *)
(* A library is a function from track ids to rows                          *)
(*   [path, bpm, tags, added]                                              *)
(* where paths are numbered in the order of their titles and a bpm of 0 is *)
(* an unknown one.  A rule is                                              *)
(*   [include, all, exclude, min, max, unknown, limit, order].             *)
(***************************************************************************)
EXTENDS Naturals, FiniteSets, SequencesExt

Unset == 0   \* a bpm, or a bound of one, that is None

\* AutomaticPlaylistRule::normalized: what a rule must satisfy to be used.
Normal(r) ==
  /\ r.include \cap r.exclude = {}
  /\ (r.min # Unset /\ r.max # Unset) => r.min <= r.max
  /\ r.limit \in 1..1000

Included(row, r) ==
  IF r.all THEN r.include \subseteq row.tags
  ELSE r.include = {} \/ r.include \cap row.tags # {}

InBounds(bpm, r) ==
  IF bpm = Unset THEN r.unknown
  ELSE /\ r.min # Unset => bpm >= r.min
       /\ r.max # Unset => bpm <= r.max

AutomaticMatch(row, r) ==
  /\ Included(row, r)
  /\ r.exclude \cap row.tags = {}
  /\ InBounds(row.bpm, r)

\* compare_bpm: a known bpm comes before an unknown one, whichever the direction.
BpmBefore(a, b, descending) ==
  /\ a # Unset
  /\ b = Unset \/ IF descending THEN a > b ELSE a < b

\* automatic_order, as "i strictly before j": the chosen key, the title, the id.
Before(lib, order, i, j) ==
  LET a == lib[i]  b == lib[j]
      title == a.path < b.path \/ (a.path = b.path /\ i < j)
      byKey(lt, gt) == lt \/ (~gt /\ title) IN
  CASE order = "title" -> title
    [] order = "newest" -> byKey(a.added > b.added, a.added < b.added)
    [] order = "bpm_ascending" -> byKey(BpmBefore(a.bpm, b.bpm, FALSE), BpmBefore(b.bpm, a.bpm, FALSE))
    [] order = "bpm_descending" -> byKey(BpmBefore(a.bpm, b.bpm, TRUE), BpmBefore(b.bpm, a.bpm, TRUE))

\* resolve_automatic_playlist: filter, sort, truncate.
Resolve(r, lib) ==
  LET matching == {i \in DOMAIN lib : AutomaticMatch(lib[i], r)}
      ordered == SetToSortSeq(matching, LAMBDA i, j : Before(lib, r.order, i, j)) IN
  SubSeq(ordered, 1, IF Len(ordered) < r.limit THEN Len(ordered) ELSE r.limit)

\* Mutant: only the evidence of the rows is signed, not the rule.
SignatureOfLibrary(r, lib) ==
  [rule |-> {}, rows |-> {<<i, lib[i].path, lib[i].bpm, lib[i].tags>> : i \in DOMAIN lib}]

\* automatic_source_signature: the digest covers the rule and, of every row of the
\* library, the id, the path, the title, the bpm and the tags; not added_at.
PlaylistSignature(r, lib) ==
  [rule |-> {r}, rows |-> {<<i, lib[i].path, lib[i].bpm, lib[i].tags>> : i \in DOMAIN lib}]
=============================================================================
