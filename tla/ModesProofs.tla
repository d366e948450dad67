---------------------------- MODULE ModesProofs -----------------------------
(***************************************************************************)
(* The modes: the coordinator that changes their documents under a journal *)
(* and can stop at every call, and the requests that name a preset, a      *)
(* playlist or a mode of its catalogs.                                     *)
(*                                                                         *)
(* Coordinator. ModesAreTrue speaks of the moments between mutations.      *)
(* Inductive is, for every step of the coordinator: the state its newest   *)
(* journal is in (Phased); that what the handler saw is the catalog of its *)
(* generation (SawIt); what the catalogs of the handlers and of the        *)
(* playback owner are (Shown); whose playlists are there (Listed); and for *)
(* the documents of the mode at work that each can be put back from the    *)
(* stage (Kept), how far the plan or the way back is (Going), and that the *)
(* stage ahead of the coordinator is untouched (Staged). Modes edited by   *)
(* hand since they were read are exempt, as the code's are. That the       *)
(* coordinator implements ModeStore follows with what was asked and        *)
(* permitted, and with the playlists (Promised).                           *)
(*                                                                         *)
(* Commands. A request is resolved against two published snapshots and     *)
(* sent to the playback owner with the generations it was resolved at; the *)
(* owner applies it only if both are still its own. ResolvedNow, that such *)
(* a command is the one the catalogs of this moment would give, is not     *)
(* inductive. Between the mode store and the owner a catalog is either     *)
(* equal or under way (ModesAgree); what a request holds is the catalog of *)
(* its generation as long as that is the newest (HoldsModes, HoldsIndex),  *)
(* which is worth something because an id is never used again (IndexKept); *)
(* and what it prepared follows from what it holds (Prepared).             *)
(***************************************************************************)
EXTENDS ModeMutation, CatalogCommands, FiniteSetTheorems, TLAPS

-----------------------------------------------------------------------------
(***************************************************************************)
(* The mode coordinator.                                                   *)
(***************************************************************************)

Bundle == [Docs -> Values]
ModeTrees == [dir : BOOLEAN, docs : Bundle, marker : Nat]
Stages == [cand : Bundle, back : Bundle, tree : ModeTrees]
Open == {"planned", "applying", "rolling_back"}
States == Open \union {"committed", "rolled_back", "failed"}
Entries == [m : Mutations, state : States, listed : BOOLEAN, existed : SUBSET Docs]
Catalogs == [gen : Nat, modes : [Modes -> Bundle]]
Requests == [m : Mutations, gen : Nat \ {0}, saw : Bundle]
Works == [at : Steps, i : Nat, live : BOOLEAN, fatal : BOOLEAN, bad : BOOLEAN, bundle : Bundle]
FileOps == {"put", "import", "delete"}

(* Where a document or a mode is not there, nothing of it is. *)
ModesTyped ==
  /\ disk \in [Modes -> ModeTrees] /\ \A m \in Modes : ~disk[m].dir => disk[m] = NoTree
  /\ stage \in Stages
  /\ journal \in Seq(Entries)
  /\ snapshot \in Catalogs /\ told \in Catalogs
  /\ asked = NoRequest \/ asked \in Requests
  /\ work \in Works
  /\ DOMAIN prior = {"of", "modes", "lists"} /\ prior.of \in Nat /\ prior.modes \in [Modes -> Bundle]
  /\ unread \subseteq Modes /\ disturbed \in BOOLEAN

-----------------------------------------------------------------------------
(* What the state of the newest journal is at a step of the coordinator.   *)
Applying == {"apply", "place", "check", "release", "data", "verify", "commit"}
RollingBack == {"roll_data", "roll_files", "restore", "roll_stage", "rolled", "mark_failed"}
Between == {"clean", "load", "idle", "staged"}
After == {"publish", "replace", "finish"}

(* Only the newest journal may be open, and its state is the one the step  *)
(* of the coordinator belongs to; prior is what the newest mutation found, *)
(* or the one being staged.                                                *)
Phased ==
  /\ \A k \in 1 .. j - 1 : journal[k].state \notin Open
  /\ work.at \in Applying \union RollingBack \union After \union {"planned", "roll"} => j > 0
  /\ work.at = "planned" => entry.state = "planned"
  /\ work.at \in Applying => entry.state = "applying" /\ work.live
  /\ work.at = "roll" => entry.state \in {"planned", "applying"}
  /\ work.at \in RollingBack => entry.state = "rolling_back"
  /\ work.at \in After => entry.state = "committed"
  /\ work.at \in Between => ~Unfinished
  /\ prior.of \in {j, j + 1}
  /\ work.at = "staged" => prior.of = j + 1

-----------------------------------------------------------------------------
(* What a handler asked for is what the snapshot shows as long as the      *)
(* generation is the same, and it stays so until the mutation is           *)
(* published.                                                              *)
SawIt ==
  /\ asked # NoRequest => asked.gen <= snapshot.gen
  /\ asked # NoRequest /\ asked.gen = snapshot.gen => asked.saw = snapshot.modes[asked.m.mode]
  /\ work.at = "staged" => asked # NoRequest /\ asked.gen = snapshot.gen
  /\ work.at \in Applying \union {"planned", "publish", "replace"} =>
       asked # NoRequest /\ asked.gen = snapshot.gen /\ asked.m = entry.m

(* The catalogs while a mutation is under way: the other modes are on the  *)
(* disk, and the one at work is what the mutation found.                   *)
Right(m) == snapshot.modes[m] = disk[m].docs
UnderWay ==
  \/ work.at \in Applying \union {"planned", "publish", "replace"}
  \/ work.live /\ work.at \in RollingBack \union {"roll"}
Restarting == work.at \in {"clean", "load"} \/ (~work.live /\ work.at \in RollingBack \union {"roll"})
Shown ==
  /\ Restarting => snapshot.gen = 0
  /\ work.at \in {"idle", "staged", "finish"} /\ snapshot.gen > 0 =>
       told = snapshot /\ \A m \in Modes \ unread : Right(m)
  /\ UnderWay /\ snapshot.gen > 0 =>
       /\ work.at # "replace" => told = snapshot
       /\ \A m \in Modes \ unread : m # mode => Right(m)
       /\ mode \notin unread => snapshot.modes[mode] = prior.modes[mode]
  /\ work.at = "replace" =>
       told = [gen |-> snapshot.gen + 1, modes |-> [snapshot.modes EXCEPT ![mode] = work.bundle]]

(* A playlist of an import is in the journal of it.                        *)
Listed ==
  /\ \A l \in lists : DOMAIN l = {"by", "mode", "name"} /\ l.by \in 0 .. j
  /\ \A l \in lists : l.by > 0 => journal[l.by].state # "rolled_back" /\ journal[l.by].listed
  /\ (work.at \in {"roll_files", "restore", "roll_stage"} /\ ~work.bad) \/ work.at = "rolled" =>
       \A l \in lists : l.by # j
  /\ work.at \in {"planned", "apply", "place", "check", "release", "data"} => \A l \in lists : l.by # j

-----------------------------------------------------------------------------
(* The documents of the mode at work: m is the mutation, ex what it found, *)
(* n its journal, p the documents it found, t the tree and s its stage.    *)
Slots(m) == {k \in DOMAIN Order : Order[k] \in DOMAIN m.docs}
NewTree(n, m) == [dir |-> TRUE, docs |-> Result(NoBundle, m), marker |-> n]

\* A document can be put back as it was.
Held(m, ex, p, t, s, d) ==
  IF d \in ex
  THEN /\ s.back[d] = "none" => t.docs[d] = p[d]
       /\ s.back[d] # "none" => s.back[d] = p[d] /\ t.docs[d] \in {"none", m.docs[d]}
  ELSE t.docs[d] = "none" \/ (t.docs[d] = m.docs[d] /\ s.cand[d] = "none")

FilesKept(m, ex, p, t, s, but) ==
  /\ \A d \in DOMAIN m.docs : d \notin but => Held(m, ex, p, t, s, d)
  /\ \A d \in Docs \ DOMAIN m.docs : t.docs[d] = p[d]

Kept(m, ex, n, p, t, s, but) ==
  /\ m.op \in FileOps => FilesKept(m, ex, p, t, s, but)
  /\ m.op = "delete_mode" => IF s.tree.dir THEN s.tree.docs = p /\ t = NoTree ELSE t.docs = p

(* How far the coordinator is.                                             *)
Going(w, m, ex, n, p, t, s) ==
  /\ Kept(m, ex, n, p, t, s, IF w.at = "release" THEN {Order[w.i]} ELSE {})
  /\ w.at = "planned" => t.docs = p
  /\ w.at = "release" => t.docs[Order[w.i]] = m.docs[Order[w.i]]
  /\ w.at \in {"apply", "place", "check", "release"} =>
       \A k \in Slots(m) : k < w.i => t.docs[Order[k]] = m.docs[Order[k]]
  /\ w.at \in {"data", "verify", "commit"} => t.docs = Result(p, m)
  /\ w.at = "commit" => w.bundle = Result(p, m)
  /\ w.at \in {"roll_files", "restore"} /\ m.op \in FileOps =>
       \A k \in Slots(m) : k > w.i => t.docs[Order[k]] = p[Order[k]]
  /\ w.at \in {"roll_stage", "rolled"} => t.docs = p

(* The stage ahead of the coordinator, which nobody else touches.          *)
Ahead(m, s, d) == s.back[d] = "none" /\ (m.op \in {"put", "import"} => s.cand[d] = m.docs[d])
Staged(w, m, ex, n, s) ==
  /\ w.at \in {"planned", "apply"} /\ m.op = "create_mode" => s.tree = NewTree(n, m)
  /\ w.at = "planned" => \A d \in DOMAIN m.docs : Ahead(m, s, d)
  /\ w.at \in {"apply", "place", "check", "release", "roll_files", "restore"} => w.i \in Slots(m)
  /\ w.at \in {"place", "check", "release", "restore"} => m.op \in {"put", "import"}
  /\ w.at = "apply" => Ahead(m, s, Order[w.i])
  /\ w.at \in {"apply", "place", "check", "release"} => \A k \in Slots(m) : k > w.i => Ahead(m, s, Order[k])
  /\ w.at = "place" => s.cand[Order[w.i]] = m.docs[Order[w.i]]
  /\ w.at \in {"place", "restore"} => Order[w.i] \in ex /\ s.back[Order[w.i]] # "none"
  /\ w.at = "release" => Order[w.i] \notin ex

(* What a mutation found fits it.                                          *)
Fits(m, p) ==
  /\ m.op = "delete" => \A d \in DOMAIN m.docs : p[d] # "none"
  /\ m.op = "create_mode" => p = NoBundle
Tracked(m) == m.mode \notin unread \/ ~disturbed

Documents ==
  Unfinished =>
    /\ prior.of = j
    /\ entry.existed = {d \in DOMAIN entry.m.docs : prior.modes[mode][d] # "none"}
    /\ Fits(entry.m, prior.modes[mode])
    /\ ~disturbed => \A m \in Modes \ {mode} : disk[m].docs = prior.modes[m]
    /\ Staged(work, entry.m, entry.existed, j, stage)
    /\ Tracked(entry.m) => Going(work, entry.m, entry.existed, j, prior.modes[mode], disk[mode], stage)

(* Before the journal is there. *)
Found ==
  work.at = "staged" =>
    /\ Fits(asked.m, prior.modes[asked.m.mode])
    /\ ~disturbed => Bundles = prior.modes
    /\ asked.m.mode \notin unread => prior.modes[asked.m.mode] = disk[asked.m.mode].docs
    /\ Tracked(asked.m) /\ asked.m.op = "create_mode" => disk[asked.m.mode] = NoTree
    /\ Tracked(asked.m) /\ asked.m.op = "delete_mode" => ~stage.tree.dir
    /\ asked.m.op = "create_mode" => stage.tree = NewTree(j + 1, asked.m)
    /\ \A d \in DOMAIN asked.m.docs : Ahead(asked.m, stage, d)

(* After the journal is closed, until the next mutation. *)
ClosedAs ==
  j > 0 /\ prior.of = j /\ ~disturbed =>
    /\ entry.state = "rolled_back" => Bundles = prior.modes
    /\ entry.state = "committed" => Bundles = [prior.modes EXCEPT ![mode] = Result(@, entry.m)]

(* The inductive invariant. *)
ModesIInv ==
  /\ ModesTyped /\ Phased /\ SawIt /\ Shown /\ Listed /\ Documents /\ Found /\ ClosedAs

-----------------------------------------------------------------------------
(* The mutations. *)
Shape(m) ==
  /\ m.op \in {"create_mode", "delete_mode", "put", "delete", "import"} /\ m.mode \in Modes /\ m.list \in BOOLEAN
  /\ m.docs \in [DOMAIN m.docs -> Values] /\ DOMAIN m.docs \subseteq Docs /\ DOMAIN m.docs # {}
  /\ m.op = "delete_mode" => m.docs = NoBundle
  /\ m.op = "delete" => \E d \in Docs : DOMAIN m.docs = {d} /\ m.docs[d] = "none"
  /\ m.op \in {"put", "import", "create_mode"} => \A d \in DOMAIN m.docs : m.docs[d] # "none"

(* What makes a Mutation well formed.                                      *)
LEMMA MutationOf ==
  ASSUME NEW op \in {"create_mode", "delete_mode", "put", "delete", "import"}, NEW x \in Modes, NEW ds,
         NEW c \in BOOLEAN, NEW list \in BOOLEAN,
         ds \in [DOMAIN ds -> Values], DOMAIN ds \subseteq Docs, DOMAIN ds # {},
         op = "delete_mode" => ds = NoBundle,
         op = "delete" => \E d \in Docs : DOMAIN ds = {d} /\ ds[d] = "none",
         op \in {"put", "import", "create_mode"} => \A d \in DOMAIN ds : ds[d] # "none"
  PROVE  Shape(Mutation(op, x, ds, c, list))
BY DEF Mutation, Shape

(* The documents of a mutation of one document.                            *)
LEMMA OneDoc ==
  ASSUME NEW v \in Values
  PROVE  /\ [manifest |-> v] \in [{"manifest"} -> Values] /\ DOMAIN [manifest |-> v] = {"manifest"} /\ [manifest |-> v]["manifest"] = v
         /\ [board |-> v] \in [{"board"} -> Values] /\ DOMAIN [board |-> v] = {"board"} /\ [board |-> v]["board"] = v
         /\ [preset |-> v] \in [{"preset"} -> Values] /\ DOMAIN [preset |-> v] = {"preset"} /\ [preset |-> v]["preset"] = v
OBVIOUS

(* Every mutation a handler can ask for is well formed (write.rs,          *)
(* build_mutation).                                                        *)
LEMMA MutationShape == ASSUME NEW m \in Mutations PROVE Shape(m)
<1>0. {"manifest", "board", "preset"} = Docs /\ {"none", "plain"} \subseteq Values
      /\ \A v \in Manifests \union Contents : v \in Values /\ v # "none"
  BY DEF Docs, Values, Manifests, Contents
<1>1. CASE m \in create_mode
  <2>1. PICK x \in Modes : m = Mutation("create_mode", x, [manifest |-> "plain"], TRUE, FALSE)
    BY <1>1 DEF create_mode
  <2>. QED  BY <1>0, <2>1, OneDoc, MutationOf
<1>2. CASE m \in delete_mode
  <2>1. PICK x \in Modes : m = Mutation("delete_mode", x, NoBundle, FALSE, FALSE)
    BY <1>2 DEF delete_mode
  <2>2. NoBundle \in [Docs -> Values] /\ DOMAIN NoBundle = Docs /\ Docs # {}
    BY <1>0 DEF NoBundle
  <2>. QED  BY <2>1, <2>2, MutationOf
<1>3. CASE m \in put_manifest
  <2>1. PICK x \in Modes, v \in Manifests : m = Mutation("put", x, [manifest |-> v], FALSE, FALSE)
    BY <1>3, SMT DEF put_manifest, Mutation
  <2>2. PICK ds : ds = [manifest |-> v]
    OBVIOUS
  <2>3. v \in Values /\ v # "none"
    BY <1>0
  <2>4. ds \in [{"manifest"} -> Values] /\ DOMAIN ds = {"manifest"} /\ ds["manifest"] = v
    BY <2>2, <2>3, OneDoc
  <2>5. m = Mutation("put", x, ds, FALSE, FALSE)
    BY <2>1, <2>2
  <2>. QED  BY <1>0, <2>3, <2>4, <2>5, MutationOf
<1>4a. CASE m \in create_soundboard
  <2>1. PICK x \in Modes, v \in Contents : m = Mutation("put", x, [board |-> v], TRUE, FALSE)
    BY <1>4a, SMT DEF create_soundboard, Mutation
  <2>2. PICK ds : ds = [board |-> v]
    OBVIOUS
  <2>3. v \in Values /\ v # "none"
    BY <1>0
  <2>4. ds \in [{"board"} -> Values] /\ DOMAIN ds = {"board"} /\ ds["board"] = v
    BY <2>2, <2>3, OneDoc
  <2>5. m = Mutation("put", x, ds, TRUE, FALSE)
    BY <2>1, <2>2
  <2>. QED  BY <1>0, <2>3, <2>4, <2>5, MutationOf
<1>4b. CASE m \in put_soundboard
  <2>1. PICK x \in Modes, v \in Contents : m = Mutation("put", x, [board |-> v], FALSE, FALSE)
    BY <1>4b, SMT DEF put_soundboard, Mutation
  <2>2. PICK ds : ds = [board |-> v]
    OBVIOUS
  <2>3. v \in Values /\ v # "none"
    BY <1>0
  <2>4. ds \in [{"board"} -> Values] /\ DOMAIN ds = {"board"} /\ ds["board"] = v
    BY <2>2, <2>3, OneDoc
  <2>5. m = Mutation("put", x, ds, FALSE, FALSE)
    BY <2>1, <2>2
  <2>. QED  BY <1>0, <2>3, <2>4, <2>5, MutationOf
<1>5a. CASE m \in create_preset
  <2>1. PICK x \in Modes, v \in Contents : m = Mutation("put", x, [preset |-> v], TRUE, FALSE)
    BY <1>5a, SMT DEF create_preset, Mutation
  <2>2. PICK ds : ds = [preset |-> v]
    OBVIOUS
  <2>3. v \in Values /\ v # "none"
    BY <1>0
  <2>4. ds \in [{"preset"} -> Values] /\ DOMAIN ds = {"preset"} /\ ds["preset"] = v
    BY <2>2, <2>3, OneDoc
  <2>5. m = Mutation("put", x, ds, TRUE, FALSE)
    BY <2>1, <2>2
  <2>. QED  BY <1>0, <2>3, <2>4, <2>5, MutationOf
<1>5b. CASE m \in update_preset
  <2>1. PICK x \in Modes, v \in Contents : m = Mutation("put", x, [preset |-> v], FALSE, FALSE)
    BY <1>5b, SMT DEF update_preset, Mutation
  <2>2. PICK ds : ds = [preset |-> v]
    OBVIOUS
  <2>3. v \in Values /\ v # "none"
    BY <1>0
  <2>4. ds \in [{"preset"} -> Values] /\ DOMAIN ds = {"preset"} /\ ds["preset"] = v
    BY <2>2, <2>3, OneDoc
  <2>5. m = Mutation("put", x, ds, FALSE, FALSE)
    BY <2>1, <2>2
  <2>. QED  BY <1>0, <2>3, <2>4, <2>5, MutationOf
<1>6. CASE m \in delete_soundboard
  <2>1. PICK x \in Modes : m = Mutation("delete", x, [board |-> "none"], FALSE, FALSE)
    BY <1>6 DEF delete_soundboard
  <2>. QED  BY <1>0, <2>1, OneDoc, MutationOf
<1>7. CASE m \in delete_preset
  <2>1. PICK x \in Modes : m = Mutation("delete", x, [preset |-> "none"], FALSE, FALSE)
    BY <1>7 DEF delete_preset
  <2>. QED  BY <1>0, <2>1, OneDoc, MutationOf
<1>8. CASE m \in build_mutation
  <2>1. PICK x \in Modes, v \in Manifests, list \in BOOLEAN, new \in {{}, {"board"}, {"board", "preset"}} :
          m = Mutation("import", x, [d \in {"manifest"} \union new |-> IF d = "manifest" THEN v ELSE "b"], TRUE, list)
    BY <1>8, SMT DEF build_mutation, Mutation
  <2> DEFINE ds == [d \in {"manifest"} \union new |-> IF d = "manifest" THEN v ELSE "b"]
  <2>2. DOMAIN ds = {"manifest"} \union new /\ new \subseteq Docs /\ \A d \in DOMAIN ds : ds[d] \in {v, "b"}
    BY <1>0
  <2>3. {v, "b"} \subseteq Values /\ "none" \notin {v, "b"}
    BY <1>0 DEF Contents
  <2>4. ds \in [DOMAIN ds -> Values] /\ DOMAIN ds \subseteq Docs /\ DOMAIN ds # {} /\ \A d \in DOMAIN ds : ds[d] # "none"
    BY <1>0, <2>2, <2>3
  <2> HIDE DEF ds
  <2>5. m = Mutation("import", x, ds, TRUE, list)
    BY <2>1 DEF ds
  <2>. QED  BY <2>4, <2>5, MutationOf
<1>. QED  BY <1>1, <1>2, <1>3, <1>4a, <1>4b, <1>5a, <1>5b, <1>6, <1>7, <1>8 DEF Mutations

(* The documents of a mode and their order in a plan.                      *)
LEMMA Three == DOMAIN Order = 1 .. 3 /\ Order[1] = "manifest" /\ Order[2] = "board" /\ Order[3] = "preset"
BY DEF Order

(* The places of a plan are those of its documents, each once.             *)
LEMMA Places ==
  ASSUME NEW m \in Mutations
  PROVE  /\ Slots(m) \subseteq 1 .. 3 /\ Slots(m) # {}
         /\ \A k \in Slots(m) : Order[k] \in DOMAIN m.docs /\ Order[k] \in Docs /\ k \in Nat
         /\ \A d \in DOMAIN m.docs : \E k \in Slots(m) : d = Order[k]
         /\ \A k, l \in Slots(m) : Order[k] = Order[l] => k = l
<1>1. DOMAIN m.docs \subseteq Docs /\ DOMAIN m.docs # {}
  BY MutationShape DEF Shape
<1>2. Slots(m) \subseteq 1 .. 3
  BY Three DEF Slots
<1>3. \A d \in DOMAIN m.docs : \E k \in Slots(m) : d = Order[k]
  BY <1>1, Three DEF Slots, Docs
<1>4. \A k, l \in 1 .. 3 : Order[k] = Order[l] => k = l
  BY Three, SMT
<1>. QED  BY <1>1, <1>2, <1>3, <1>4 DEF Slots

(* A set of places has a first and a last.                                 *)
LEMMA Firsts ==
  ASSUME NEW S \in SUBSET (1 .. 3), S # {}
  PROVE  /\ FirstOf(S) \in S /\ \A k \in S : FirstOf(S) <= k
         /\ LastOf(S) \in S /\ \A k \in S : k <= LastOf(S)
<1>0. /\ \A k \in S : k = 1 \/ k = 2 \/ k = 3
      /\ 1 \in S \/ 2 \in S \/ 3 \in S
  <2>1. PICK k \in S : TRUE
    BY Zenon
  <2>. QED  BY <2>1
<1>1. \E k \in S : \A l \in S : k <= l
  <2>1. CASE 1 \in S
    BY <1>0, <2>1
  <2>2. CASE 1 \notin S /\ 2 \in S
    BY <1>0, <2>2
  <2>3. CASE 1 \notin S /\ 2 \notin S
    BY <1>0, <2>3
  <2>. QED  BY <2>1, <2>2, <2>3
<1>2. \E k \in S : \A l \in S : l <= k
  <2>1. CASE 3 \in S
    BY <1>0, <2>1
  <2>2. CASE 3 \notin S /\ 2 \in S
    BY <1>0, <2>2
  <2>3. CASE 3 \notin S /\ 2 \notin S
    BY <1>0, <2>3
  <2>. QED  BY <2>1, <2>2, <2>3
<1>. QED  BY <1>1, <1>2 DEF FirstOf, LastOf

(* The writes of the journal are the places of its mutation                *)
(* (import_write_plan).                                                    *)
LEMMA WritesAre == Writes = Slots(entry.m)
BY DEF Writes, Slots

(* A document of a tree is set, the others stay.                           *)
LEMMA TreeSet ==
  ASSUME NEW t \in ModeTrees, NEW d \in Docs, NEW v \in Values
  PROVE  LET u == [t EXCEPT !.docs[d] = v]
         IN  /\ u \in ModeTrees /\ u.dir = t.dir /\ u.marker = t.marker
             /\ u.docs[d] = v /\ \A e \in Docs : e # d => u.docs[e] = t.docs[e]
BY DEF ModeTrees, Bundle

(* What is not there is well typed.                                        *)
LEMMA Empties ==
  /\ NoBundle \in Bundle /\ \A d \in Docs : NoBundle[d] = "none"
  /\ NoTree \in ModeTrees /\ ~NoTree.dir /\ NoTree.docs = NoBundle /\ NoTree.marker = 0
  /\ NoStage \in Stages /\ NoStage.cand = NoBundle /\ NoStage.back = NoBundle /\ NoStage.tree = NoTree
<1>1. NoBundle \in Bundle /\ \A d \in Docs : NoBundle[d] = "none"
  BY DEF NoBundle, Bundle, Values
<1>2. NoTree \in ModeTrees /\ ~NoTree.dir /\ NoTree.docs = NoBundle /\ NoTree.marker = 0
  BY <1>1 DEF NoTree, ModeTrees
<1>3. NoStage \in Stages /\ NoStage.cand = NoBundle /\ NoStage.back = NoBundle /\ NoStage.tree = NoTree
  BY <1>1, <1>2 DEF NoStage, Stages
<1>. QED  BY <1>1, <1>2, <1>3

(* What a mutation makes of the documents it finds, and the tree it        *)
(* creates.                                                                *)
LEMMA Results ==
  ASSUME NEW m \in Mutations, NEW b \in Bundle
  PROVE  /\ Result(b, m) \in Bundle
         /\ \A d \in DOMAIN m.docs : Result(b, m)[d] = m.docs[d]
         /\ \A d \in Docs \ DOMAIN m.docs : Result(b, m)[d] = b[d]
         /\ \A n \in Nat : NewTree(n, m) \in ModeTrees /\ NewTree(n, m).dir /\ NewTree(n, m).marker = n
                           /\ NewTree(n, m).docs = Result(NoBundle, m)
<1>1. Shape(m)
  BY MutationShape
<1>2. \A x \in Bundle : Result(x, m) \in Bundle
  BY <1>1 DEF Shape, Result, Bundle
<1>3. Result(NoBundle, m) \in Bundle
  BY <1>2, Empties
<1>4. \A n \in Nat : NewTree(n, m) \in ModeTrees /\ NewTree(n, m).dir /\ NewTree(n, m).marker = n
                           /\ NewTree(n, m).docs = Result(NoBundle, m)
  BY <1>3 DEF NewTree, ModeTrees
<1>5. /\ \A d \in DOMAIN m.docs : Result(b, m)[d] = m.docs[d]
      /\ \A d \in Docs \ DOMAIN m.docs : Result(b, m)[d] = b[d]
  BY <1>1 DEF Shape, Result
<1>. QED  BY <1>2, <1>4, <1>5

(* Two bundles with the same documents are the same.                       *)
LEMMA SameBundle ==
  ASSUME NEW b \in Bundle, NEW c \in Bundle, \A d \in Docs : b[d] = c[d]
  PROVE  b = c
BY DEF Bundle

-----------------------------------------------------------------------------
(* Where the coordinator only leaves, what can be put back stays so. *)
Leaving == {"off", "refused", "roll", "roll_data", "mark_failed"}

(* A coordinator that leaves asks nothing of the documents but that they   *)
(* can be put back.                                                        *)
LEMMA LeftGoing ==
  ASSUME NEW m, NEW ex, NEW n, NEW p, NEW t, NEW s, NEW w, w.at \in Leaving, Kept(m, ex, n, p, t, s, {})
  PROVE  Going(w, m, ex, n, p, t, s)
BY DEF Leaving, Going

(* A coordinator that leaves asks nothing of the stage.                    *)
LEMMA LeftStaged ==
  ASSUME NEW m, NEW ex, NEW n, NEW s, NEW w, w.at \in Leaving
  PROVE  Staged(w, m, ex, n, s)
BY DEF Leaving, Staged

(* One document of the mode and its stage change. *)
Only(d, t, s, t2, s2) ==
  /\ t2.dir = t.dir /\ s2.tree = s.tree
  /\ \A e \in Docs : e # d => t2.docs[e] = t.docs[e] /\ s2.back[e] = s.back[e] /\ s2.cand[e] = s.cand[e]

(* A change of one document leaves the others as they can be put back.     *)
LEMMA FilesMove ==
  ASSUME NEW m \in Mutations, NEW ex, NEW n, NEW p, NEW t, NEW s, NEW t2, NEW s2, NEW d \in DOMAIN m.docs,
         m.op \in FileOps, Kept(m, ex, n, p, t, s, {}) \/ Kept(m, ex, n, p, t, s, {d}), Only(d, t, s, t2, s2)
  PROVE  /\ Kept(m, ex, n, p, t2, s2, {d})
         /\ Held(m, ex, p, t2, s2, d) => Kept(m, ex, n, p, t2, s2, {})
<1>1. DOMAIN m.docs \subseteq Docs
  BY MutationShape DEF Shape
<1>2. m.op # "create_mode" /\ m.op # "delete_mode"
  BY DEF FileOps
<1>3. FilesKept(m, ex, p, t, s, {}) \/ FilesKept(m, ex, p, t, s, {d})
  BY DEF Kept
<1>4. FilesKept(m, ex, p, t2, s2, {d})
  <2>1. ASSUME NEW e \in DOMAIN m.docs, e # d PROVE Held(m, ex, p, t2, s2, e)
    <3>1. Held(m, ex, p, t, s, e)
      BY <1>3, <2>1 DEF FilesKept
    <3>2. t2.docs[e] = t.docs[e] /\ s2.back[e] = s.back[e] /\ s2.cand[e] = s.cand[e]
      BY <1>1, <2>1 DEF Only
    <3>. QED  BY <3>1, <3>2 DEF Held
  <2>2. ASSUME NEW e \in Docs \ DOMAIN m.docs PROVE t2.docs[e] = p[e]
    BY <1>3 DEF FilesKept, Only
  <2>. QED  BY <2>1, <2>2 DEF FilesKept
<1>5. ASSUME Held(m, ex, p, t2, s2, d) PROVE FilesKept(m, ex, p, t2, s2, {})
  BY <1>4, <1>5 DEF FilesKept
<1>. QED  BY <1>2, <1>4, <1>5 DEF Kept

(* A change of one document leaves the other places of the plan.           *)
LEMMA OtherSlots ==
  ASSUME NEW m \in Mutations, NEW i \in Slots(m), NEW t, NEW s, NEW t2, NEW s2, NEW d, d = Order[i],
         Only(d, t, s, t2, s2)
  PROVE  /\ \A k \in Slots(m) : k # i => /\ t2.docs[Order[k]] = t.docs[Order[k]]
                                         /\ Ahead(m, s, Order[k]) => Ahead(m, s2, Order[k])
         /\ d \in DOMAIN m.docs /\ d \in Docs
         /\ \A k \in Slots(m) : k < i \/ k > i \/ k = i
BY Places DEF Only, Ahead

(* The operations on files.                                                *)
LEMMA InFileOps == \A m : m.op \in {"put", "import"} \/ m.op = "delete" => m.op \in FileOps
BY DEF FileOps

(* When every place of the plan is written, the mode is what the mutation  *)
(* makes of it.                                                            *)
LEMMA AllWritten ==
  ASSUME NEW m \in Mutations, NEW ex, NEW n, NEW p \in Bundle, NEW t \in ModeTrees, NEW s, m.op \in FileOps,
         NEW but, Kept(m, ex, n, p, t, s, but), \A k \in Slots(m) : t.docs[Order[k]] = m.docs[Order[k]]
  PROVE  t.docs = Result(p, m)
<1>1. \A d \in DOMAIN m.docs : t.docs[d] = m.docs[d]
  BY Places
<1>2. \A d \in Docs \ DOMAIN m.docs : t.docs[d] = p[d]
  BY DEF Kept, FilesKept
<1>3. t.docs \in Bundle /\ Result(p, m) \in Bundle
  BY Results DEF ModeTrees
<1>. QED  BY <1>1, <1>2, <1>3, Results, SameBundle

(* When every place of the plan is undone, the mode is as it was found.    *)
LEMMA AllUndone ==
  ASSUME NEW m \in Mutations, NEW ex, NEW n, NEW p \in Bundle, NEW t \in ModeTrees, NEW s, m.op \in FileOps,
         Kept(m, ex, n, p, t, s, {}), \A k \in Slots(m) : t.docs[Order[k]] = p[Order[k]]
  PROVE  t.docs = p
<1>1. \A d \in DOMAIN m.docs : t.docs[d] = p[d]
  BY Places
<1>2. \A d \in Docs \ DOMAIN m.docs : t.docs[d] = p[d]
  BY DEF Kept, FilesKept
<1>3. t.docs \in Bundle
  BY DEF ModeTrees
<1>. QED  BY <1>1, <1>2, <1>3, SameBundle

-----------------------------------------------------------------------------
(* BackUp: the document found is in the stage, the mode has none.          *)
LEMMA BackUpGoing ==
  ASSUME NEW m \in Mutations, NEW ex, NEW n, NEW p \in Bundle, NEW t \in ModeTrees, NEW s \in Stages,
         NEW t2 \in ModeTrees, NEW s2 \in Stages, NEW w, NEW v, NEW d, d = Order[w.i],
         Only(d, t, s, t2, s2), t2.docs[d] = "none", s2.back[d] = t.docs[d], s2.cand[d] = s.cand[d],
         w.at = "apply", v.at = "place", v.i = w.i, m.op \in {"put", "import"}, d \in ex, t.docs[d] # "none",
         Staged(w, m, ex, n, s)
  PROVE  Staged(v, m, ex, n, s2) /\ (Going(w, m, ex, n, p, t, s) => Going(v, m, ex, n, p, t2, s2))
<1>1. w.i \in Slots(m) /\ Ahead(m, s, d) /\ \A k \in Slots(m) : k > w.i => Ahead(m, s, Order[k])
  BY DEF Staged
<1>2. /\ \A k \in Slots(m) : k # w.i => /\ t2.docs[Order[k]] = t.docs[Order[k]]
                                        /\ Ahead(m, s, Order[k]) => Ahead(m, s2, Order[k])
      /\ d \in DOMAIN m.docs /\ d \in Docs /\ \A k \in Slots(m) : k \in Nat
  <2>1. PICK i \in Slots(m) : i = w.i /\ d = Order[i]
    BY <1>1
  <2>2. \A k \in Slots(m) : k \in Nat
    BY Places
  <2>. QED  BY <2>1, <2>2, OtherSlots
<1>3. Staged(v, m, ex, n, s2)
  BY <1>1, <1>2 DEF Staged, Ahead
<1>4. ASSUME Going(w, m, ex, n, p, t, s) PROVE Going(v, m, ex, n, p, t2, s2)
  <2>1. Kept(m, ex, n, p, t, s, {}) /\ \A k \in Slots(m) : k < w.i => t.docs[Order[k]] = m.docs[Order[k]]
    BY <1>4 DEF Going
  <2>2. t.docs[d] = p[d]
    BY <1>1, <1>2, <2>1 DEF Kept, FilesKept, Held, FileOps, Ahead
  <2>3. Held(m, ex, p, t2, s2, d)
    BY <2>2 DEF Held
  <2>4. Kept(m, ex, n, p, t2, s2, {})
    BY <1>2, <2>1, <2>3, FilesMove, InFileOps
  <2>5. \A k \in Slots(m) : k < v.i => t2.docs[Order[k]] = m.docs[Order[k]]
    BY <1>1, <1>2, <2>1
  <2>. QED  BY <2>4, <2>5 DEF Going
<1>. QED  BY <1>3, <1>4

(* Place: the candidate is the document, the one found stays in the stage. *)
LEMMA PlaceGoing ==
  ASSUME NEW m \in Mutations, NEW ex, NEW n, NEW p \in Bundle, NEW t \in ModeTrees, NEW s \in Stages,
         NEW t2 \in ModeTrees, NEW s2 \in Stages, NEW w, NEW v, NEW d, d = Order[w.i],
         Only(d, t, s, t2, s2), t2.docs[d] = s.cand[d], s2.back[d] = s.back[d],
         w.at = "place", v.at = "check", v.i = w.i, Staged(w, m, ex, n, s)
  PROVE  Staged(v, m, ex, n, s2) /\ (Going(w, m, ex, n, p, t, s) => Going(v, m, ex, n, p, t2, s2))
<1>1. /\ w.i \in Slots(m) /\ m.op \in {"put", "import"} /\ \A k \in Slots(m) : k > w.i => Ahead(m, s, Order[k])
      /\ s.cand[d] = m.docs[d] /\ d \in ex /\ s.back[d] # "none"
  BY DEF Staged
<1>2. /\ \A k \in Slots(m) : k # w.i => /\ t2.docs[Order[k]] = t.docs[Order[k]]
                                        /\ Ahead(m, s, Order[k]) => Ahead(m, s2, Order[k])
      /\ d \in DOMAIN m.docs /\ d \in Docs /\ \A k \in Slots(m) : k \in Nat
  <2>1. PICK i \in Slots(m) : i = w.i /\ d = Order[i]
    BY <1>1
  <2>2. \A k \in Slots(m) : k \in Nat
    BY Places
  <2>. QED  BY <2>1, <2>2, OtherSlots
<1>3. Staged(v, m, ex, n, s2)
  BY <1>1, <1>2 DEF Staged
<1>4. ASSUME Going(w, m, ex, n, p, t, s) PROVE Going(v, m, ex, n, p, t2, s2)
  <2>1. Kept(m, ex, n, p, t, s, {}) /\ \A k \in Slots(m) : k < w.i => t.docs[Order[k]] = m.docs[Order[k]]
    BY <1>4 DEF Going
  <2>2. Held(m, ex, p, t2, s2, d)
    BY <1>1, <1>2, <2>1 DEF Kept, FilesKept, Held, FileOps
  <2>4. Kept(m, ex, n, p, t2, s2, {})
    BY <1>1, <1>2, <2>1, <2>2, FilesMove, InFileOps
  <2>5. \A k \in Slots(m) : k < v.i => t2.docs[Order[k]] = m.docs[Order[k]]
    BY <1>1, <1>2, <2>1
  <2>. QED  BY <2>4, <2>5 DEF Going
<1>. QED  BY <1>3, <1>4

(* Link: a document that was not there is, with the candidate still        *)
(* staged.                                                                 *)
LEMMA LinkGoing ==
  ASSUME NEW m \in Mutations, NEW ex, NEW n, NEW p \in Bundle, NEW t \in ModeTrees, NEW s \in Stages,
         NEW t2 \in ModeTrees, NEW w, NEW v, NEW d, d = Order[w.i],
         Only(d, t, s, t2, s), t2.docs[d] = m.docs[d],
         w.at = "apply", v.at = "release", v.i = w.i, m.op \in {"put", "import"}, d \notin ex, Staged(w, m, ex, n, s)
  PROVE  Staged(v, m, ex, n, s) /\ (Going(w, m, ex, n, p, t, s) => Going(v, m, ex, n, p, t2, s))
<1>1. w.i \in Slots(m) /\ \A k \in Slots(m) : k > w.i => Ahead(m, s, Order[k])
  BY DEF Staged
<1>2. /\ \A k \in Slots(m) : k # w.i => t2.docs[Order[k]] = t.docs[Order[k]]
      /\ d \in DOMAIN m.docs /\ d \in Docs /\ \A k \in Slots(m) : k \in Nat
  <2>1. PICK i \in Slots(m) : i = w.i /\ d = Order[i]
    BY <1>1
  <2>2. \A k \in Slots(m) : k \in Nat
    BY Places
  <2>3. \A k \in Slots(m) : k # i => t2.docs[Order[k]] = t.docs[Order[k]]
    BY <2>1, Places DEF Only
  <2>4. d \in DOMAIN m.docs /\ d \in Docs
    BY <2>1, Places
  <2>. QED  BY <2>1, <2>2, <2>3, <2>4
<1>3. Staged(v, m, ex, n, s)
  BY <1>1, <1>2 DEF Staged
<1>4. ASSUME Going(w, m, ex, n, p, t, s) PROVE Going(v, m, ex, n, p, t2, s)
  <2>1. Kept(m, ex, n, p, t, s, {}) /\ \A k \in Slots(m) : k < w.i => t.docs[Order[k]] = m.docs[Order[k]]
    BY <1>4 DEF Going
  <2>4. Kept(m, ex, n, p, t2, s, {d})
    BY <1>1, <1>2, <2>1, FilesMove, InFileOps
  <2>5. \A k \in Slots(m) : k < v.i => t2.docs[Order[k]] = m.docs[Order[k]]
    BY <1>1, <1>2, <2>1
  <2>. QED  BY <2>4, <2>5 DEF Going
<1>. QED  BY <1>3, <1>4

(* The next write, or none is left. *)
NextOf(w, v, m) ==
  LET rest == {k \in Slots(m) : k > w.i}
  IN  IF rest = {} THEN v.at = "data" /\ v.i = w.i ELSE v.at = "apply" /\ v.i = FirstOf(rest)

(* The next place of the plan has its candidate, or the plan is done.      *)
LEMMA NextStaged ==
  ASSUME NEW m \in Mutations, NEW ex, NEW n, NEW s, NEW w, NEW v,
         w.i \in Slots(m), NextOf(w, v, m), m.op \in {"put", "import"},
         \A k \in Slots(m) : k > w.i => Ahead(m, s, Order[k])
  PROVE  /\ Staged(v, m, ex, n, s)
         /\ \/ v.at = "data" /\ \A k \in Slots(m) : k <= w.i
            \/ v.at = "apply" /\ \A k \in Slots(m) : k < v.i => k <= w.i
<1> DEFINE rest == {k \in Slots(m) : k > w.i}
<1>1. rest \subseteq 1 .. 3 /\ \A k \in Slots(m) : k \in Nat
  BY Places
<1>2. CASE rest = {}
  <2>1. v.at = "data" /\ \A k \in Slots(m) : k <= w.i
    BY <1>1, <1>2 DEF NextOf
  <2>. QED  BY <2>1 DEF Staged
<1>3. CASE rest # {}
  <2>1. v.at = "apply" /\ v.i = FirstOf(rest)
    BY <1>3 DEF NextOf
  <2> HIDE DEF rest
  <2>2. v.i \in rest /\ \A k \in rest : v.i <= k
    BY <1>1, <1>3, <2>1, Firsts
  <2>3. /\ v.i \in Slots(m) /\ v.i > w.i /\ \A k \in Slots(m) : k < v.i => k <= w.i
        /\ \A k \in Slots(m) : k > v.i => k > w.i
    BY <1>1, <2>2 DEF rest
  <2>. QED  BY <2>1, <2>3 DEF Staged
<1>. QED  BY <1>2, <1>3

(* After the last place the mode is what the mutation makes of it.         *)
LEMMA NextGoing ==
  ASSUME NEW m \in Mutations, NEW ex, NEW n, NEW p \in Bundle, NEW t \in ModeTrees, NEW s, NEW w, NEW v,
         m.op \in {"put", "import"}, Kept(m, ex, n, p, t, s, {}),
         \A k \in Slots(m) : k <= w.i => t.docs[Order[k]] = m.docs[Order[k]],
         \/ v.at = "data" /\ \A k \in Slots(m) : k <= w.i
         \/ v.at = "apply" /\ \A k \in Slots(m) : k < v.i => k <= w.i
  PROVE  Going(v, m, ex, n, p, t, s)
<1>1. CASE v.at = "data" /\ \A k \in Slots(m) : k <= w.i
  <2>1. t.docs = Result(p, m)
    BY <1>1, AllWritten, InFileOps
  <2>. QED  BY <1>1, <2>1 DEF Going
<1>2. CASE v.at = "apply" /\ \A k \in Slots(m) : k < v.i => k <= w.i
  BY <1>2 DEF Going
<1>. QED  BY <1>1, <1>2

(* CheckHash: the document is the one of the mutation, and the plan goes   *)
(* on.                                                                     *)
LEMMA CheckGoing ==
  ASSUME NEW m \in Mutations, NEW ex, NEW n, NEW p \in Bundle, NEW t \in ModeTrees, NEW s \in Stages, NEW w, NEW v,
         w.at = "check", NextOf(w, v, m), t.docs[Order[w.i]] = m.docs[Order[w.i]], Staged(w, m, ex, n, s)
  PROVE  Staged(v, m, ex, n, s) /\ (Going(w, m, ex, n, p, t, s) => Going(v, m, ex, n, p, t, s))
<1>1. w.i \in Slots(m) /\ m.op \in {"put", "import"} /\ \A k \in Slots(m) : k > w.i => Ahead(m, s, Order[k])
  BY DEF Staged
<1>2. \A k \in Slots(m) : k \in Nat
  BY Places
<1>3. ASSUME Going(w, m, ex, n, p, t, s)
      PROVE  Kept(m, ex, n, p, t, s, {}) /\ \A k \in Slots(m) : k <= w.i => t.docs[Order[k]] = m.docs[Order[k]]
  <2>1. Kept(m, ex, n, p, t, s, {}) /\ \A k \in Slots(m) : k < w.i => t.docs[Order[k]] = m.docs[Order[k]]
    BY <1>3 DEF Going
  <2>2. \A k \in Slots(m) : k <= w.i => k < w.i \/ k = w.i
    BY <1>1, <1>2
  <2>. QED  BY <2>1, <2>2
<1>4. /\ Staged(v, m, ex, n, s)
      /\ \/ v.at = "data" /\ \A k \in Slots(m) : k <= w.i
         \/ v.at = "apply" /\ \A k \in Slots(m) : k < v.i => k <= w.i
  BY <1>1, NextStaged
<1>. QED  BY <1>1, <1>3, <1>4, NextGoing

(* Release: without its candidate a new document can be told from one that *)
(* was there.                                                              *)
LEMMA ReleaseGoing ==
  ASSUME NEW m \in Mutations, NEW ex, NEW n, NEW p \in Bundle, NEW t \in ModeTrees, NEW s \in Stages,
         NEW s2 \in Stages, NEW w, NEW v, NEW d, d = Order[w.i],
         Only(d, t, s, t, s2), s2.cand[d] = "none",
         w.at = "release", NextOf(w, v, m), Staged(w, m, ex, n, s)
  PROVE  Staged(v, m, ex, n, s2) /\ (Going(w, m, ex, n, p, t, s) => Going(v, m, ex, n, p, t, s2))
<1>1. /\ w.i \in Slots(m) /\ m.op \in {"put", "import"} /\ d \notin ex
      /\ \A k \in Slots(m) : k > w.i => Ahead(m, s, Order[k])
  BY DEF Staged
<1>2. \A k \in Slots(m) : k \in Nat
  BY Places
<1>4. \A k \in Slots(m) : k > w.i => Ahead(m, s2, Order[k])
  <2>1. PICK i \in Slots(m) : i = w.i /\ d = Order[i]
    BY <1>1
  <2>2. \A k \in Slots(m) : k # i => (Ahead(m, s, Order[k]) => Ahead(m, s2, Order[k]))
    BY <2>1, OtherSlots
  <2>. QED  BY <1>1, <1>2, <2>1, <2>2
<1>3. ASSUME Going(w, m, ex, n, p, t, s)
      PROVE  Kept(m, ex, n, p, t, s2, {}) /\ \A k \in Slots(m) : k <= w.i => t.docs[Order[k]] = m.docs[Order[k]]
  <2>1. /\ Kept(m, ex, n, p, t, s, {d}) /\ t.docs[d] = m.docs[d]
        /\ \A k \in Slots(m) : k < w.i => t.docs[Order[k]] = m.docs[Order[k]]
    BY <1>3 DEF Going
  <2>2. \A k \in Slots(m) : k <= w.i => k < w.i \/ k = w.i
    BY <1>1, <1>2
  <2>3. Held(m, ex, p, t, s2, d)
    BY <1>1, <2>1 DEF Held
  <2>4. d \in DOMAIN m.docs
    BY <1>1, Places
  <2>5. Kept(m, ex, n, p, t, s2, {})
    BY <1>1, <2>1, <2>3, <2>4, FilesMove, InFileOps
  <2>. QED  BY <2>1, <2>2, <2>5
<1>5. /\ Staged(v, m, ex, n, s2)
      /\ \/ v.at = "data" /\ \A k \in Slots(m) : k <= w.i
         \/ v.at = "apply" /\ \A k \in Slots(m) : k < v.i => k <= w.i
  BY <1>1, <1>4, NextStaged
<1>. QED  BY <1>1, <1>3, <1>5, NextGoing

-----------------------------------------------------------------------------
(* MoveAway: a document that is deleted is in the stage.                   *)
LEMMA AwayGoing ==
  ASSUME NEW m \in Mutations, NEW ex, NEW n, NEW p \in Bundle, NEW t \in ModeTrees, NEW s \in Stages,
         NEW t2 \in ModeTrees, NEW s2 \in Stages, NEW w, NEW v, NEW d, d = Order[w.i],
         Only(d, t, s, t2, s2), t2.docs[d] = "none", s2.back[d] = t.docs[d],
         w.at = "apply", v.at = "data", m.op = "delete", t.docs[d] # "none",
         Staged(w, m, ex, n, s), Fits(m, p), ex = {e \in DOMAIN m.docs : p[e] # "none"}
  PROVE  Staged(v, m, ex, n, s2) /\ (Going(w, m, ex, n, p, t, s) => Going(v, m, ex, n, p, t2, s2))
<1>1. w.i \in Slots(m) /\ Ahead(m, s, d)
  BY DEF Staged
<1>2. d \in DOMAIN m.docs /\ d \in Docs
  BY <1>1, Places
<1>3. DOMAIN m.docs = {d} /\ m.docs[d] = "none"
  BY <1>2, MutationShape DEF Shape
<1>4. Staged(v, m, ex, n, s2)
  BY DEF Staged
<1>5. ASSUME Going(w, m, ex, n, p, t, s) PROVE Going(v, m, ex, n, p, t2, s2)
  <2>1. Kept(m, ex, n, p, t, s, {}) /\ d \in ex
    BY <1>2, <1>5 DEF Going, Fits
  <2>2. t.docs[d] = p[d]
    BY <1>1, <1>2, <2>1 DEF Kept, FilesKept, Held, FileOps, Ahead
  <2>3. Held(m, ex, p, t2, s2, d)
    BY <2>2 DEF Held
  <2>4. Kept(m, ex, n, p, t2, s2, {})
    BY <1>2, <2>1, <2>3, FilesMove, InFileOps
  <2>5. \A k \in Slots(m) : t2.docs[Order[k]] = m.docs[Order[k]]
    BY <1>3, Places
  <2>6. t2.docs = Result(p, m)
    BY <2>4, <2>5, AllWritten, InFileOps
  <2>. QED  BY <2>4, <2>6 DEF Going
<1>. QED  BY <1>4, <1>5

(* PublishTree: the staged tree is the new mode.                           *)
LEMMA TreeGoing ==
  ASSUME NEW m \in Mutations, NEW ex, NEW n, NEW p \in Bundle, NEW t \in ModeTrees, NEW s \in Stages,
         NEW s2 \in Stages, NEW w, NEW v,
         w.at = "apply", v.at = "data", m.op = "create_mode", Staged(w, m, ex, n, s), Fits(m, p)
  PROVE  Staged(v, m, ex, n, s2) /\ (Going(w, m, ex, n, p, t, s) => Going(v, m, ex, n, p, s.tree, s2))
<1>1. s.tree = NewTree(n, m) /\ p = NoBundle
  BY DEF Staged, Fits
<1>2. NewTree(n, m).docs = Result(p, m)
  BY <1>1 DEF NewTree
<1>3. Kept(m, ex, n, p, NewTree(n, m), s2, {})
  BY DEF Kept, FileOps
<1>. QED  BY <1>1, <1>2, <1>3 DEF Going, Staged

(* MoveTreeAway: the tree of a deleted mode is in the stage.               *)
LEMMA TreeAwayGoing ==
  ASSUME NEW m \in Mutations, NEW ex, NEW n, NEW p \in Bundle, NEW t \in ModeTrees, NEW s \in Stages,
         NEW s2 \in Stages, NEW w, NEW v, t.dir, s2.tree = t, w.at = "apply", v.at = "data", m.op = "delete_mode"
  PROVE  Staged(v, m, ex, n, s2) /\ (Going(w, m, ex, n, p, t, s) => Going(v, m, ex, n, p, NoTree, s2))
<1>1. Staged(v, m, ex, n, s2)
  BY DEF Staged
<1>2. m.docs = NoBundle /\ DOMAIN NoBundle = Docs
  BY MutationShape DEF Shape, NoBundle
<1>3. NoTree.docs = Result(p, m)
  BY <1>2, Empties, Results, SameBundle
<1>4. ASSUME Going(w, m, ex, n, p, t, s) PROVE Going(v, m, ex, n, p, NoTree, s2)
  <2>1. Kept(m, ex, n, p, t, s, {})
    BY <1>4 DEF Going
  <2>2. ~NoTree.dir
    BY Empties
  <2>3. t.docs = p
    BY <2>1, <2>2 DEF Kept
  <2>4. Kept(m, ex, n, p, NoTree, s2, {})
    BY <2>3 DEF Kept, FileOps
  <2>. QED  BY <1>3, <2>4 DEF Going
<1>. QED  BY <1>1, <1>4

(* Verify: what is read back is what the mutation makes of the mode.       *)
LEMMA VerifyGoing ==
  ASSUME NEW m, NEW ex, NEW n, NEW p, NEW t, NEW s, NEW w, NEW v,
         w.at = "verify", v.at = "commit", v.bundle = t.docs
  PROVE  Staged(v, m, ex, n, s) /\ (Going(w, m, ex, n, p, t, s) => Going(v, m, ex, n, p, t, s))
BY DEF Staged, Going

-----------------------------------------------------------------------------
(* The way back. *)
PreviousOf(w, v, m) ==
  LET rest == {k \in Slots(m) : k < w.i}
  IN  IF rest = {} THEN v.at = "roll_stage" /\ v.i = w.i ELSE v.at = "roll_files" /\ v.i = LastOf(rest)

(* The place before, or the way back is done.                              *)
LEMMA PreviousStaged ==
  ASSUME NEW m \in Mutations, NEW ex, NEW n, NEW s, NEW w, NEW v, w.i \in Slots(m), PreviousOf(w, v, m)
  PROVE  /\ Staged(v, m, ex, n, s)
         /\ \/ v.at = "roll_stage" /\ \A k \in Slots(m) : k >= w.i
            \/ v.at = "roll_files" /\ \A k \in Slots(m) : k > v.i => k >= w.i
<1> DEFINE rest == {k \in Slots(m) : k < w.i}
<1>1. rest \subseteq 1 .. 3 /\ \A k \in Slots(m) : k \in Nat
  BY Places
<1>2. CASE rest = {}
  <2>1. v.at = "roll_stage" /\ \A k \in Slots(m) : k >= w.i
    BY <1>1, <1>2 DEF PreviousOf
  <2>. QED  BY <2>1 DEF Staged
<1>3. CASE rest # {}
  <2>1. v.at = "roll_files" /\ v.i = LastOf(rest)
    BY <1>3 DEF PreviousOf
  <2> HIDE DEF rest
  <2>2. v.i \in rest /\ \A k \in rest : k <= v.i
    BY <1>1, <1>3, <2>1, Firsts
  <2>3. v.i \in Slots(m) /\ \A k \in Slots(m) : k > v.i => k >= w.i
    BY <1>1, <2>2 DEF rest
  <2>. QED  BY <2>1, <2>3 DEF Staged
<1>. QED  BY <1>2, <1>3

(* After the first place of the plan the mode is as it was found.          *)
LEMMA PreviousGoing ==
  ASSUME NEW m \in Mutations, NEW ex, NEW n, NEW p \in Bundle, NEW t \in ModeTrees, NEW s, NEW w, NEW v,
         m.op \in FileOps, Kept(m, ex, n, p, t, s, {}),
         \A k \in Slots(m) : k >= w.i => t.docs[Order[k]] = p[Order[k]],
         \/ v.at = "roll_stage" /\ \A k \in Slots(m) : k >= w.i
         \/ v.at = "roll_files" /\ \A k \in Slots(m) : k > v.i => k >= w.i
  PROVE  Going(v, m, ex, n, p, t, s)
<1>1. CASE v.at = "roll_stage" /\ \A k \in Slots(m) : k >= w.i
  <2>1. t.docs = p
    BY <1>1, AllUndone
  <2>. QED  BY <1>1, <2>1 DEF Going
<1>2. CASE v.at = "roll_files" /\ \A k \in Slots(m) : k > v.i => k >= w.i
  BY <1>2 DEF Going
<1>. QED  BY <1>1, <1>2

(* The way back begins at the last place of the plan.                      *)
LEMMA BackStart ==
  ASSUME NEW m \in Mutations, NEW ex, NEW n, NEW p, NEW t, NEW s, NEW w, NEW v,
         w.at = "roll_data", v.at = "roll_files", v.i = LastOf(Slots(m))
  PROVE  Staged(v, m, ex, n, s) /\ (Going(w, m, ex, n, p, t, s) => Going(v, m, ex, n, p, t, s))
<1>1. v.i \in Slots(m) /\ \A k \in Slots(m) : ~(k > v.i)
  BY Places, Firsts
<1>2. Staged(v, m, ex, n, s)
  BY <1>1 DEF Staged
<1>3. ASSUME Going(w, m, ex, n, p, t, s) PROVE Going(v, m, ex, n, p, t, s)
  BY <1>1, <1>3 DEF Going
<1>. QED  BY <1>2, <1>3

(* A document is as it was found: the rollback goes on.                    *)
LEMMA StepBack ==
  ASSUME NEW m \in Mutations, NEW ex, NEW n, NEW p \in Bundle, NEW t \in ModeTrees, NEW s \in Stages,
         NEW t2 \in ModeTrees, NEW s2 \in Stages, NEW w, NEW v, NEW d, d = Order[w.i], w.i \in Slots(m),
         Only(d, t, s, t2, s2), m.op \in FileOps, w.at \in {"roll_files", "restore"}, Going(w, m, ex, n, p, t, s),
         Held(m, ex, p, t2, s2, d), t2.docs[d] = p[d],
         \/ v.at = "roll_stage" /\ \A k \in Slots(m) : k >= w.i
         \/ v.at = "roll_files" /\ \A k \in Slots(m) : k > v.i => k >= w.i
  PROVE  Going(v, m, ex, n, p, t2, s2)
<1>1. Kept(m, ex, n, p, t, s, {}) /\ \A k \in Slots(m) : k > w.i => t.docs[Order[k]] = p[Order[k]]
  BY DEF Going
<1>2. \A k \in Slots(m) : k >= w.i => k > w.i \/ k = w.i
  BY Places
<1>3. d \in DOMAIN m.docs /\ d \in Docs
  BY Places
<1>4. Kept(m, ex, n, p, t2, s2, {})
  BY <1>1, <1>3, FilesMove
<1>5. \A k \in Slots(m) : k > w.i => t2.docs[Order[k]] = t.docs[Order[k]]
  BY Places DEF Only
<1>6. \A k \in Slots(m) : k >= w.i => t2.docs[Order[k]] = p[Order[k]]
  BY <1>1, <1>2, <1>5
<1>. QED  BY <1>4, <1>6, PreviousGoing

(* RollBackReplaced: the replacement is gone, the document found still     *)
(* staged.                                                                 *)
LEMMA ReplacedGoing ==
  ASSUME NEW m \in Mutations, NEW ex, NEW n, NEW p \in Bundle, NEW t \in ModeTrees, NEW s \in Stages,
         NEW t2 \in ModeTrees, NEW w, NEW v, NEW d, d = Order[w.i],
         Only(d, t, s, t2, s), t2.docs[d] = "none", s.back[d] # "none", d \in ex,
         w.at = "roll_files", v.at = "restore", v.i = w.i, m.op \in {"put", "import"}, Staged(w, m, ex, n, s)
  PROVE  Staged(v, m, ex, n, s) /\ (Going(w, m, ex, n, p, t, s) => Going(v, m, ex, n, p, t2, s))
<1>1. w.i \in Slots(m)
  BY DEF Staged
<1>2. d \in DOMAIN m.docs /\ d \in Docs
  BY <1>1, Places
<1>3. Staged(v, m, ex, n, s)
  BY <1>1 DEF Staged
<1>4. ASSUME Going(w, m, ex, n, p, t, s) PROVE Going(v, m, ex, n, p, t2, s)
  <2>1. Kept(m, ex, n, p, t, s, {}) /\ \A k \in Slots(m) : k > w.i => t.docs[Order[k]] = p[Order[k]]
    BY <1>4, InFileOps DEF Going
  <2>2. Held(m, ex, p, t2, s, d)
    BY <1>2, <2>1 DEF Kept, FilesKept, Held, FileOps
  <2>3. Kept(m, ex, n, p, t2, s, {})
    BY <1>2, <2>1, <2>2, FilesMove, InFileOps
  <2>4. \A k \in Slots(m) : k > w.i => t2.docs[Order[k]] = t.docs[Order[k]]
    BY <1>1, Places DEF Only
  <2>5. \A k \in Slots(m) : k > v.i => t2.docs[Order[k]] = p[Order[k]]
    BY <2>1, <2>4
  <2>. QED  BY <2>3, <2>5 DEF Going
<1>. QED  BY <1>3, <1>4

(* RollBackTree: a created mode is gone.                                   *)
LEMMA TreeBack ==
  ASSUME NEW m \in Mutations, NEW ex, NEW n, NEW p, NEW s2, NEW v,
         v.at = "roll_stage", m.op = "create_mode", Fits(m, p)
  PROVE  Going(v, m, ex, n, p, NoTree, s2)
BY Empties DEF Going, Kept, Fits, FileOps

(* RestoreTree: the tree of a deleted mode is back, or was never away.     *)
LEMMA TreeBackAgain ==
  ASSUME NEW m \in Mutations, NEW ex, NEW n, NEW p, NEW t, NEW s, NEW t2, NEW s2, NEW w, NEW v,
         w.at = "roll_files", v.at = "roll_stage", m.op = "delete_mode", Going(w, m, ex, n, p, t, s),
         s2.tree = NoTree, t2 = IF s.tree.dir THEN s.tree ELSE t
  PROVE  Going(v, m, ex, n, p, t2, s2)
<1>1. Kept(m, ex, n, p, t, s, {})
  BY DEF Going
<1>2. t2.docs = p
  BY <1>1 DEF Kept
<1>3. Kept(m, ex, n, p, t2, s2, {})
  BY <1>2, Empties DEF Kept, FileOps
<1>. QED  BY <1>2, <1>3 DEF Going

(* RemoveStage: the stage is removed only once everything is as it was     *)
(* found.                                                                  *)
LEMMA StageGone ==
  ASSUME NEW m \in Mutations, NEW ex, NEW n \in Nat, NEW p \in Bundle, NEW t \in ModeTrees, NEW s, NEW w, NEW v,
         w.at = "roll_stage", v.at \in {"rolled", "mark_failed"}, Going(w, m, ex, n, p, t, s),
         ex = {e \in DOMAIN m.docs : p[e] # "none"}
  PROVE  Going(v, m, ex, n, p, t, NoStage)
<1>1. t.docs = p /\ Kept(m, ex, n, p, t, s, {})
  BY DEF Going
<1>2. DOMAIN m.docs \subseteq Docs
  BY MutationShape DEF Shape
<1>3. \A d \in DOMAIN m.docs : Held(m, ex, p, t, NoStage, d)
  BY <1>1, <1>2, Empties DEF Held
<1>4. m.op \in FileOps => FilesKept(m, ex, p, t, NoStage, {})
  BY <1>1, <1>3 DEF FilesKept
<1>5. ~NoStage.tree.dir
  BY Empties
<1>6. Kept(m, ex, n, p, t, NoStage, {})
  BY <1>1, <1>4, <1>5 DEF Kept
<1>. QED  BY <1>1, <1>6 DEF Going

-----------------------------------------------------------------------------
(* A step that leaves the journal leaves what is read from it.             *)
LEMMA JournalSame ==
  ASSUME UNCHANGED journal
  PROVE  j' = j /\ entry' = entry /\ mode' = mode /\ Unfinished' = Unfinished
BY DEF j, entry, mode, Unfinished

(* The newest journal and the mode it is about.                            *)
LEMMA EntryIs ==
  ASSUME ModesTyped, j > 0
  PROVE  /\ j \in Nat /\ entry \in Entries /\ entry.m \in Mutations /\ mode \in Modes /\ entry.m.mode = mode
         /\ disk[mode] \in ModeTrees /\ prior.modes[mode] \in Bundle /\ snapshot.modes[mode] \in Bundle
         /\ entry.state \in States /\ entry.listed \in BOOLEAN
<1>1. j \in Nat /\ entry \in Entries
  BY DEF ModesTyped, j, entry
<1>2. entry.m \in Mutations /\ entry.state \in States /\ entry.listed \in BOOLEAN
  BY <1>1 DEF Entries
<1>3. entry.m.mode \in Modes
  BY <1>2, MutationShape DEF Shape
<1>. QED  BY <1>1, <1>2, <1>3 DEF mode, ModesTyped, Catalogs

(* The coordinator goes on to another step and keeps the rest of its       *)
(* state.                                                                  *)
LEMMA GotoOf ==
  ASSUME ModesTyped, NEW goal \in Steps, Goto(goal)
  PROVE  /\ work' \in Works /\ work'.at = goal /\ work'.i = work.i /\ work'.live = work.live
         /\ work'.fatal = work.fatal /\ work'.bad = work.bad /\ work'.bundle = work.bundle
BY DEF ModesTyped, Goto, Works

(* The coordinator starts again with a fresh state.                        *)
LEMMA RestingOf ==
  ASSUME NEW goal \in Steps
  PROVE  /\ Resting(goal) \in Works /\ Resting(goal).at = goal /\ Resting(goal).i = 1 /\ Resting(goal).live = FALSE
         /\ Resting(goal).fatal = FALSE /\ Resting(goal).bad = FALSE
BY Empties DEF Resting, Works

(* The steps of the coordinator.                                           *)
LEMMA AllSteps ==
  /\ Applying \subseteq Steps /\ RollingBack \subseteq Steps /\ Between \subseteq Steps /\ After \subseteq Steps
  /\ Leaving \subseteq Steps /\ {"planned", "off", "refused"} \subseteq Steps
BY DEF Applying, RollingBack, Between, After, Leaving, Steps

-----------------------------------------------------------------------------
(* A step of the coordinator inside a mutation whose journal stays as it is. *)
Unlisted == {"planned", "apply", "place", "check", "release", "data"}
Cleared(w) == (w.at \in {"roll_files", "restore", "roll_stage"} /\ ~w.bad) \/ w.at = "rolled"
Quiet == UNCHANGED <<journal, lists, snapshot, told, asked, prior, unread, disturbed>>
Onward ==
  \/ /\ work.at \in Applying /\ work'.at \in Applying /\ work'.live = work.live
     /\ work'.at \in Unlisted => work.at \in Unlisted
  \/ work.at \in Applying /\ work'.at = "roll" /\ work'.live = work.live
  \/ /\ work.at \in RollingBack /\ work'.at \in RollingBack /\ work'.live = work.live
     /\ Cleared(work') => Cleared(work)
  \/ work'.at \in {"off", "refused"}

Inward ==
  \/ work.at \in Applying /\ work'.at \in Applying \union {"roll"} /\ work'.live = work.live
  \/ work.at \in RollingBack /\ work'.at \in RollingBack /\ work'.live = work.live
  \/ work'.at \in {"off", "refused"}
SameEntry ==
  /\ journal' \in Seq(Entries) /\ j' = j /\ mode' = mode
  /\ entry'.state = entry.state /\ entry'.m = entry.m /\ entry'.existed = entry.existed
  /\ \A k \in 1 .. j - 1 : journal'[k] = journal[k]

(* A step inside a mutation keeps the invariant if the documents and the   *)
(* stage do.                                                               *)
LEMMA InnerStep ==
  ASSUME ModesIInv, Unfinished, SameEntry, UNCHANGED <<snapshot, told, asked, prior, unread, disturbed>>, Inward, Listed',
         disk' \in [Modes -> ModeTrees], \A m \in Modes : m # mode => disk'[m] = disk[m],
         ~disk'[mode].dir => disk'[mode] = NoTree,
         stage' \in Stages, work' \in Works,
         Staged(work', entry.m, entry.existed, j, stage'),
         Tracked(entry.m) => Going(work', entry.m, entry.existed, j, prior.modes[mode], disk'[mode], stage')
  PROVE  ModesIInv'
<1>1. j > 0 /\ entry.state \in Open /\ prior' = prior /\ disturbed' = disturbed /\ unread' = unread
      /\ snapshot' = snapshot /\ told' = told /\ asked' = asked
  BY DEF Unfinished, Open
<1>2. j' = j /\ entry'.state = entry.state /\ entry'.m = entry.m /\ entry'.existed = entry.existed /\ mode' = mode
      /\ Unfinished' = Unfinished
  BY DEF SameEntry, Unfinished
<1>3. ModesTyped /\ mode \in Modes /\ j \in Nat
  BY <1>1, EntryIs DEF ModesIInv
<1>4. ModesTyped'
  <2>1. \A m \in Modes : ~disk'[m].dir => disk'[m] = NoTree
    BY <1>3 DEF ModesTyped
  <2>. QED  BY <1>1, <1>3, <2>1 DEF ModesTyped, SameEntry
<1>5. Phased'
  <2>1. \A k \in 1 .. j' - 1 : journal'[k].state \notin Open
    BY <1>2 DEF ModesIInv, Phased, SameEntry
  <2>2. work.at \in Applying => work.live
    BY DEF ModesIInv, Phased
  <2>. QED  BY <1>1, <1>2, <2>1, <2>2 DEF ModesIInv, Phased, Inward, Applying, RollingBack, Between, After, Open
<1>6. SawIt'
  BY <1>1, <1>2 DEF ModesIInv, SawIt, Inward, Applying, RollingBack
<1>7. Shown'
  <2>1. UnderWay' => UnderWay /\ work.at # "replace" /\ work'.at # "replace"
    BY DEF Inward, UnderWay, Applying, RollingBack
  <2>2. work'.at \notin {"idle", "staged", "finish", "replace"}
    BY DEF Inward, Applying, RollingBack
  <2>3. \A m \in Modes : m # mode => (Right(m) => snapshot'.modes[m] = disk'[m].docs)
    BY <1>1 DEF Right
  <2>4. ASSUME UnderWay', snapshot'.gen > 0
        PROVE /\ told' = snapshot'
              /\ \A m \in Modes \ unread' : m # mode' => snapshot'.modes[m] = disk'[m].docs
              /\ mode' \notin unread' => snapshot'.modes[mode'] = prior'.modes[mode']
    BY <1>1, <1>2, <2>1, <2>3, <2>4 DEF ModesIInv, Shown
  <2>5. Restarting' => Restarting
    <3>1. work.at \in Applying => work.live
      BY DEF ModesIInv, Phased
    <3>. QED  BY <3>1 DEF Inward, Restarting, Applying, RollingBack
  <2>6. Restarting' => snapshot'.gen = 0
    BY <1>1, <2>5 DEF ModesIInv, Shown
  <2>. QED  BY <1>1, <1>2, <2>2, <2>4, <2>6 DEF Shown, Right
<1>9. Documents'
  <2>1. Tracked(entry.m)' = Tracked(entry.m)
    BY <1>1, <1>2 DEF Tracked
  <2>2. /\ prior.of = j
        /\ entry.existed = {d \in DOMAIN entry.m.docs : prior.modes[mode][d] # "none"}
        /\ Fits(entry.m, prior.modes[mode])
        /\ ~disturbed => \A m \in Modes \ {mode} : disk[m].docs = prior.modes[m]
    BY DEF ModesIInv, Documents
  <2>3. ~disturbed' => \A m \in Modes \ {mode} : disk'[m].docs = prior'.modes[m]
    BY <1>1, <2>2
  <2>. QED  BY <1>1, <1>2, <2>1, <2>2, <2>3 DEF Documents
<1>10. Found'
  BY DEF Inward, Found, Applying, RollingBack
<1>11. ClosedAs'
  BY <1>1, <1>2 DEF ClosedAs, Open
<1>. QED  BY <1>4, <1>5, <1>6, <1>7, <1>9, <1>10, <1>11 DEF ModesIInv

(* The same for a step that leaves the journal and the playlists.          *)
LEMMA FileStep ==
  ASSUME ModesIInv, Unfinished, Quiet, Onward,
         disk' \in [Modes -> ModeTrees], \A m \in Modes : m # mode => disk'[m] = disk[m],
         ~disk'[mode].dir => disk'[mode] = NoTree,
         stage' \in Stages, work' \in Works,
         Staged(work', entry.m, entry.existed, j, stage'),
         Tracked(entry.m) => Going(work', entry.m, entry.existed, j, prior.modes[mode], disk'[mode], stage')
  PROVE  ModesIInv'
<1>1. UNCHANGED journal /\ lists' = lists /\ UNCHANGED <<snapshot, told, asked, prior, unread, disturbed>>
  BY DEF Quiet
<1>2. SameEntry
  <2>1. journal \in Seq(Entries)
    BY DEF ModesIInv, ModesTyped
  <2>. QED  BY <1>1, <2>1, JournalSame DEF SameEntry
<1>3. Inward
  BY DEF Onward, Inward
<1>4. Listed'
  <2>1. Listed /\ lists' = lists /\ j' = j /\ journal' = journal
    BY <1>1, JournalSame DEF ModesIInv
  <2>2. work'.at \in Unlisted => work.at \in Unlisted
    BY DEF Onward, Unlisted, Applying, RollingBack
  <2>3. Cleared(work') => Cleared(work)
    BY DEF Onward, Cleared, Applying, RollingBack
  <2>. QED  BY <2>1, <2>2, <2>3 DEF Listed, Unlisted, Cleared
<1>. QED  BY <1>1, <1>2, <1>3, <1>4, InnerStep

(* A call that fails leaves the documents and the stage as they are.       *)
LEMMA FailStep ==
  ASSUME ModesIInv, Unfinished, Quiet, UNCHANGED <<disk, stage>>, Onward, work' \in Works, work'.at \in Leaving,
         work.at # "release"
  PROVE  ModesIInv'
<1>1. j > 0 /\ ModesTyped
  BY DEF ModesIInv, Unfinished
<1>2. mode \in Modes /\ disk \in [Modes -> ModeTrees] /\ stage \in Stages /\ \A m \in Modes : ~disk[m].dir => disk[m] = NoTree
  BY <1>1, EntryIs DEF ModesTyped
<1>3. Staged(work', entry.m, entry.existed, j, stage)
  BY LeftStaged
<1>4. ASSUME Tracked(entry.m)
      PROVE  Going(work', entry.m, entry.existed, j, prior.modes[mode], disk[mode], stage)
  <2>1. Kept(entry.m, entry.existed, j, prior.modes[mode], disk[mode], stage, {})
    BY <1>4 DEF ModesIInv, Documents, Going
  <2>. QED  BY <2>1, LeftGoing
<1>. QED  BY <1>2, <1>3, <1>4, FileStep

(* At these steps a journal is open.                                       *)
LEMMA Opened ==
  ASSUME ModesIInv, work.at \in Applying \union RollingBack \union {"planned", "roll"}
  PROVE  Unfinished /\ j > 0 /\ ModesTyped
BY DEF ModesIInv, Phased, Unfinished, Applying, RollingBack

Still == UNCHANGED <<lists, snapshot, told, asked, prior, unread, disturbed>>

(* An error while applying leads to the rollback (perform_mutation).       *)
LEMMA Retreats ==
  ASSUME ModesIInv, work.at \in Applying \ {"release"}, Retreat, Still, UNCHANGED <<disk, stage>>
  PROVE  ModesIInv'
<1>1. Unfinished /\ ModesTyped
  BY Opened
<1>2. work' \in Works /\ work'.at = "roll" /\ work'.live = work.live
  BY <1>1, GotoOf, AllSteps DEF Retreat, Leaving
<1>3. Quiet
  BY DEF Quiet, Still, Retreat
<1>4. Onward /\ work'.at \in Leaving
  BY <1>2 DEF Onward, Leaving
<1>. QED  BY <1>1, <1>2, <1>3, <1>4, FailStep

(* An error while rolling back leaves the journal to the next start        *)
(* (rollback_mode_mutation).                                               *)
LEMMA GivesUp ==
  ASSUME ModesIInv, work.at \in RollingBack, GiveUp, Still, UNCHANGED <<disk, stage>>
  PROVE  ModesIInv'
<1>1. Unfinished /\ ModesTyped
  BY Opened
<1>2. work' \in Works /\ (work'.at = "refused" \/ (work'.at = "mark_failed" /\ work'.live = work.live))
  <2>1. CASE work.live
    BY <1>1, <2>1, GotoOf, AllSteps DEF GiveUp, Goto, Leaving
  <2>2. CASE ~work.live
    BY <1>1, <2>2, RestingOf, AllSteps DEF GiveUp
  <2>. QED  BY <2>1, <2>2
<1>3. Quiet
  BY DEF Quiet, Still, GiveUp
<1>4. Onward /\ work'.at \in Leaving
  BY <1>2 DEF Onward, Leaving, Cleared, RollingBack
<1>5. work.at # "release"
  BY DEF RollingBack
<1>. QED  BY <1>1, <1>2, <1>3, <1>4, <1>5, FailStep

(* A step that leaves journal and playlists as they are and goes somewhere *)
(* else.                                                                   *)
LEMMA ListedElsewhere ==
  ASSUME Listed, UNCHANGED <<journal, lists>>, work'.at \in {"roll", "off", "idle", "refused", "mark_failed"}
  PROVE  Listed'
BY JournalSame DEF Listed

-----------------------------------------------------------------------------
(* The document at work. *)
AtFile == {"apply", "place", "check", "release", "roll_files", "restore"}

(* What the invariant says of the document at work.                        *)
LEMMA Here ==
  ASSUME ModesIInv, work.at \in AtFile
  PROVE  /\ Unfinished /\ j > 0 /\ j \in Nat /\ ModesTyped /\ entry.m \in Mutations /\ mode \in Modes
         /\ doc \in Docs /\ doc \in DOMAIN entry.m.docs /\ doc = Order[work.i] /\ work.i \in Slots(entry.m)
         /\ Staged(work, entry.m, entry.existed, j, stage)
         /\ disk[mode] \in ModeTrees /\ stage \in Stages /\ prior.modes[mode] \in Bundle
         /\ Target \in Values /\ stage.back[doc] \in Values /\ stage.cand[doc] \in Values
         /\ entry.m.docs[doc] \in Values
         /\ Fits(entry.m, prior.modes[mode])
         /\ entry.existed = {d \in DOMAIN entry.m.docs : prior.modes[mode][d] # "none"}
         /\ Tracked(entry.m) => Going(work, entry.m, entry.existed, j, prior.modes[mode], disk[mode], stage)
         /\ work \in Works
<1>1. Unfinished /\ j > 0 /\ ModesTyped
  BY Opened DEF AtFile, Applying, RollingBack
<1>2. /\ j \in Nat /\ entry.m \in Mutations /\ mode \in Modes /\ disk[mode] \in ModeTrees /\ prior.modes[mode] \in Bundle
      /\ stage \in Stages /\ work \in Works
  BY <1>1, EntryIs DEF ModesTyped
<1>3. /\ Staged(work, entry.m, entry.existed, j, stage) /\ Fits(entry.m, prior.modes[mode])
      /\ entry.existed = {d \in DOMAIN entry.m.docs : prior.modes[mode][d] # "none"}
      /\ Tracked(entry.m) => Going(work, entry.m, entry.existed, j, prior.modes[mode], disk[mode], stage)
  BY <1>1 DEF ModesIInv, Documents
<1>4. work.i \in Slots(entry.m) /\ doc = Order[work.i]
  BY <1>3 DEF Staged, AtFile, doc
<1>5. doc \in DOMAIN entry.m.docs /\ doc \in Docs
  BY <1>2, <1>4, Places
<1>6. entry.m.docs[doc] \in Values
  BY <1>2, <1>5, MutationShape DEF Shape
<1>7. Target \in Values /\ stage.back[doc] \in Values /\ stage.cand[doc] \in Values
  BY <1>2, <1>5 DEF Target, ModeTrees, Stages, Bundle
<1>. QED  BY <1>1, <1>2, <1>3, <1>4, <1>5, <1>6, <1>7

(* A document of the mode at work is written or removed.                   *)
LEMMA DiskSet ==
  ASSUME ModesTyped, mode \in Modes, doc \in Docs, NEW v \in Values, disk' = SetDoc(v), disk[mode].dir \/ v = "none"
  PROVE  /\ disk' \in [Modes -> ModeTrees] /\ \A m \in Modes : m # mode => disk'[m] = disk[m]
         /\ disk'[mode] \in ModeTrees /\ disk'[mode].dir = disk[mode].dir
         /\ disk'[mode].docs[doc] = v /\ \A e \in Docs : e # doc => disk'[mode].docs[e] = disk[mode].docs[e]
         /\ ~disk'[mode].dir => disk'[mode] = NoTree
<1>1. disk[mode] \in ModeTrees /\ disk \in [Modes -> ModeTrees] /\ (~disk[mode].dir => disk[mode] = NoTree)
  BY DEF ModesTyped
<1> DEFINE u == [disk[mode] EXCEPT !.docs[doc] = v]
<1>2. /\ u \in ModeTrees /\ u.dir = disk[mode].dir /\ u.marker = disk[mode].marker /\ u.docs[doc] = v
      /\ \A e \in Docs : e # doc => u.docs[e] = disk[mode].docs[e]
  BY <1>1, TreeSet
<1>3. disk' = [disk EXCEPT ![mode] = u]
  BY <1>1 DEF SetDoc
<1> HIDE DEF u
<1>4. disk' \in [Modes -> ModeTrees] /\ disk'[mode] = u /\ \A m \in Modes : m # mode => disk'[m] = disk[m]
  BY <1>1, <1>2, <1>3
<1>5. ASSUME ~u.dir PROVE u = NoTree
  <2>1. disk[mode] = NoTree /\ v = "none"
    BY <1>1, <1>2, <1>5
  <2>2. u.docs = NoBundle
    <3>1. u.docs \in Bundle
      BY <1>2 DEF ModeTrees
    <3>2. \A e \in Docs : u.docs[e] = NoBundle[e]
      BY <1>2, <2>1, Empties
    <3>. QED  BY <3>1, <3>2, Empties, SameBundle
  <2>. QED  BY <1>2, <1>5, <2>1, <2>2, Empties DEF ModeTrees, NoTree
<1>. QED  BY <1>2, <1>4, <1>5

(* The same document of the disk and of the stage, as Only says.           *)
LEMMA OnlyHere ==
  ASSUME NEW t, NEW s, NEW t2, NEW s2, NEW d, t2.dir = t.dir, s2.tree = s.tree,
         \A e \in Docs : e # d => t2.docs[e] = t.docs[e],
         \A e \in Docs : e # d => s2.back[e] = s.back[e],
         \A e \in Docs : e # d => s2.cand[e] = s.cand[e]
  PROVE  Only(d, t, s, t2, s2)
BY DEF Only

(* The disk stays.                                                         *)
LEMMA DiskSame ==
  ASSUME ModesTyped, UNCHANGED disk, mode \in Modes
  PROVE  /\ disk' \in [Modes -> ModeTrees] /\ \A m \in Modes : m # mode => disk'[m] = disk[m]
         /\ ~disk'[mode].dir => disk'[mode] = NoTree
BY DEF ModesTyped

(* A backup of a document is set or taken.                                 *)
LEMMA Backed ==
  ASSUME NEW s \in Stages, NEW d \in Docs, NEW v \in Values, NEW u, u = [s EXCEPT !.back[d] = v]
  PROVE  /\ u \in Stages /\ u.tree = s.tree /\ u.back[d] = v /\ \A e \in Docs : u.cand[e] = s.cand[e]
         /\ \A e \in Docs : e # d => u.back[e] = s.back[e]
BY DEF Stages, Bundle

(* The candidate of a document is set or taken.                            *)
LEMMA Taken ==
  ASSUME NEW s \in Stages, NEW d \in Docs, NEW v \in Values, NEW u, u = [s EXCEPT !.cand[d] = v]
  PROVE  /\ u \in Stages /\ u.tree = s.tree /\ u.cand[d] = v /\ \A e \in Docs : u.back[e] = s.back[e]
         /\ \A e \in Docs : e # d => u.cand[e] = s.cand[e]
BY DEF Stages, Bundle

(* A document may be missing.                                              *)
LEMMA None == "none" \in Values
BY DEF Values

(* The names of the steps, for a step that leads from one to another.      *)
LEMMA Moving ==
  /\ {"apply", "place", "check", "release", "data", "verify", "commit", "roll_files", "restore", "roll_stage", "rolled",
      "mark_failed", "publish", "replace", "finish", "roll", "roll_data", "staged", "planned", "load", "idle", "clean",
      "off", "refused"} \subseteq Steps
  /\ {"apply", "place", "check", "release"} \subseteq AtFile /\ {"roll_files", "restore"} \subseteq AtFile
BY DEF Steps, AtFile

-----------------------------------------------------------------------------
(* The old document is moved to the stage (apply_file_write).              *)
LEMMA BackUpKeeps == ASSUME ModesIInv, BackUp PROVE ModesIInv'
<1>1. /\ work.at = "apply" /\ Writing /\ doc \in entry.existed
      /\ UNCHANGED <<snapshot, told, asked, prior, unread, disturbed>>
      /\ \/ /\ Target # "none" /\ disk' = SetDoc("none") /\ stage' = [stage EXCEPT !.back[doc] = Target]
            /\ Goto("place") /\ UNCHANGED <<journal, lists>>
         \/ Retreat /\ UNCHANGED <<disk, stage, lists>>
  BY DEF BackUp, Within, Call, catalogs, history
<1>2. CASE Retreat /\ UNCHANGED <<disk, stage, lists>>
  BY <1>1, <1>2, Retreats DEF Still, Applying
<1>3. CASE /\ Target # "none" /\ disk' = SetDoc("none") /\ stage' = [stage EXCEPT !.back[doc] = Target]
           /\ Goto("place") /\ UNCHANGED <<journal, lists>>
  <2>1. work.at \in AtFile
    BY <1>1 DEF AtFile
  <2>2. /\ disk' \in [Modes -> ModeTrees] /\ \A m \in Modes : m # mode => disk'[m] = disk[m]
        /\ disk'[mode] \in ModeTrees /\ disk'[mode].dir = disk[mode].dir
        /\ disk'[mode].docs[doc] = "none" /\ \A e \in Docs : e # doc => disk'[mode].docs[e] = disk[mode].docs[e]
        /\ ~disk'[mode].dir => disk'[mode] = NoTree
    BY <1>3, <2>1, Here, DiskSet, None
  <2>3. /\ stage' \in Stages /\ stage'.tree = stage.tree /\ stage'.back[doc] = Target
        /\ \A e \in Docs : stage'.cand[e] = stage.cand[e]
        /\ \A e \in Docs : e # doc => stage'.back[e] = stage.back[e]
    BY <1>3, <2>1, Here, Backed
  <2>4. Only(doc, disk[mode], stage, disk'[mode], stage')
    BY <2>2, <2>3, OnlyHere
  <2>5. work' \in Works /\ work'.at = "place" /\ work'.i = work.i /\ work'.live = work.live
    BY <1>3, <2>1, Here, GotoOf, Moving
  <2>0. /\ entry.m \in Mutations /\ doc = Order[work.i] /\ doc \in Docs /\ Staged(work, entry.m, entry.existed, j, stage)
        /\ disk[mode] \in ModeTrees /\ stage \in Stages /\ prior.modes[mode] \in Bundle
        /\ Tracked(entry.m) => Going(work, entry.m, entry.existed, j, prior.modes[mode], disk[mode], stage)
    BY <2>1, Here
  <2>6. /\ Staged(work', entry.m, entry.existed, j, stage')
        /\ Tracked(entry.m) => Going(work', entry.m, entry.existed, j, prior.modes[mode], disk'[mode], stage')
    <3>1. PICK m, ex, n, p, t, s, w, d :
            m = entry.m /\ ex = entry.existed /\ n = j /\ p = prior.modes[mode] /\ t = disk[mode] /\ s = stage
            /\ w = work /\ d = doc
      BY Zenon
    <3>2. PICK t2, s2, v : t2 = disk'[mode] /\ s2 = stage' /\ v = work'
      BY Zenon
    <3>3. /\ m \in Mutations /\ d = Order[w.i] /\ Staged(w, m, ex, n, s) /\ t \in ModeTrees /\ s \in Stages /\ p \in Bundle
          /\ t2 \in ModeTrees /\ s2 \in Stages /\ Only(d, t, s, t2, s2)
      BY <2>0, <2>2, <2>3, <2>4, <3>1, <3>2
    <3>4. /\ t2.docs[d] = "none" /\ s2.back[d] = t.docs[d] /\ s2.cand[d] = s.cand[d] /\ t.docs[d] # "none"
      BY <1>3, <2>0, <2>2, <2>3, <3>1, <3>2 DEF Target
    <3>5. w.at = "apply" /\ v.at = "place" /\ v.i = w.i /\ m.op \in {"put", "import"} /\ d \in ex
      BY <1>1, <2>5, <3>1, <3>2 DEF Writing
    <3>6. Staged(v, m, ex, n, s2) /\ (Going(w, m, ex, n, p, t, s) => Going(v, m, ex, n, p, t2, s2))
      BY <3>3, <3>4, <3>5, BackUpGoing
    <3>. QED  BY <2>0, <3>1, <3>2, <3>6
  <2>7. Quiet /\ Onward
    BY <1>1, <1>3, <2>5 DEF Quiet, Onward, Applying, Unlisted
  <2>. QED  BY <2>1, <2>2, <2>3, <2>5, <2>6, <2>7, Here, FileStep
<1>. QED  BY <1>1, <1>2, <1>3

(* The candidate takes its place (apply_file_write).                       *)
LEMMA PlaceKeeps == ASSUME ModesIInv, Place PROVE ModesIInv'
<1>1. /\ work.at = "place" /\ UNCHANGED <<snapshot, told, asked, prior, unread, disturbed>>
      /\ \/ /\ disk[mode].dir /\ disk' = SetDoc(stage.cand[doc]) /\ stage' = [stage EXCEPT !.cand[doc] = "none"]
            /\ Goto("check") /\ UNCHANGED <<journal, lists>>
         \/ Retreat /\ UNCHANGED <<disk, stage, lists>>
  BY DEF Place, Within, Call, catalogs, history
<1>2. CASE Retreat /\ UNCHANGED <<disk, stage, lists>>
  BY <1>1, <1>2, Retreats DEF Still, Applying
<1>3. CASE /\ disk[mode].dir /\ disk' = SetDoc(stage.cand[doc]) /\ stage' = [stage EXCEPT !.cand[doc] = "none"]
           /\ Goto("check") /\ UNCHANGED <<journal, lists>>
  <2>1. work.at \in AtFile
    BY <1>1 DEF AtFile
  <2>2. /\ disk' \in [Modes -> ModeTrees] /\ \A m \in Modes : m # mode => disk'[m] = disk[m]
        /\ disk'[mode] \in ModeTrees /\ disk'[mode].dir = disk[mode].dir
        /\ disk'[mode].docs[doc] = stage.cand[doc] /\ \A e \in Docs : e # doc => disk'[mode].docs[e] = disk[mode].docs[e]
        /\ ~disk'[mode].dir => disk'[mode] = NoTree
    BY <1>3, <2>1, Here, DiskSet
  <2>3. /\ stage' \in Stages /\ stage'.tree = stage.tree /\ stage'.cand[doc] = "none"
        /\ \A e \in Docs : stage'.back[e] = stage.back[e]
        /\ \A e \in Docs : e # doc => stage'.cand[e] = stage.cand[e]
    BY <1>3, <2>1, Here, Taken, None
  <2>4. Only(doc, disk[mode], stage, disk'[mode], stage')
    BY <2>2, <2>3, OnlyHere
  <2>5. work' \in Works /\ work'.at = "check" /\ work'.i = work.i /\ work'.live = work.live
    BY <1>3, <2>1, Here, GotoOf, Moving
  <2>0. /\ entry.m \in Mutations /\ doc = Order[work.i] /\ doc \in Docs /\ Staged(work, entry.m, entry.existed, j, stage)
        /\ disk[mode] \in ModeTrees /\ stage \in Stages /\ prior.modes[mode] \in Bundle
        /\ Tracked(entry.m) => Going(work, entry.m, entry.existed, j, prior.modes[mode], disk[mode], stage)
    BY <2>1, Here
  <2>6. /\ Staged(work', entry.m, entry.existed, j, stage')
        /\ Tracked(entry.m) => Going(work', entry.m, entry.existed, j, prior.modes[mode], disk'[mode], stage')
    <3>1. PICK m, ex, n, p, t, s, w, d :
            m = entry.m /\ ex = entry.existed /\ n = j /\ p = prior.modes[mode] /\ t = disk[mode] /\ s = stage
            /\ w = work /\ d = doc
      BY Zenon
    <3>2. PICK t2, s2, v : t2 = disk'[mode] /\ s2 = stage' /\ v = work'
      BY Zenon
    <3>3. /\ m \in Mutations /\ d = Order[w.i] /\ Staged(w, m, ex, n, s) /\ t \in ModeTrees /\ s \in Stages /\ p \in Bundle
          /\ t2 \in ModeTrees /\ s2 \in Stages /\ Only(d, t, s, t2, s2)
      BY <2>0, <2>2, <2>3, <2>4, <3>1, <3>2
    <3>4. t2.docs[d] = s.cand[d] /\ s2.back[d] = s.back[d]
      BY <2>0, <2>2, <2>3, <3>1, <3>2 DEF Target
    <3>5. w.at = "place" /\ v.at = "check" /\ v.i = w.i
      BY <1>1, <2>5, <3>1, <3>2 DEF Writing
    <3>6. Staged(v, m, ex, n, s2) /\ (Going(w, m, ex, n, p, t, s) => Going(v, m, ex, n, p, t2, s2))
      BY <3>3, <3>4, <3>5, PlaceGoing
    <3>. QED  BY <2>0, <3>1, <3>2, <3>6
  <2>7. Quiet /\ Onward
    BY <1>1, <1>3, <2>5 DEF Quiet, Onward, Applying, Unlisted
  <2>. QED  BY <2>1, <2>2, <2>3, <2>5, <2>6, <2>7, Here, FileStep
<1>. QED  BY <1>1, <1>2, <1>3

(* NextWrite, as the lemmas on documents have it.                          *)
LEMMA NextIs ==
  ASSUME ModesTyped, NextWrite, Slots(entry.m) \subseteq Nat
  PROVE  /\ work' \in Works /\ NextOf(work, work', entry.m) /\ work'.live = work.live /\ work'.at \in {"data", "apply"}
<1> DEFINE rest == {k \in Slots(entry.m) : k > work.i}
<1>1. work' = IF rest = {} THEN [work EXCEPT !.at = "data"] ELSE [work EXCEPT !.at = "apply", !.i = FirstOf(rest)]
  BY WritesAre DEF NextWrite
<1>2. work \in Works
  BY DEF ModesTyped
<1>3. CASE rest = {}
  BY <1>1, <1>2, <1>3, Moving DEF NextOf, Works
<1>4. CASE rest # {}
  <2>1. rest \subseteq 1 .. 3
    BY Three DEF Slots
  <2> HIDE DEF rest
  <2>2. FirstOf(rest) \in Nat
    <3>1. FirstOf(rest) \in rest
      BY <1>4, <2>1, Firsts
    <3>2. PICK k \in rest : k = FirstOf(rest)
      BY <3>1
    <3>3. k \in Nat
      BY <2>1
    <3>. QED  BY <3>2, <3>3
  <2>3. work' \in Works /\ work'.live = work.live /\ work'.at = "apply" /\ work'.i = FirstOf(rest)
    BY <1>1, <1>2, <1>4, <2>2, Moving DEF Works
  <2>. QED  BY <1>4, <2>3 DEF NextOf, rest
<1>. QED  BY <1>3, <1>4

(* PreviousWrite, as the lemmas on documents have it.                      *)
LEMMA PreviousIs ==
  ASSUME ModesTyped, PreviousWrite, Slots(entry.m) \subseteq Nat
  PROVE  /\ work' \in Works /\ PreviousOf(work, work', entry.m) /\ work'.live = work.live /\ work'.bad = work.bad
         /\ work'.at \in {"roll_stage", "roll_files"}
<1> DEFINE rest == {k \in Slots(entry.m) : k < work.i}
<1>1. work' = IF rest = {} THEN [work EXCEPT !.at = "roll_stage"] ELSE [work EXCEPT !.at = "roll_files", !.i = LastOf(rest)]
  BY WritesAre DEF PreviousWrite
<1>2. work \in Works
  BY DEF ModesTyped
<1>3. CASE rest = {}
  BY <1>1, <1>2, <1>3, Moving DEF PreviousOf, Works
<1>4. CASE rest # {}
  <2>1. rest \subseteq 1 .. 3
    BY Three DEF Slots
  <2> HIDE DEF rest
  <2>2. LastOf(rest) \in Nat
    <3>1. LastOf(rest) \in rest
      BY <1>4, <2>1, Firsts
    <3>2. PICK k \in rest : k = LastOf(rest)
      BY <3>1
    <3>3. k \in Nat
      BY <2>1
    <3>. QED  BY <3>2, <3>3
  <2>3. work' \in Works /\ work'.live = work.live /\ work'.bad = work.bad /\ work'.at = "roll_files" /\ work'.i = LastOf(rest)
    BY <1>1, <1>2, <1>4, <2>2, Moving DEF Works
  <2>. QED  BY <1>4, <2>3 DEF PreviousOf, rest
<1>. QED  BY <1>3, <1>4

(* The hash of what was placed is compared (apply_file_write).             *)
LEMMA CheckKeeps == ASSUME ModesIInv, CheckHash PROVE ModesIInv'
<1>1. /\ work.at = "check" /\ UNCHANGED <<snapshot, told, asked, prior, unread, disturbed>>
      /\ \/ Target = entry.m.docs[doc] /\ NextWrite /\ UNCHANGED <<disk, stage, journal, lists>>
         \/ Retreat /\ UNCHANGED <<disk, stage, lists>>
  BY DEF CheckHash, Within, Call, catalogs, history
<1>2. CASE Retreat /\ UNCHANGED <<disk, stage, lists>>
  BY <1>1, <1>2, Retreats DEF Still, Applying
<1>3. CASE Target = entry.m.docs[doc] /\ NextWrite /\ UNCHANGED <<disk, stage, journal, lists>>
  <2>1. work.at \in AtFile
    BY <1>1 DEF AtFile
  <2>2. /\ disk' \in [Modes -> ModeTrees] /\ \A m \in Modes : m # mode => disk'[m] = disk[m]
        /\ ~disk'[mode].dir => disk'[mode] = NoTree
    BY <1>3, <2>1, Here, DiskSame
  <2>3. Slots(entry.m) \subseteq Nat
    BY <2>1, Here, Places
  <2>5. work' \in Works /\ NextOf(work, work', entry.m) /\ work'.live = work.live /\ work'.at \in {"data", "apply"}
    BY <1>3, <2>1, <2>3, Here, NextIs
  <2>6. /\ Staged(work', entry.m, entry.existed, j, stage)
        /\ Tracked(entry.m) => Going(work', entry.m, entry.existed, j, prior.modes[mode], disk[mode], stage)
    BY <1>1, <1>3, <2>1, <2>5, Here, CheckGoing DEF Target
  <2>7. Quiet /\ Onward
    BY <1>1, <1>3, <2>5 DEF Quiet, Onward, Applying, Unlisted
  <2>. QED  BY <1>3, <2>1, <2>2, <2>5, <2>6, <2>7, Here, FileStep
<1>. QED  BY <1>1, <1>2, <1>3

(* A new document is linked to its candidate (apply_file_write).           *)
LEMMA LinkKeeps == ASSUME ModesIInv, Link PROVE ModesIInv'
<1>1. /\ work.at = "apply" /\ Writing /\ doc \notin entry.existed
      /\ UNCHANGED <<snapshot, told, asked, prior, unread, disturbed>>
      /\ \/ /\ disk[mode].dir /\ disk' = SetDoc(entry.m.docs[doc]) /\ Goto("release") /\ UNCHANGED <<stage, journal, lists>>
         \/ Retreat /\ UNCHANGED <<disk, stage, lists>>
  BY DEF Link, Within, Call, catalogs, history
<1>2. CASE Retreat /\ UNCHANGED <<disk, stage, lists>>
  BY <1>1, <1>2, Retreats DEF Still, Applying
<1>3. CASE disk[mode].dir /\ disk' = SetDoc(entry.m.docs[doc]) /\ Goto("release") /\ UNCHANGED <<stage, journal, lists>>
  <2>1. work.at \in AtFile
    BY <1>1 DEF AtFile
  <2>2. /\ disk' \in [Modes -> ModeTrees] /\ \A m \in Modes : m # mode => disk'[m] = disk[m]
        /\ disk'[mode] \in ModeTrees /\ disk'[mode].dir = disk[mode].dir
        /\ disk'[mode].docs[doc] = entry.m.docs[doc]
        /\ \A e \in Docs : e # doc => disk'[mode].docs[e] = disk[mode].docs[e]
        /\ ~disk'[mode].dir => disk'[mode] = NoTree
    BY <1>3, <2>1, Here, DiskSet
  <2>4. Only(doc, disk[mode], stage, disk'[mode], stage)
    BY <2>2, OnlyHere
  <2>5. work' \in Works /\ work'.at = "release" /\ work'.i = work.i /\ work'.live = work.live
    BY <1>3, <2>1, Here, GotoOf, Moving
  <2>0. /\ entry.m \in Mutations /\ doc = Order[work.i] /\ doc \in Docs /\ Staged(work, entry.m, entry.existed, j, stage)
        /\ disk[mode] \in ModeTrees /\ stage \in Stages /\ prior.modes[mode] \in Bundle
        /\ Tracked(entry.m) => Going(work, entry.m, entry.existed, j, prior.modes[mode], disk[mode], stage)
    BY <2>1, Here
  <2>6. /\ Staged(work', entry.m, entry.existed, j, stage)
        /\ Tracked(entry.m) => Going(work', entry.m, entry.existed, j, prior.modes[mode], disk'[mode], stage)
    <3>1. PICK m, ex, n, p, t, s, w, d :
            m = entry.m /\ ex = entry.existed /\ n = j /\ p = prior.modes[mode] /\ t = disk[mode] /\ s = stage
            /\ w = work /\ d = doc
      BY Zenon
    <3>2. PICK t2, v : t2 = disk'[mode] /\ v = work'
      BY Zenon
    <3>3. /\ m \in Mutations /\ d = Order[w.i] /\ Staged(w, m, ex, n, s) /\ t \in ModeTrees /\ s \in Stages /\ p \in Bundle
          /\ t2 \in ModeTrees /\ Only(d, t, s, t2, s)
      BY <2>0, <2>2, <2>4, <3>1, <3>2
    <3>4. t2.docs[d] = m.docs[d]
      BY <2>0, <2>2, <3>1, <3>2 DEF Target
    <3>5. w.at = "apply" /\ v.at = "release" /\ v.i = w.i /\ m.op \in {"put", "import"} /\ d \notin ex
      BY <1>1, <2>5, <3>1, <3>2 DEF Writing
    <3>6. Staged(v, m, ex, n, s) /\ (Going(w, m, ex, n, p, t, s) => Going(v, m, ex, n, p, t2, s))
      BY <3>3, <3>4, <3>5, LinkGoing
    <3>. QED  BY <2>0, <3>1, <3>2, <3>6
  <2>7. Quiet /\ Onward
    BY <1>1, <1>3, <2>5 DEF Quiet, Onward, Applying, Unlisted
  <2>. QED  BY <1>3, <2>1, <2>2, <2>5, <2>6, <2>7, Here, FileStep
<1>. QED  BY <1>1, <1>2, <1>3

(* The call or the process ends between the link of a new document and the *)
(* release of its candidate. The rollback will not know the document for   *)
(* its own (mode_mutation.rs:845): the mutation is disturbed from here on, *)
(* its mode is not what the catalog read, and everything else stays.       *)
LEMMA TornKeeps ==
  ASSUME ModesIInv, work.at = "release", Torn, work' \in Works,
         UNCHANGED <<disk, stage, journal, lists, snapshot, told, asked, prior>>,
         \/ work'.at = "roll" /\ work'.live = work.live
         \/ work'.at = "off"
  PROVE  ModesIInv'
<1>1. work.at \in AtFile /\ work.at \in Applying
  BY DEF AtFile, Applying
<1>2. ModesTyped /\ Unfinished /\ j > 0 /\ entry.m \in Mutations /\ mode \in Modes /\ entry.m.mode = mode
  BY <1>1, Here, EntryIs
<1>3. j' = j /\ entry' = entry /\ mode' = mode /\ Unfinished' = Unfinished
  BY JournalSame
<1>4. unread' = unread \union {mode} /\ disturbed' = TRUE
  BY DEF Torn
<1>5. ModesTyped'
  BY <1>2, <1>4 DEF ModesTyped
<1>6. work.live /\ entry.state = "applying"
  BY <1>1 DEF ModesIInv, Phased
<1>7. Phased' /\ SawIt'
  BY <1>1, <1>2, <1>3, <1>6 DEF ModesIInv, Phased, SawIt, Applying, RollingBack, Between, After
<1>8. Shown'
  <2>1. UnderWay' => UnderWay /\ work.at # "replace" /\ work'.at # "replace"
    BY <1>1 DEF UnderWay, Applying, RollingBack
  <2>2. ~Restarting' /\ work'.at \notin {"idle", "staged", "finish", "replace"}
    BY <1>6 DEF Restarting, RollingBack
  <2>3. \A m \in Modes : Right(m)' <=> Right(m)
    BY DEF Right
  <2>4. ASSUME UnderWay', snapshot'.gen > 0
        PROVE  told' = snapshot' /\ \A m \in Modes \ unread' : m # mode' => Right(m)'
    BY <1>3, <1>4, <2>1, <2>3, <2>4 DEF ModesIInv, Shown
  <2>. QED  BY <1>3, <1>4, <2>2, <2>4 DEF Shown
<1>9. Listed'
  BY ListedElsewhere DEF ModesIInv
<1>10. Documents'
  <2>1. ~Tracked(entry.m)'
    BY <1>2, <1>3, <1>4 DEF Tracked
  <2>2. Staged(work', entry.m, entry.existed, j, stage)
    BY LeftStaged DEF Leaving
  <2>. QED  BY <1>2, <1>3, <1>4, <2>1, <2>2 DEF ModesIInv, Documents
<1>11. Found' /\ ClosedAs'
  BY <1>4 DEF Found, ClosedAs
<1>. QED  BY <1>5, <1>7, <1>8, <1>9, <1>10, <1>11 DEF ModesIInv

(* The candidate of a new document is released, or not                     *)
(* (apply_file_write).                                                     *)
LEMMA ReleaseKeeps == ASSUME ModesIInv, Release PROVE ModesIInv'
<1>t. CASE Retreat /\ Torn /\ UNCHANGED stage
  <2>1. work.at = "release" /\ UNCHANGED <<disk, stage, journal, lists, snapshot, told, asked, prior>>
    BY <1>t DEF Release, Retreat, catalogs
  <2>2. work' \in Works /\ work'.at = "roll" /\ work'.live = work.live
    BY <1>t, GotoOf, AllSteps DEF Retreat, Leaving, ModesIInv
  <2>. QED  BY <1>t, <2>1, <2>2, TornKeeps
<1>r. SUFFICES ASSUME ~(Retreat /\ Torn /\ UNCHANGED stage) PROVE ModesIInv'
  BY <1>t
<1>1. /\ work.at = "release" /\ UNCHANGED <<snapshot, told, asked, prior, unread, disturbed>>
      /\ stage' = [stage EXCEPT !.cand[doc] = "none"] /\ NextWrite /\ UNCHANGED <<disk, journal, lists>>
  BY <1>r DEF Release, catalogs
<1>2. work.at \in AtFile
  BY <1>1 DEF AtFile
<1>3. /\ disk' \in [Modes -> ModeTrees] /\ \A m \in Modes : m # mode => disk'[m] = disk[m]
      /\ ~disk'[mode].dir => disk'[mode] = NoTree
  BY <1>1, <1>2, Here, DiskSame
<1>4. /\ stage' \in Stages /\ stage'.tree = stage.tree /\ stage'.cand[doc] = "none"
      /\ \A e \in Docs : stage'.back[e] = stage.back[e]
      /\ \A e \in Docs : e # doc => stage'.cand[e] = stage.cand[e]
  BY <1>1, <1>2, Here, Taken, None
<1>5. Only(doc, disk[mode], stage, disk[mode], stage')
  BY <1>4, OnlyHere
<1>6. Slots(entry.m) \subseteq Nat
  BY <1>2, Here, Places
<1>7. work' \in Works /\ NextOf(work, work', entry.m) /\ work'.live = work.live /\ work'.at \in {"data", "apply"}
  BY <1>1, <1>2, <1>6, Here, NextIs
<1>0. /\ entry.m \in Mutations /\ doc = Order[work.i] /\ doc \in Docs /\ Staged(work, entry.m, entry.existed, j, stage)
      /\ disk[mode] \in ModeTrees /\ stage \in Stages /\ prior.modes[mode] \in Bundle
      /\ Tracked(entry.m) => Going(work, entry.m, entry.existed, j, prior.modes[mode], disk[mode], stage)
  BY <1>2, Here
<1>8. /\ Staged(work', entry.m, entry.existed, j, stage')
      /\ Tracked(entry.m) => Going(work', entry.m, entry.existed, j, prior.modes[mode], disk[mode], stage')
  <2>1. PICK m, ex, n, p, t, s, w, d :
          m = entry.m /\ ex = entry.existed /\ n = j /\ p = prior.modes[mode] /\ t = disk[mode] /\ s = stage
          /\ w = work /\ d = doc
    BY Zenon
  <2>2. PICK s2, v : s2 = stage' /\ v = work'
    BY Zenon
  <2>3. /\ m \in Mutations /\ d = Order[w.i] /\ Staged(w, m, ex, n, s) /\ t \in ModeTrees /\ s \in Stages /\ p \in Bundle
        /\ s2 \in Stages /\ Only(d, t, s, t, s2)
    BY <1>0, <1>4, <1>5, <2>1, <2>2
  <2>4. s2.cand[d] = "none"
    BY <1>0, <1>4, <2>1, <2>2 DEF Target
  <2>5. w.at = "release" /\ NextOf(w, v, m)
    BY <1>1, <1>7, <2>1, <2>2 DEF Writing
  <2>6. Staged(v, m, ex, n, s2) /\ (Going(w, m, ex, n, p, t, s) => Going(v, m, ex, n, p, t, s2))
    BY <2>3, <2>4, <2>5, ReleaseGoing
  <2>. QED  BY <1>0, <2>1, <2>2, <2>6
<1>9. Quiet /\ Onward
  BY <1>1, <1>7 DEF Quiet, Onward, Applying, Unlisted
<1>. QED  BY <1>1, <1>2, <1>3, <1>4, <1>7, <1>8, <1>9, Here, FileStep

(* A deleted document is moved to the stage (apply, DeleteFile).           *)
LEMMA MoveAwayKeeps == ASSUME ModesIInv, MoveAway PROVE ModesIInv'
<1>1. /\ work.at = "apply" /\ entry.m.op = "delete"
      /\ UNCHANGED <<snapshot, told, asked, prior, unread, disturbed>>
      /\ \/ /\ Target # "none" /\ stage' = [stage EXCEPT !.back[doc] = Target] /\ disk' = SetDoc("none")
            /\ Goto("data") /\ UNCHANGED <<journal, lists>>
         \/ Retreat /\ UNCHANGED <<disk, stage, lists>>
  BY DEF MoveAway, Within, Call, catalogs, history
<1>2. CASE Retreat /\ UNCHANGED <<disk, stage, lists>>
  BY <1>1, <1>2, Retreats DEF Still, Applying
<1>3. CASE /\ Target # "none" /\ stage' = [stage EXCEPT !.back[doc] = Target] /\ disk' = SetDoc("none")
           /\ Goto("data") /\ UNCHANGED <<journal, lists>>
  <2>1. work.at \in AtFile
    BY <1>1 DEF AtFile
  <2>0. /\ entry.m \in Mutations /\ doc = Order[work.i] /\ doc \in Docs /\ Staged(work, entry.m, entry.existed, j, stage)
        /\ disk[mode] \in ModeTrees /\ stage \in Stages /\ prior.modes[mode] \in Bundle /\ Fits(entry.m, prior.modes[mode])
        /\ entry.existed = {d \in DOMAIN entry.m.docs : prior.modes[mode][d] # "none"}
        /\ Tracked(entry.m) => Going(work, entry.m, entry.existed, j, prior.modes[mode], disk[mode], stage)
        /\ work.i \in Slots(entry.m) /\ doc \in DOMAIN entry.m.docs
    BY <2>1, Here
  <2>2. /\ disk' \in [Modes -> ModeTrees] /\ \A m \in Modes : m # mode => disk'[m] = disk[m]
        /\ disk'[mode] \in ModeTrees /\ disk'[mode].dir = disk[mode].dir
        /\ disk'[mode].docs[doc] = "none" /\ \A e \in Docs : e # doc => disk'[mode].docs[e] = disk[mode].docs[e]
        /\ ~disk'[mode].dir => disk'[mode] = NoTree
    BY <1>3, <2>1, Here, DiskSet, None
  <2>3. /\ stage' \in Stages /\ stage'.tree = stage.tree /\ stage'.back[doc] = Target
        /\ \A e \in Docs : stage'.cand[e] = stage.cand[e]
        /\ \A e \in Docs : e # doc => stage'.back[e] = stage.back[e]
    BY <1>3, <2>1, Here, Backed, None
  <2>4. Only(doc, disk[mode], stage, disk'[mode], stage')
    BY <2>2, <2>3, OnlyHere
  <2>5. work' \in Works /\ work'.at = "data" /\ work'.i = work.i /\ work'.live = work.live /\ work'.bad = work.bad
    BY <1>3, <2>1, Here, GotoOf, Moving
  <2>6. /\ Staged(work', entry.m, entry.existed, j, stage')
        /\ Tracked(entry.m) => Going(work', entry.m, entry.existed, j, prior.modes[mode], disk'[mode], stage')
    <3>1. PICK m, ex, n, p, t, s, w, d :
            m = entry.m /\ ex = entry.existed /\ n = j /\ p = prior.modes[mode] /\ t = disk[mode] /\ s = stage
            /\ w = work /\ d = doc
      BY Zenon
    <3>2. PICK t2, s2, v : t2 = disk'[mode] /\ s2 = stage' /\ v = work'
      BY Zenon
    <3>3. /\ m \in Mutations /\ d = Order[w.i] /\ Staged(w, m, ex, n, s) /\ t \in ModeTrees /\ s \in Stages /\ p \in Bundle
          /\ t2 \in ModeTrees /\ s2 \in Stages /\ Only(d, t, s, t2, s2)
      BY <2>0, <2>2, <2>3, <2>4, <3>1, <3>2
    <3>4. t2.docs[d] = "none" /\ s2.back[d] = t.docs[d] /\ t.docs[d] # "none" /\ Fits(m, p) /\ ex = {e \in DOMAIN m.docs : p[e] # "none"}
      BY <2>0, <1>3, <2>2, <2>3, <3>1, <3>2 DEF Target
    <3>5. w.at = "apply" /\ v.at = "data" /\ m.op = "delete"
      BY <1>1, <2>5, <3>1, <3>2 DEF Writing
    <3>6. Staged(v, m, ex, n, s2) /\ (Going(w, m, ex, n, p, t, s) => Going(v, m, ex, n, p, t2, s2))
      BY <3>3, <3>4, <3>5, AwayGoing
    <3>. QED  BY <2>0, <3>1, <3>2, <3>6
  <2>7. Quiet /\ Onward
    BY <1>1, <1>3, <2>5 DEF Quiet, Onward, Applying, RollingBack, Unlisted, Cleared
  <2>. QED  BY <1>3, <2>1, <2>2, <2>3, <2>5, <2>6, <2>7, Here, FileStep
<1>. QED  BY <1>1, <1>2, <1>3

(* A replacement is removed on the way back (rollback_file_write).         *)
LEMMA ReplacedKeeps == ASSUME ModesIInv, RollBackReplaced PROVE ModesIInv'
<1>1. /\ work.at = "roll_files" /\ Writing /\ doc \in entry.existed
      /\ UNCHANGED <<snapshot, told, asked, prior, unread, disturbed>>
      /\ \/ stage.back[doc] = "none" /\ PreviousWrite /\ UNCHANGED <<disk, stage, journal, lists>>
         \/ /\ stage.back[doc] # "none"
            /\ disk' = SetDoc("none") /\ Goto("restore") /\ UNCHANGED <<stage, journal, lists>>
         \/ GiveUp /\ UNCHANGED <<disk, stage, lists>>
  BY DEF RollBackReplaced, Within, Call, catalogs, history
<1>2. CASE GiveUp /\ UNCHANGED <<disk, stage, lists>>
  BY <1>1, <1>2, GivesUp DEF Still, RollingBack
<1>3. CASE stage.back[doc] = "none" /\ PreviousWrite /\ UNCHANGED <<disk, stage, journal, lists>>
  <2>1. work.at \in AtFile
    BY <1>1 DEF AtFile
  <2>0. /\ entry.m \in Mutations /\ doc = Order[work.i] /\ doc \in Docs /\ Staged(work, entry.m, entry.existed, j, stage)
        /\ disk[mode] \in ModeTrees /\ stage \in Stages /\ prior.modes[mode] \in Bundle /\ Fits(entry.m, prior.modes[mode])
        /\ entry.existed = {d \in DOMAIN entry.m.docs : prior.modes[mode][d] # "none"}
        /\ Tracked(entry.m) => Going(work, entry.m, entry.existed, j, prior.modes[mode], disk[mode], stage)
        /\ work.i \in Slots(entry.m) /\ doc \in DOMAIN entry.m.docs
    BY <2>1, Here
  <2>2. /\ disk' \in [Modes -> ModeTrees] /\ \A m \in Modes : m # mode => disk'[m] = disk[m]
        /\ disk'[mode] \in ModeTrees /\ disk'[mode] = disk[mode]
        /\ ~disk'[mode].dir => disk'[mode] = NoTree
    BY <1>3, <2>1, Here, DiskSame
  <2>3. stage' \in Stages /\ stage' = stage
    BY <1>3, <2>1, Here
  <2>4. Only(doc, disk[mode], stage, disk'[mode], stage')
    BY <2>2, <2>3, OnlyHere
  <2>5. /\ work' \in Works /\ PreviousOf(work, work', entry.m) /\ work'.live = work.live /\ work'.bad = work.bad
        /\ work'.at \in {"roll_stage", "roll_files"}
    <3>1. Slots(entry.m) \subseteq Nat
      BY <2>0, Places
    <3>. QED  BY <1>3, <2>1, <3>1, Here, PreviousIs
  <2>8. PICK m, ex, n, p, t, s, w, d :
          m = entry.m /\ ex = entry.existed /\ n = j /\ p = prior.modes[mode] /\ t = disk[mode] /\ s = stage
          /\ w = work /\ d = doc
    BY Zenon
  <2>9. PICK t2, s2, v : t2 = disk'[mode] /\ s2 = stage' /\ v = work'
    BY Zenon
  <2>10. /\ m \in Mutations /\ d = Order[w.i] /\ w.i \in Slots(m) /\ d \in DOMAIN m.docs /\ t \in ModeTrees /\ s \in Stages
         /\ p \in Bundle /\ t2 \in ModeTrees /\ s2 \in Stages /\ Only(d, t, s, t2, s2)
         /\ ex = {e \in DOMAIN m.docs : p[e] # "none"} /\ Fits(m, p)
    BY <2>0, <2>2, <2>3, <2>4, <2>8, <2>9
  <2>11. m.op \in FileOps /\ w.at = "roll_files"
    BY <1>1, <2>0, <2>8, InFileOps DEF Writing, Staged
  <2>12. /\ Staged(v, m, ex, n, s2)
         /\ \/ v.at = "roll_stage" /\ \A k \in Slots(m) : k >= w.i
            \/ v.at = "roll_files" /\ \A k \in Slots(m) : k > v.i => k >= w.i
    <3>1. PreviousOf(w, v, m)
      BY <2>5, <2>8, <2>9
    <3>. QED  BY <2>10, <3>1, PreviousStaged
  <2>13. ASSUME Going(w, m, ex, n, p, t, s) PROVE Going(v, m, ex, n, p, t2, s2)
    <3>1. Held(m, ex, p, t, s, d)
      BY <2>10, <2>11, <2>13 DEF Going, Kept, FilesKept
    <3>2. t2 = t /\ s2 = s /\ d \in ex /\ s.back[d] = "none"
      BY <1>1, <1>3, <2>0, <2>2, <2>3, <2>8, <2>9 DEF Target
    <3>3. Held(m, ex, p, t2, s2, d) /\ t2.docs[d] = p[d]
      BY <2>10, <3>1, <3>2 DEF Held
    <3>. QED  BY <2>10, <2>11, <2>12, <2>13, <3>3, StepBack
  <2>6. /\ Staged(work', entry.m, entry.existed, j, stage')
        /\ Tracked(entry.m) => Going(work', entry.m, entry.existed, j, prior.modes[mode], disk'[mode], stage')
    BY <2>0, <2>8, <2>9, <2>12, <2>13
  <2>7. Quiet /\ Onward
    BY <1>1, <1>3, <2>5 DEF Quiet, Onward, Applying, RollingBack, Unlisted, Cleared
  <2>. QED  BY <1>3, <2>1, <2>2, <2>3, <2>5, <2>6, <2>7, Here, FileStep
<1>4. CASE /\ stage.back[doc] # "none"
           /\ disk' = SetDoc("none") /\ Goto("restore") /\ UNCHANGED <<stage, journal, lists>>
  <2>1. work.at \in AtFile
    BY <1>1 DEF AtFile
  <2>0. /\ entry.m \in Mutations /\ doc = Order[work.i] /\ doc \in Docs /\ Staged(work, entry.m, entry.existed, j, stage)
        /\ disk[mode] \in ModeTrees /\ stage \in Stages /\ prior.modes[mode] \in Bundle /\ Fits(entry.m, prior.modes[mode])
        /\ entry.existed = {d \in DOMAIN entry.m.docs : prior.modes[mode][d] # "none"}
        /\ Tracked(entry.m) => Going(work, entry.m, entry.existed, j, prior.modes[mode], disk[mode], stage)
        /\ work.i \in Slots(entry.m) /\ doc \in DOMAIN entry.m.docs
    BY <2>1, Here
  <2>2. /\ disk' \in [Modes -> ModeTrees] /\ \A m \in Modes : m # mode => disk'[m] = disk[m]
        /\ disk'[mode] \in ModeTrees /\ disk'[mode].dir = disk[mode].dir
        /\ disk'[mode].docs[doc] = "none" /\ \A e \in Docs : e # doc => disk'[mode].docs[e] = disk[mode].docs[e]
        /\ ~disk'[mode].dir => disk'[mode] = NoTree
    BY <1>4, <2>1, Here, DiskSet, None
  <2>3. stage' \in Stages /\ stage' = stage
    BY <1>4, <2>1, Here
  <2>4. Only(doc, disk[mode], stage, disk'[mode], stage')
    BY <2>2, <2>3, OnlyHere
  <2>5. work' \in Works /\ work'.at = "restore" /\ work'.i = work.i /\ work'.live = work.live /\ work'.bad = work.bad
    BY <1>4, <2>1, Here, GotoOf, Moving
  <2>6. /\ Staged(work', entry.m, entry.existed, j, stage')
        /\ Tracked(entry.m) => Going(work', entry.m, entry.existed, j, prior.modes[mode], disk'[mode], stage')
    <3>1. PICK m, ex, n, p, t, s, w, d :
            m = entry.m /\ ex = entry.existed /\ n = j /\ p = prior.modes[mode] /\ t = disk[mode] /\ s = stage
            /\ w = work /\ d = doc
      BY Zenon
    <3>2. PICK t2, v : t2 = disk'[mode] /\ v = work'
      BY Zenon
    <3>3. /\ m \in Mutations /\ d = Order[w.i] /\ Staged(w, m, ex, n, s) /\ t \in ModeTrees /\ s \in Stages /\ p \in Bundle
          /\ t2 \in ModeTrees /\ Only(d, t, s, t2, s)
      BY <2>0, <2>2, <2>3, <2>4, <3>1, <3>2
    <3>4. t2.docs[d] = "none" /\ s.back[d] # "none"
      BY <2>0, <1>4, <2>2, <3>1, <3>2 DEF Target
    <3>5. w.at = "roll_files" /\ v.at = "restore" /\ v.i = w.i /\ m.op \in {"put", "import"} /\ d \in ex
      BY <1>1, <2>5, <3>1, <3>2 DEF Writing
    <3>6. Staged(v, m, ex, n, s) /\ (Going(w, m, ex, n, p, t, s) => Going(v, m, ex, n, p, t2, s))
      BY <3>3, <3>4, <3>5, ReplacedGoing
    <3>. QED  BY <2>0, <2>3, <3>1, <3>2, <3>6
  <2>7. Quiet /\ Onward
    BY <1>1, <1>4, <2>5 DEF Quiet, Onward, Applying, RollingBack, Unlisted, Cleared
  <2>. QED  BY <1>4, <2>1, <2>2, <2>3, <2>5, <2>6, <2>7, Here, FileStep
<1>. QED  BY <1>1, <1>2, <1>3, <1>4

(* The old document is put back (rollback_file_write).                     *)
LEMMA RestoreKeeps == ASSUME ModesIInv, Restore PROVE ModesIInv'
<1>1. /\ work.at = "restore" /\ UNCHANGED <<snapshot, told, asked, prior, unread, disturbed>>
      /\ \/ /\ disk[mode].dir /\ disk' = SetDoc(stage.back[doc]) /\ stage' = [stage EXCEPT !.back[doc] = "none"]
            /\ PreviousWrite /\ UNCHANGED <<journal, lists>>
         \/ GiveUp /\ UNCHANGED <<disk, stage, lists>>
  BY DEF Restore, Within, Call, catalogs, history
<1>2. CASE GiveUp /\ UNCHANGED <<disk, stage, lists>>
  BY <1>1, <1>2, GivesUp DEF Still, RollingBack
<1>3. CASE /\ disk[mode].dir /\ disk' = SetDoc(stage.back[doc]) /\ stage' = [stage EXCEPT !.back[doc] = "none"]
           /\ PreviousWrite /\ UNCHANGED <<journal, lists>>
  <2>1. work.at \in AtFile
    BY <1>1 DEF AtFile
  <2>0. /\ entry.m \in Mutations /\ doc = Order[work.i] /\ doc \in Docs /\ Staged(work, entry.m, entry.existed, j, stage)
        /\ disk[mode] \in ModeTrees /\ stage \in Stages /\ prior.modes[mode] \in Bundle /\ Fits(entry.m, prior.modes[mode])
        /\ entry.existed = {d \in DOMAIN entry.m.docs : prior.modes[mode][d] # "none"}
        /\ Tracked(entry.m) => Going(work, entry.m, entry.existed, j, prior.modes[mode], disk[mode], stage)
        /\ work.i \in Slots(entry.m) /\ doc \in DOMAIN entry.m.docs
    BY <2>1, Here
  <2>2. /\ disk' \in [Modes -> ModeTrees] /\ \A m \in Modes : m # mode => disk'[m] = disk[m]
        /\ disk'[mode] \in ModeTrees /\ disk'[mode].dir = disk[mode].dir
        /\ disk'[mode].docs[doc] = stage.back[doc] /\ \A e \in Docs : e # doc => disk'[mode].docs[e] = disk[mode].docs[e]
        /\ ~disk'[mode].dir => disk'[mode] = NoTree
    BY <1>3, <2>1, Here, DiskSet, None
  <2>3. /\ stage' \in Stages /\ stage'.tree = stage.tree /\ stage'.back[doc] = "none"
        /\ \A e \in Docs : stage'.cand[e] = stage.cand[e]
        /\ \A e \in Docs : e # doc => stage'.back[e] = stage.back[e]
    BY <1>3, <2>1, Here, Backed, None
  <2>4. Only(doc, disk[mode], stage, disk'[mode], stage')
    BY <2>2, <2>3, OnlyHere
  <2>5. /\ work' \in Works /\ PreviousOf(work, work', entry.m) /\ work'.live = work.live /\ work'.bad = work.bad
        /\ work'.at \in {"roll_stage", "roll_files"}
    <3>1. Slots(entry.m) \subseteq Nat
      BY <2>0, Places
    <3>. QED  BY <1>3, <2>1, <3>1, Here, PreviousIs
  <2>8. PICK m, ex, n, p, t, s, w, d :
          m = entry.m /\ ex = entry.existed /\ n = j /\ p = prior.modes[mode] /\ t = disk[mode] /\ s = stage
          /\ w = work /\ d = doc
    BY Zenon
  <2>9. PICK t2, s2, v : t2 = disk'[mode] /\ s2 = stage' /\ v = work'
    BY Zenon
  <2>10. /\ m \in Mutations /\ d = Order[w.i] /\ w.i \in Slots(m) /\ d \in DOMAIN m.docs /\ t \in ModeTrees /\ s \in Stages
         /\ p \in Bundle /\ t2 \in ModeTrees /\ s2 \in Stages /\ Only(d, t, s, t2, s2)
         /\ ex = {e \in DOMAIN m.docs : p[e] # "none"} /\ Fits(m, p)
    BY <2>0, <2>2, <2>3, <2>4, <2>8, <2>9
  <2>11. m.op \in FileOps /\ w.at = "restore"
    BY <1>1, <2>0, <2>8, InFileOps DEF Writing, Staged
  <2>12. /\ Staged(v, m, ex, n, s2)
         /\ \/ v.at = "roll_stage" /\ \A k \in Slots(m) : k >= w.i
            \/ v.at = "roll_files" /\ \A k \in Slots(m) : k > v.i => k >= w.i
    <3>1. PreviousOf(w, v, m)
      BY <2>5, <2>8, <2>9
    <3>. QED  BY <2>10, <3>1, PreviousStaged
  <2>13. ASSUME Going(w, m, ex, n, p, t, s) PROVE Going(v, m, ex, n, p, t2, s2)
    <3>1. Held(m, ex, p, t, s, d)
      BY <2>10, <2>11, <2>13 DEF Going, Kept, FilesKept
    <3>2. t2.docs[d] = s.back[d] /\ s2.back[d] = "none" /\ d \in ex /\ s.back[d] # "none"
      <4>1. doc \in entry.existed /\ stage.back[doc] # "none"
        BY <1>1, <2>0 DEF Staged
      <4>. QED  BY <2>2, <2>3, <2>8, <2>9, <4>1
    <3>3. Held(m, ex, p, t2, s2, d) /\ t2.docs[d] = p[d]
      BY <2>10, <3>1, <3>2 DEF Held
    <3>. QED  BY <2>10, <2>11, <2>12, <2>13, <3>3, StepBack
  <2>6. /\ Staged(work', entry.m, entry.existed, j, stage')
        /\ Tracked(entry.m) => Going(work', entry.m, entry.existed, j, prior.modes[mode], disk'[mode], stage')
    BY <2>0, <2>8, <2>9, <2>12, <2>13
  <2>7. Quiet /\ Onward
    BY <1>1, <1>3, <2>5 DEF Quiet, Onward, Applying, RollingBack, Unlisted, Cleared
  <2>. QED  BY <1>3, <2>1, <2>2, <2>3, <2>5, <2>6, <2>7, Here, FileStep
<1>. QED  BY <1>1, <1>2, <1>3

(* A document that was not there is removed on the way back                *)
(* (rollback_file_write).                                                  *)
LEMMA CreatedKeeps == ASSUME ModesIInv, RollBackCreated PROVE ModesIInv'
<1>1. /\ work.at = "roll_files" /\ Writing /\ doc \notin entry.existed
      /\ UNCHANGED <<snapshot, told, asked, prior, unread, disturbed>>
      /\ \/ /\ disk' = (IF Target # "none" /\ stage.cand[doc] = "none" THEN SetDoc("none") ELSE disk)
            /\ PreviousWrite /\ UNCHANGED <<stage, journal, lists>>
         \/ GiveUp /\ UNCHANGED <<disk, stage, lists>>
  BY DEF RollBackCreated, Within, Call, catalogs, history
<1>2. CASE GiveUp /\ UNCHANGED <<disk, stage, lists>>
  BY <1>1, <1>2, GivesUp DEF Still, RollingBack
<1>3. CASE /\ disk' = (IF Target # "none" /\ stage.cand[doc] = "none" THEN SetDoc("none") ELSE disk)
           /\ PreviousWrite /\ UNCHANGED <<stage, journal, lists>>
  <2>1. work.at \in AtFile
    BY <1>1 DEF AtFile
  <2>0. /\ entry.m \in Mutations /\ doc = Order[work.i] /\ doc \in Docs /\ Staged(work, entry.m, entry.existed, j, stage)
        /\ disk[mode] \in ModeTrees /\ stage \in Stages /\ prior.modes[mode] \in Bundle /\ Fits(entry.m, prior.modes[mode])
        /\ entry.existed = {d \in DOMAIN entry.m.docs : prior.modes[mode][d] # "none"}
        /\ Tracked(entry.m) => Going(work, entry.m, entry.existed, j, prior.modes[mode], disk[mode], stage)
        /\ work.i \in Slots(entry.m) /\ doc \in DOMAIN entry.m.docs
    BY <2>1, Here
  <2>2. /\ disk' \in [Modes -> ModeTrees] /\ \A m \in Modes : m # mode => disk'[m] = disk[m]
        /\ disk'[mode] \in ModeTrees /\ disk'[mode].dir = disk[mode].dir
        /\ Target # "none" /\ stage.cand[doc] = "none" => disk'[mode].docs[doc] = "none"
        /\ ~(Target # "none" /\ stage.cand[doc] = "none") => disk'[mode].docs[doc] = disk[mode].docs[doc]
        /\ \A e \in Docs : e # doc => disk'[mode].docs[e] = disk[mode].docs[e]
        /\ ~disk'[mode].dir => disk'[mode] = NoTree
    <3>1. CASE Target # "none" /\ stage.cand[doc] = "none"
      <4>1. disk' = SetDoc("none")
        BY <1>3, <3>1
      <4>. QED  BY <2>1, <3>1, <4>1, Here, DiskSet, None
    <3>2. CASE ~(Target # "none" /\ stage.cand[doc] = "none")
      <4>1. UNCHANGED disk
        BY <1>3, <3>2
      <4>. QED  BY <2>0, <2>1, <3>2, <4>1, Here, DiskSame
    <3>. QED  BY <3>1, <3>2
  <2>3. stage' \in Stages /\ stage' = stage
    BY <1>3, <2>1, Here
  <2>4. Only(doc, disk[mode], stage, disk'[mode], stage')
    BY <2>2, <2>3, OnlyHere
  <2>5. /\ work' \in Works /\ PreviousOf(work, work', entry.m) /\ work'.live = work.live /\ work'.bad = work.bad
        /\ work'.at \in {"roll_stage", "roll_files"}
    <3>1. Slots(entry.m) \subseteq Nat
      BY <2>0, Places
    <3>. QED  BY <1>3, <2>1, <3>1, Here, PreviousIs
  <2>8. PICK m, ex, n, p, t, s, w, d :
          m = entry.m /\ ex = entry.existed /\ n = j /\ p = prior.modes[mode] /\ t = disk[mode] /\ s = stage
          /\ w = work /\ d = doc
    BY Zenon
  <2>9. PICK t2, s2, v : t2 = disk'[mode] /\ s2 = stage' /\ v = work'
    BY Zenon
  <2>10. /\ m \in Mutations /\ d = Order[w.i] /\ w.i \in Slots(m) /\ d \in DOMAIN m.docs /\ t \in ModeTrees /\ s \in Stages
         /\ p \in Bundle /\ t2 \in ModeTrees /\ s2 \in Stages /\ Only(d, t, s, t2, s2)
         /\ ex = {e \in DOMAIN m.docs : p[e] # "none"} /\ Fits(m, p)
    BY <2>0, <2>2, <2>3, <2>4, <2>8, <2>9
  <2>11. m.op \in FileOps /\ w.at = "roll_files"
    BY <1>1, <2>0, <2>8, InFileOps DEF Writing, Staged
  <2>12. /\ Staged(v, m, ex, n, s2)
         /\ \/ v.at = "roll_stage" /\ \A k \in Slots(m) : k >= w.i
            \/ v.at = "roll_files" /\ \A k \in Slots(m) : k > v.i => k >= w.i
    <3>1. PreviousOf(w, v, m)
      BY <2>5, <2>8, <2>9
    <3>. QED  BY <2>10, <3>1, PreviousStaged
  <2>13. ASSUME Going(w, m, ex, n, p, t, s) PROVE Going(v, m, ex, n, p, t2, s2)
    <3>1. Held(m, ex, p, t, s, d)
      BY <2>10, <2>11, <2>13 DEF Going, Kept, FilesKept
    <3>2. /\ d \notin ex
          /\ t.docs[d] # "none" /\ s.cand[d] = "none" => t2.docs[d] = "none"
          /\ ~(t.docs[d] # "none" /\ s.cand[d] = "none") => t2.docs[d] = t.docs[d]
      BY <1>1, <2>0, <2>2, <2>3, <2>8, <2>9 DEF Target
    <3>3. Held(m, ex, p, t2, s2, d) /\ t2.docs[d] = p[d]
      BY <2>10, <3>1, <3>2 DEF Held
    <3>. QED  BY <2>10, <2>11, <2>12, <2>13, <3>3, StepBack
  <2>6. /\ Staged(work', entry.m, entry.existed, j, stage')
        /\ Tracked(entry.m) => Going(work', entry.m, entry.existed, j, prior.modes[mode], disk'[mode], stage')
    BY <2>0, <2>8, <2>9, <2>12, <2>13
  <2>7. Quiet /\ Onward
    BY <1>1, <1>3, <2>5 DEF Quiet, Onward, Applying, RollingBack, Unlisted, Cleared
  <2>. QED  BY <1>3, <2>1, <2>2, <2>3, <2>5, <2>6, <2>7, Here, FileStep
<1>. QED  BY <1>1, <1>2, <1>3

(* A deleted document is put back (restore_backup).                        *)
LEMMA DeleteKeeps == ASSUME ModesIInv, RollBackDelete PROVE ModesIInv'
<1>1. /\ work.at = "roll_files" /\ entry.m.op = "delete"
      /\ UNCHANGED <<snapshot, told, asked, prior, unread, disturbed>>
      /\ \/ /\ disk' = (IF stage.back[doc] # "none" THEN SetDoc(stage.back[doc]) ELSE disk)
            /\ stage.back[doc] # "none" => disk[mode].dir
            /\ stage' = [stage EXCEPT !.back[doc] = "none"] /\ Goto("roll_stage") /\ UNCHANGED <<journal, lists>>
         \/ GiveUp /\ UNCHANGED <<disk, stage, lists>>
  BY DEF RollBackDelete, Within, Call, catalogs, history
<1>2. CASE GiveUp /\ UNCHANGED <<disk, stage, lists>>
  BY <1>1, <1>2, GivesUp DEF Still, RollingBack
<1>3. CASE /\ disk' = (IF stage.back[doc] # "none" THEN SetDoc(stage.back[doc]) ELSE disk)
           /\ stage.back[doc] # "none" => disk[mode].dir
           /\ stage' = [stage EXCEPT !.back[doc] = "none"] /\ Goto("roll_stage") /\ UNCHANGED <<journal, lists>>
  <2>1. work.at \in AtFile
    BY <1>1 DEF AtFile
  <2>0. /\ entry.m \in Mutations /\ doc = Order[work.i] /\ doc \in Docs /\ Staged(work, entry.m, entry.existed, j, stage)
        /\ disk[mode] \in ModeTrees /\ stage \in Stages /\ prior.modes[mode] \in Bundle /\ Fits(entry.m, prior.modes[mode])
        /\ entry.existed = {d \in DOMAIN entry.m.docs : prior.modes[mode][d] # "none"}
        /\ Tracked(entry.m) => Going(work, entry.m, entry.existed, j, prior.modes[mode], disk[mode], stage)
        /\ work.i \in Slots(entry.m) /\ doc \in DOMAIN entry.m.docs
    BY <2>1, Here
  <2>2. /\ disk' \in [Modes -> ModeTrees] /\ \A m \in Modes : m # mode => disk'[m] = disk[m]
        /\ disk'[mode] \in ModeTrees /\ disk'[mode].dir = disk[mode].dir
        /\ stage.back[doc] # "none" => disk'[mode].docs[doc] = stage.back[doc]
        /\ stage.back[doc] = "none" => disk'[mode].docs[doc] = disk[mode].docs[doc]
        /\ \A e \in Docs : e # doc => disk'[mode].docs[e] = disk[mode].docs[e]
        /\ ~disk'[mode].dir => disk'[mode] = NoTree
    <3>1. CASE stage.back[doc] # "none"
      <4>1. disk' = SetDoc(stage.back[doc]) /\ disk[mode].dir
        BY <1>3, <3>1
      <4>. QED  BY <2>1, <3>1, <4>1, Here, DiskSet
    <3>2. CASE stage.back[doc] = "none"
      <4>1. UNCHANGED disk
        BY <1>3, <3>2
      <4>. QED  BY <2>0, <2>1, <3>2, <4>1, Here, DiskSame
    <3>. QED  BY <3>1, <3>2
  <2>3. /\ stage' \in Stages /\ stage'.tree = stage.tree /\ stage'.back[doc] = "none"
        /\ \A e \in Docs : stage'.cand[e] = stage.cand[e]
        /\ \A e \in Docs : e # doc => stage'.back[e] = stage.back[e]
    BY <1>3, <2>1, Here, Backed, None
  <2>4. Only(doc, disk[mode], stage, disk'[mode], stage')
    BY <2>2, <2>3, OnlyHere
  <2>5. work' \in Works /\ work'.at = "roll_stage" /\ work'.i = work.i /\ work'.live = work.live /\ work'.bad = work.bad
    BY <1>3, <2>1, Here, GotoOf, Moving
  <2>8. PICK m, ex, n, p, t, s, w, d :
          m = entry.m /\ ex = entry.existed /\ n = j /\ p = prior.modes[mode] /\ t = disk[mode] /\ s = stage
          /\ w = work /\ d = doc
    BY Zenon
  <2>9. PICK t2, s2, v : t2 = disk'[mode] /\ s2 = stage' /\ v = work'
    BY Zenon
  <2>10. /\ m \in Mutations /\ d = Order[w.i] /\ w.i \in Slots(m) /\ d \in DOMAIN m.docs /\ t \in ModeTrees /\ s \in Stages
         /\ p \in Bundle /\ t2 \in ModeTrees /\ s2 \in Stages /\ Only(d, t, s, t2, s2)
         /\ ex = {e \in DOMAIN m.docs : p[e] # "none"} /\ Fits(m, p)
    BY <2>0, <2>2, <2>3, <2>4, <2>8, <2>9
  <2>11. m.op \in FileOps /\ w.at = "roll_files"
    BY <1>1, <2>0, <2>8, InFileOps DEF Writing, Staged
  <2>12. /\ Staged(v, m, ex, n, s2)
         /\ v.at = "roll_stage" /\ \A k \in Slots(m) : k >= w.i
    <3>1. v.at = "roll_stage" /\ m.op = "delete"
      BY <1>1, <2>5, <2>8, <2>9
    <3>2. DOMAIN m.docs = {d}
      BY <2>10, <3>1, MutationShape DEF Shape
    <3>3. \A k \in Slots(m) : k = w.i /\ k \in Nat
      BY <2>10, <3>2, Places
    <3>. QED  BY <3>1, <3>3 DEF Staged
  <2>13. ASSUME Going(w, m, ex, n, p, t, s) PROVE Going(v, m, ex, n, p, t2, s2)
    <3>1. Held(m, ex, p, t, s, d)
      BY <2>10, <2>11, <2>13 DEF Going, Kept, FilesKept
    <3>2. /\ s2.back[d] = "none"
          /\ s.back[d] # "none" => t2.docs[d] = s.back[d]
          /\ s.back[d] = "none" => t2.docs[d] = t.docs[d]
      BY <2>2, <2>3, <2>8, <2>9
    <3>3. d \in ex
      BY <1>1, <2>8, <2>10 DEF Fits
    <3>4. Held(m, ex, p, t2, s2, d) /\ t2.docs[d] = p[d]
      BY <3>1, <3>2, <3>3 DEF Held
    <3>. QED  BY <2>10, <2>11, <2>12, <2>13, <3>4, StepBack
  <2>6. /\ Staged(work', entry.m, entry.existed, j, stage')
        /\ Tracked(entry.m) => Going(work', entry.m, entry.existed, j, prior.modes[mode], disk'[mode], stage')
    BY <2>0, <2>8, <2>9, <2>12, <2>13
  <2>7. Quiet /\ Onward
    BY <1>1, <1>3, <2>5 DEF Quiet, Onward, Applying, RollingBack, Unlisted, Cleared
  <2>. QED  BY <1>3, <2>1, <2>2, <2>3, <2>5, <2>6, <2>7, Here, FileStep
<1>. QED  BY <1>1, <1>2, <1>3

(* The staged tree becomes the new mode (apply, CreateMode).               *)
LEMMA PublishTreeKeeps == ASSUME ModesIInv, PublishTree PROVE ModesIInv'
<1>1. /\ work.at = "apply" /\ entry.m.op = "create_mode"
      /\ UNCHANGED <<snapshot, told, asked, prior, unread, disturbed>>
      /\ \/ /\ ~disk[mode].dir /\ disk' = [disk EXCEPT ![mode] = stage.tree] /\ stage' = [stage EXCEPT !.tree = NoTree]
            /\ Goto("data") /\ UNCHANGED <<journal, lists>>
         \/ Retreat /\ UNCHANGED <<disk, stage, lists>>
  BY DEF PublishTree, Within, Call, catalogs, history
<1>2. CASE Retreat /\ UNCHANGED <<disk, stage, lists>>
  BY <1>1, <1>2, Retreats DEF Still, Applying
<1>3. CASE /\ ~disk[mode].dir /\ disk' = [disk EXCEPT ![mode] = stage.tree] /\ stage' = [stage EXCEPT !.tree = NoTree]
           /\ Goto("data") /\ UNCHANGED <<journal, lists>>
  <2>1. work.at \in AtFile
    BY <1>1 DEF AtFile
  <2>0. /\ entry.m \in Mutations /\ doc = Order[work.i] /\ doc \in Docs /\ Staged(work, entry.m, entry.existed, j, stage)
        /\ disk[mode] \in ModeTrees /\ stage \in Stages /\ prior.modes[mode] \in Bundle /\ Fits(entry.m, prior.modes[mode])
        /\ entry.existed = {d \in DOMAIN entry.m.docs : prior.modes[mode][d] # "none"}
        /\ Tracked(entry.m) => Going(work, entry.m, entry.existed, j, prior.modes[mode], disk[mode], stage)
        /\ work.i \in Slots(entry.m) /\ doc \in DOMAIN entry.m.docs
    BY <2>1, Here
  <2>2. /\ disk' \in [Modes -> ModeTrees] /\ \A m \in Modes : m # mode => disk'[m] = disk[m]
        /\ disk'[mode] = stage.tree
        /\ ~disk'[mode].dir => disk'[mode] = NoTree
    <3>1. stage.tree = NewTree(j, entry.m)
      BY <1>1, <2>0 DEF Staged
    <3>2. disk \in [Modes -> ModeTrees] /\ mode \in Modes /\ j \in Nat
      BY <2>1, Here DEF ModesTyped
    <3>3. stage.tree \in ModeTrees /\ stage.tree.dir
      BY <2>0, <3>1, <3>2, Empties, Results
    <3>. QED  BY <1>3, <3>2, <3>3
  <2>3. stage' \in Stages
    BY <1>3, <2>0, Empties DEF Stages
  <2>5. work' \in Works /\ work'.at = "data" /\ work'.i = work.i /\ work'.live = work.live /\ work'.bad = work.bad
    BY <1>3, <2>1, Here, GotoOf, Moving
  <2>6. /\ Staged(work', entry.m, entry.existed, j, stage')
        /\ Tracked(entry.m) => Going(work', entry.m, entry.existed, j, prior.modes[mode], disk'[mode], stage')
    <3>1. PICK m, ex, n, p, t, s, w :
            m = entry.m /\ ex = entry.existed /\ n = j /\ p = prior.modes[mode] /\ t = disk[mode] /\ s = stage /\ w = work
      BY Zenon
    <3>2. PICK t2, s2, v : t2 = disk'[mode] /\ s2 = stage' /\ v = work'
      BY Zenon
    <3>3. /\ m \in Mutations /\ p \in Bundle /\ t \in ModeTrees /\ s \in Stages /\ s2 \in Stages /\ w.at = "apply"
          /\ v.at = "data" /\ m.op = "create_mode" /\ Staged(w, m, ex, n, s) /\ Fits(m, p) /\ t2 = s.tree
      BY <1>1, <2>0, <2>2, <2>3, <2>5, <3>1, <3>2
    <3>4. Staged(v, m, ex, n, s2) /\ (Going(w, m, ex, n, p, t, s) => Going(v, m, ex, n, p, t2, s2))
      BY <3>3, TreeGoing
    <3>. QED  BY <2>0, <3>1, <3>2, <3>4
  <2>7. Quiet /\ Onward
    BY <1>1, <1>3, <2>5 DEF Quiet, Onward, Applying, RollingBack, Unlisted, Cleared
  <2>. QED  BY <1>3, <2>1, <2>2, <2>3, <2>5, <2>6, <2>7, Here, FileStep
<1>. QED  BY <1>1, <1>2, <1>3

(* The tree of a deleted mode is moved to the stage (apply, DeleteMode).   *)
LEMMA MoveTreeAwayKeeps == ASSUME ModesIInv, MoveTreeAway PROVE ModesIInv'
<1>1. /\ work.at = "apply" /\ entry.m.op = "delete_mode"
      /\ UNCHANGED <<snapshot, told, asked, prior, unread, disturbed>>
      /\ \/ /\ disk[mode].dir /\ stage' = [stage EXCEPT !.tree = disk[mode]] /\ disk' = [disk EXCEPT ![mode] = NoTree]
            /\ Goto("data") /\ UNCHANGED <<journal, lists>>
         \/ Retreat /\ UNCHANGED <<disk, stage, lists>>
  BY DEF MoveTreeAway, Within, Call, catalogs, history
<1>2. CASE Retreat /\ UNCHANGED <<disk, stage, lists>>
  BY <1>1, <1>2, Retreats DEF Still, Applying
<1>3. CASE /\ disk[mode].dir /\ stage' = [stage EXCEPT !.tree = disk[mode]] /\ disk' = [disk EXCEPT ![mode] = NoTree]
           /\ Goto("data") /\ UNCHANGED <<journal, lists>>
  <2>1. work.at \in AtFile
    BY <1>1 DEF AtFile
  <2>0. /\ entry.m \in Mutations /\ doc = Order[work.i] /\ doc \in Docs /\ Staged(work, entry.m, entry.existed, j, stage)
        /\ disk[mode] \in ModeTrees /\ stage \in Stages /\ prior.modes[mode] \in Bundle /\ Fits(entry.m, prior.modes[mode])
        /\ entry.existed = {d \in DOMAIN entry.m.docs : prior.modes[mode][d] # "none"}
        /\ Tracked(entry.m) => Going(work, entry.m, entry.existed, j, prior.modes[mode], disk[mode], stage)
        /\ work.i \in Slots(entry.m) /\ doc \in DOMAIN entry.m.docs
    BY <2>1, Here
  <2>2. /\ disk' \in [Modes -> ModeTrees] /\ \A m \in Modes : m # mode => disk'[m] = disk[m]
        /\ disk'[mode] = NoTree
        /\ ~disk'[mode].dir => disk'[mode] = NoTree
    <3>1. disk \in [Modes -> ModeTrees] /\ mode \in Modes
      BY <2>1, Here DEF ModesTyped
    <3>. QED  BY <1>3, <3>1, Empties
  <2>3. stage' \in Stages /\ stage'.tree = disk[mode]
    BY <1>3, <2>0 DEF Stages
  <2>5. work' \in Works /\ work'.at = "data" /\ work'.i = work.i /\ work'.live = work.live /\ work'.bad = work.bad
    BY <1>3, <2>1, Here, GotoOf, Moving
  <2>6. /\ Staged(work', entry.m, entry.existed, j, stage')
        /\ Tracked(entry.m) => Going(work', entry.m, entry.existed, j, prior.modes[mode], disk'[mode], stage')
    <3>1. PICK m, ex, n, p, t, s, w :
            m = entry.m /\ ex = entry.existed /\ n = j /\ p = prior.modes[mode] /\ t = disk[mode] /\ s = stage /\ w = work
      BY Zenon
    <3>2. PICK t2, s2, v : t2 = disk'[mode] /\ s2 = stage' /\ v = work'
      BY Zenon
    <3>3. /\ m \in Mutations /\ p \in Bundle /\ t \in ModeTrees /\ s \in Stages /\ s2 \in Stages /\ w.at = "apply"
          /\ v.at = "data" /\ m.op = "delete_mode" /\ t.dir /\ s2.tree = t /\ t2 = NoTree
      BY <1>1, <1>3, <2>0, <2>2, <2>3, <2>5, <3>1, <3>2
    <3>4. Staged(v, m, ex, n, s2) /\ (Going(w, m, ex, n, p, t, s) => Going(v, m, ex, n, p, t2, s2))
      BY <3>3, TreeAwayGoing
    <3>. QED  BY <2>0, <3>1, <3>2, <3>4
  <2>7. Quiet /\ Onward
    BY <1>1, <1>3, <2>5 DEF Quiet, Onward, Applying, RollingBack, Unlisted, Cleared
  <2>. QED  BY <1>3, <2>1, <2>2, <2>3, <2>5, <2>6, <2>7, Here, FileStep
<1>. QED  BY <1>1, <1>2, <1>3

(* The tree of a new mode is removed on the way back (rollback,            *)
(* CreateMode).                                                            *)
LEMMA TreeKeeps == ASSUME ModesIInv, RollBackTree PROVE ModesIInv'
<1>1. /\ work.at = "roll_files" /\ entry.m.op = "create_mode"
      /\ UNCHANGED <<snapshot, told, asked, prior, unread, disturbed>>
      /\ \/ /\ disk' = [disk EXCEPT ![mode] = NoTree]
            /\ Goto("roll_stage") /\ UNCHANGED <<stage, journal, lists>>
         \/ GiveUp /\ UNCHANGED <<disk, stage, lists>>
  BY DEF RollBackTree, Within, Call, catalogs, history
<1>2. CASE GiveUp /\ UNCHANGED <<disk, stage, lists>>
  BY <1>1, <1>2, GivesUp DEF Still, RollingBack
<1>3. CASE /\ disk' = [disk EXCEPT ![mode] = NoTree]
           /\ Goto("roll_stage") /\ UNCHANGED <<stage, journal, lists>>
  <2>1. work.at \in AtFile
    BY <1>1 DEF AtFile
  <2>0. /\ entry.m \in Mutations /\ doc = Order[work.i] /\ doc \in Docs /\ Staged(work, entry.m, entry.existed, j, stage)
        /\ disk[mode] \in ModeTrees /\ stage \in Stages /\ prior.modes[mode] \in Bundle /\ Fits(entry.m, prior.modes[mode])
        /\ entry.existed = {d \in DOMAIN entry.m.docs : prior.modes[mode][d] # "none"}
        /\ Tracked(entry.m) => Going(work, entry.m, entry.existed, j, prior.modes[mode], disk[mode], stage)
        /\ work.i \in Slots(entry.m) /\ doc \in DOMAIN entry.m.docs
    BY <2>1, Here
  <2>2. /\ disk' \in [Modes -> ModeTrees] /\ \A m \in Modes : m # mode => disk'[m] = disk[m]
        /\ disk'[mode] = NoTree
        /\ ~disk'[mode].dir => disk'[mode] = NoTree
    <3>1. disk \in [Modes -> ModeTrees] /\ mode \in Modes
      BY <2>1, Here DEF ModesTyped
    <3>. QED  BY <1>3, <3>1, Empties
  <2>3. stage' \in Stages
    BY <1>3, <2>0
  <2>5. work' \in Works /\ work'.at = "roll_stage" /\ work'.i = work.i /\ work'.live = work.live /\ work'.bad = work.bad
    BY <1>3, <2>1, Here, GotoOf, Moving
  <2>6. /\ Staged(work', entry.m, entry.existed, j, stage')
        /\ Tracked(entry.m) => Going(work', entry.m, entry.existed, j, prior.modes[mode], disk'[mode], stage')
    <3>1. PICK m, ex, n, p, t, s, w :
            m = entry.m /\ ex = entry.existed /\ n = j /\ p = prior.modes[mode] /\ t = disk[mode] /\ s = stage /\ w = work
      BY Zenon
    <3>2. PICK t2, s2, v : t2 = disk'[mode] /\ s2 = stage' /\ v = work'
      BY Zenon
    <3>3. m \in Mutations /\ v.at = "roll_stage" /\ m.op = "create_mode" /\ Fits(m, p) /\ t2 = NoTree
      BY <1>1, <2>0, <2>2, <2>5, <3>1, <3>2
    <3>4. Staged(v, m, ex, n, s2) /\ (Going(w, m, ex, n, p, t, s) => Going(v, m, ex, n, p, t2, s2))
      BY <3>3, TreeBack DEF Staged
    <3>. QED  BY <2>0, <3>1, <3>2, <3>4
  <2>7. Quiet /\ Onward
    BY <1>1, <1>3, <2>5 DEF Quiet, Onward, Applying, RollingBack, Unlisted, Cleared
  <2>. QED  BY <1>3, <2>1, <2>2, <2>3, <2>5, <2>6, <2>7, Here, FileStep
<1>. QED  BY <1>1, <1>2, <1>3

(* The removal of the tree of a new mode stops half way                    *)
(* (mode_mutation.rs:792): nothing is said of a tree on its way out until  *)
(* it has gone, and the journal stays open.                                *)
LEMMA PartlyKeeps == ASSUME ModesIInv, RemovePartly PROVE ModesIInv'
<1>1. /\ work.at = "roll_files" /\ entry.m.op = "create_mode" /\ disk[mode].dir
      /\ GiveUp \/ (Die /\ UNCHANGED journal)
      /\ UNCHANGED <<stage, lists, snapshot, told, asked, prior, unread, disturbed>>
  BY DEF RemovePartly, catalogs, history
<1>2. work.at \in AtFile
  BY <1>1 DEF AtFile
<1>3. ModesTyped /\ Unfinished /\ j \in Nat /\ mode \in Modes /\ disk[mode] \in ModeTrees /\ stage \in Stages
      /\ disk \in [Modes -> ModeTrees]
  BY <1>2, Here DEF ModesTyped
<1>4. PICK D \in SUBSET Docs, k \in {0, j} :
        disk' = [disk EXCEPT ![mode].marker = k,
                             ![mode].docs = [d \in Docs |-> IF d \in D THEN "none" ELSE @[d]]]
  BY DEF RemovePartly
<1>5. PICK b : b = [d \in Docs |-> IF d \in D THEN "none" ELSE disk[mode].docs[d]]
  OBVIOUS
<1>6. PICK u : u = [disk[mode] EXCEPT !.marker = k, !.docs = b]
  OBVIOUS
<1>7. b \in Bundle /\ k \in Nat
  BY <1>3, <1>5, None DEF ModeTrees, Bundle
<1>8. u \in ModeTrees /\ u.dir
  BY <1>1, <1>3, <1>6, <1>7 DEF ModeTrees
<1>9. disk' = [disk EXCEPT ![mode] = u]
  BY <1>3, <1>4, <1>5, <1>6 DEF ModeTrees
<1>10. /\ disk' \in [Modes -> ModeTrees] /\ \A m \in Modes : m # mode => disk'[m] = disk[m]
       /\ disk'[mode].dir
  BY <1>3, <1>8, <1>9
<1>11. work' \in Works /\ UNCHANGED journal
       /\ (work'.at \in {"off", "refused"} \/ (work'.at = "mark_failed" /\ work'.live = work.live))
  <2>1. CASE Die /\ UNCHANGED journal
    BY <2>1, RestingOf, AllSteps DEF Die
  <2>2. CASE GiveUp /\ work.live
    BY <1>3, <2>2, GotoOf, AllSteps DEF GiveUp, Goto, Leaving
  <2>3. CASE GiveUp /\ ~work.live
    BY <2>3, RestingOf, AllSteps DEF GiveUp
  <2>. QED  BY <1>1, <2>1, <2>2, <2>3
<1>12. work'.at \in Leaving
  BY <1>11 DEF Leaving
<1>13. Staged(work', entry.m, entry.existed, j, stage)
  BY <1>12, LeftStaged
<1>14. Going(work', entry.m, entry.existed, j, prior.modes[mode], disk'[mode], stage)
  <2>1. PICK m, ex, n, p, t, s, w : m = entry.m /\ ex = entry.existed /\ n = j /\ p = prior.modes[mode]
                                    /\ t = disk'[mode] /\ s = stage /\ w = work'
    BY Zenon
  <2>2. m.op = "create_mode" /\ w.at \in Leaving
    BY <1>1, <1>12, <2>1
  <2>3. Kept(m, ex, n, p, t, s, {})
    BY <2>2 DEF Kept, FileOps
  <2>4. Going(w, m, ex, n, p, t, s)
    BY <2>2, <2>3, LeftGoing
  <2>. QED  BY <2>1, <2>4
<1>15. Quiet /\ Onward
  BY <1>1, <1>11 DEF Quiet, Onward, RollingBack, Cleared
<1>. QED  BY <1>1, <1>3, <1>10, <1>11, <1>13, <1>14, <1>15, FileStep

(* The tree of a deleted mode is put back (rollback, DeleteMode).          *)
LEMMA RestoreTreeKeeps == ASSUME ModesIInv, RestoreTree PROVE ModesIInv'
<1>1. /\ work.at = "roll_files" /\ entry.m.op = "delete_mode"
      /\ UNCHANGED <<snapshot, told, asked, prior, unread, disturbed>>
      /\ \/ /\ disk' = (IF stage.tree.dir THEN [disk EXCEPT ![mode] = stage.tree] ELSE disk) /\ stage' = [stage EXCEPT !.tree = NoTree]
            /\ Goto("roll_stage") /\ UNCHANGED <<journal, lists>>
         \/ GiveUp /\ UNCHANGED <<disk, stage, lists>>
  BY DEF RestoreTree, Within, Call, catalogs, history
<1>2. CASE GiveUp /\ UNCHANGED <<disk, stage, lists>>
  BY <1>1, <1>2, GivesUp DEF Still, RollingBack
<1>3. CASE /\ disk' = (IF stage.tree.dir THEN [disk EXCEPT ![mode] = stage.tree] ELSE disk) /\ stage' = [stage EXCEPT !.tree = NoTree]
           /\ Goto("roll_stage") /\ UNCHANGED <<journal, lists>>
  <2>1. work.at \in AtFile
    BY <1>1 DEF AtFile
  <2>0. /\ entry.m \in Mutations /\ doc = Order[work.i] /\ doc \in Docs /\ Staged(work, entry.m, entry.existed, j, stage)
        /\ disk[mode] \in ModeTrees /\ stage \in Stages /\ prior.modes[mode] \in Bundle /\ Fits(entry.m, prior.modes[mode])
        /\ entry.existed = {d \in DOMAIN entry.m.docs : prior.modes[mode][d] # "none"}
        /\ Tracked(entry.m) => Going(work, entry.m, entry.existed, j, prior.modes[mode], disk[mode], stage)
        /\ work.i \in Slots(entry.m) /\ doc \in DOMAIN entry.m.docs
    BY <2>1, Here
  <2>2. /\ disk' \in [Modes -> ModeTrees] /\ \A m \in Modes : m # mode => disk'[m] = disk[m]
        /\ disk'[mode] = (IF stage.tree.dir THEN stage.tree ELSE disk[mode])
        /\ ~disk'[mode].dir => disk'[mode] = NoTree
    <3>1. /\ disk \in [Modes -> ModeTrees] /\ mode \in Modes /\ stage.tree \in ModeTrees
          /\ \A m \in Modes : ~disk[m].dir => disk[m] = NoTree
      BY <2>0, <2>1, Here DEF ModesTyped, Stages
    <3>2. CASE stage.tree.dir
      BY <1>3, <3>1, <3>2
    <3>3. CASE ~stage.tree.dir
      BY <1>3, <3>1, <3>3
    <3>. QED  BY <3>2, <3>3
  <2>3. stage' \in Stages /\ stage'.tree = NoTree
    BY <1>3, <2>0, Empties DEF Stages
  <2>5. work' \in Works /\ work'.at = "roll_stage" /\ work'.i = work.i /\ work'.live = work.live /\ work'.bad = work.bad
    BY <1>3, <2>1, Here, GotoOf, Moving
  <2>6. /\ Staged(work', entry.m, entry.existed, j, stage')
        /\ Tracked(entry.m) => Going(work', entry.m, entry.existed, j, prior.modes[mode], disk'[mode], stage')
    <3>1. PICK m, ex, n, p, t, s, w :
            m = entry.m /\ ex = entry.existed /\ n = j /\ p = prior.modes[mode] /\ t = disk[mode] /\ s = stage /\ w = work
      BY Zenon
    <3>2. PICK t2, s2, v : t2 = disk'[mode] /\ s2 = stage' /\ v = work'
      BY Zenon
    <3>3. /\ m \in Mutations /\ w.at = "roll_files" /\ v.at = "roll_stage" /\ m.op = "delete_mode" /\ s2.tree = NoTree
          /\ t2 = IF s.tree.dir THEN s.tree ELSE t
      BY <1>1, <2>0, <2>2, <2>3, <2>5, <3>1, <3>2
    <3>4. Staged(v, m, ex, n, s2) /\ (Going(w, m, ex, n, p, t, s) => Going(v, m, ex, n, p, t2, s2))
      BY <3>3, TreeBackAgain DEF Staged
    <3>. QED  BY <2>0, <3>1, <3>2, <3>4
  <2>7. Quiet /\ Onward
    BY <1>1, <1>3, <2>5 DEF Quiet, Onward, Applying, RollingBack, Unlisted, Cleared
  <2>. QED  BY <1>3, <2>1, <2>2, <2>3, <2>5, <2>6, <2>7, Here, FileStep
<1>. QED  BY <1>1, <1>2, <1>3

-----------------------------------------------------------------------------
(* What the invariant says while a journal is open.                        *)
LEMMA Inside ==
  ASSUME ModesIInv, Unfinished
  PROVE  /\ j > 0 /\ j \in Nat /\ ModesTyped /\ entry.m \in Mutations /\ mode \in Modes
         /\ Staged(work, entry.m, entry.existed, j, stage)
         /\ disk[mode] \in ModeTrees /\ stage \in Stages /\ prior.modes[mode] \in Bundle
         /\ Fits(entry.m, prior.modes[mode])
         /\ entry.existed = {d \in DOMAIN entry.m.docs : prior.modes[mode][d] # "none"}
         /\ Tracked(entry.m) => Going(work, entry.m, entry.existed, j, prior.modes[mode], disk[mode], stage)
         /\ work \in Works /\ disk \in [Modes -> ModeTrees] /\ \A m \in Modes : ~disk[m].dir => disk[m] = NoTree
<1>1. j > 0 /\ ModesTyped
  BY DEF ModesIInv, Unfinished
<1>2. /\ j \in Nat /\ entry.m \in Mutations /\ mode \in Modes /\ disk[mode] \in ModeTrees /\ prior.modes[mode] \in Bundle
      /\ stage \in Stages /\ work \in Works /\ disk \in [Modes -> ModeTrees] /\ \A m \in Modes : ~disk[m].dir => disk[m] = NoTree
  BY <1>1, EntryIs DEF ModesTyped
<1>3. /\ Staged(work, entry.m, entry.existed, j, stage) /\ Fits(entry.m, prior.modes[mode])
      /\ entry.existed = {d \in DOMAIN entry.m.docs : prior.modes[mode][d] # "none"}
      /\ Tracked(entry.m) => Going(work, entry.m, entry.existed, j, prior.modes[mode], disk[mode], stage)
  BY DEF ModesIInv, Documents
<1>. QED  BY <1>1, <1>2, <1>3

(* The documents are read back (perform_mutation, verification).           *)
LEMMA VerifyKeeps == ASSUME ModesIInv, Verify PROVE ModesIInv'
<1>1. /\ work.at = "verify" /\ UNCHANGED <<snapshot, told, asked, prior, unread, disturbed>>
      /\ \/ work' = [work EXCEPT !.at = "commit", !.bundle = disk[mode].docs] /\ UNCHANGED <<disk, stage, journal, lists>>
         \/ Retreat /\ UNCHANGED <<disk, stage, lists>>
  BY DEF Verify, Within, Call, catalogs, history
<1>2. CASE Retreat /\ UNCHANGED <<disk, stage, lists>>
  BY <1>1, <1>2, Retreats DEF Still, Applying
<1>3. CASE work' = [work EXCEPT !.at = "commit", !.bundle = disk[mode].docs] /\ UNCHANGED <<disk, stage, journal, lists>>
  <2>1. Unfinished
    BY <1>1, Opened DEF Applying
  <2>2. disk[mode].docs \in Bundle
    BY <2>1, Inside DEF ModeTrees
  <2>3. work' \in Works /\ work'.at = "commit" /\ work'.live = work.live /\ work'.bundle = disk[mode].docs
    BY <1>3, <2>1, <2>2, Inside, Moving DEF Works
  <2>4. /\ Staged(work', entry.m, entry.existed, j, stage)
        /\ Tracked(entry.m) => Going(work', entry.m, entry.existed, j, prior.modes[mode], disk[mode], stage)
    BY <1>1, <2>1, <2>3, Inside, VerifyGoing
  <2>5. Quiet /\ Onward
    BY <1>1, <1>3, <2>3 DEF Quiet, Onward, Applying, Unlisted
  <2>. QED  BY <1>3, <2>1, <2>3, <2>4, <2>5, Inside, FileStep
<1>. QED  BY <1>1, <1>2, <1>3

(* The stage is removed at the end of the way back (remove_stage).         *)
LEMMA RemoveStageKeeps == ASSUME ModesIInv, RemoveStage PROVE ModesIInv'
<1>1. /\ work.at = "roll_stage" /\ UNCHANGED <<snapshot, told, asked, prior, unread, disturbed>>
      /\ \/ stage' = NoStage /\ Goto(IF work.bad THEN "mark_failed" ELSE "rolled") /\ UNCHANGED <<disk, journal, lists>>
         \/ GiveUp /\ UNCHANGED <<disk, stage, lists>>
  BY DEF RemoveStage, Within, Call, catalogs, history
<1>2. CASE GiveUp /\ UNCHANGED <<disk, stage, lists>>
  BY <1>1, <1>2, GivesUp DEF Still, RollingBack
<1>3. CASE stage' = NoStage /\ Goto(IF work.bad THEN "mark_failed" ELSE "rolled") /\ UNCHANGED <<disk, journal, lists>>
  <2>1. Unfinished
    BY <1>1, Opened DEF RollingBack
  <2>2. PICK goal \in {"mark_failed", "rolled"} : goal = IF work.bad THEN "mark_failed" ELSE "rolled"
    OBVIOUS
  <2>3. /\ work' \in Works /\ work'.at = goal /\ work'.live = work.live /\ work'.bad = work.bad
        /\ work'.at \in {"rolled", "mark_failed"} /\ (work'.at = "rolled" => ~work.bad)
    BY <1>3, <2>1, <2>2, Inside, GotoOf, Moving
  <2>4. Staged(work', entry.m, entry.existed, j, stage')
    BY <2>3 DEF Staged
  <2>5. ASSUME Tracked(entry.m)
        PROVE  Going(work', entry.m, entry.existed, j, prior.modes[mode], disk[mode], NoStage)
    BY <1>1, <2>1, <2>3, <2>5, Inside, StageGone
  <2>6. Quiet /\ Onward
    BY <1>1, <1>3, <2>3 DEF Quiet, Onward, RollingBack, Cleared
  <2>7. stage' \in Stages
    BY <1>3, Empties
  <2>. QED  BY <1>3, <2>1, <2>3, <2>4, <2>5, <2>6, <2>7, Inside, FileStep
<1>. QED  BY <1>1, <1>2, <1>3

-----------------------------------------------------------------------------
(* The state of the newest journal changes, nothing else of it             *)
(* (transition_recovery_journal).                                          *)
LEMMA Moved ==
  ASSUME ModesTyped, j > 0, NEW st \in States, Move(st)
  PROVE  /\ journal' \in Seq(Entries) /\ j' = j /\ entry'.state = st /\ entry'.m = entry.m /\ mode' = mode
         /\ entry'.listed = entry.listed /\ entry'.existed = entry.existed
         /\ \A k \in 1 .. j : k # j => journal'[k] = journal[k]
         /\ \A k \in 1 .. j : journal'[k].listed = journal[k].listed
<1>1. journal \in Seq(Entries) /\ j = Len(journal) /\ j \in 1 .. Len(journal) /\ journal[j] \in Entries
  BY DEF ModesTyped, j
<1>2. [journal[j] EXCEPT !.state = st] \in Entries
  BY <1>1 DEF Entries
<1>3. journal' = [journal EXCEPT ![j] = [journal[j] EXCEPT !.state = st]]
  BY <1>1 DEF Move
<1>4. journal' \in Seq(Entries) /\ Len(journal') = Len(journal)
  BY <1>1, <1>2, <1>3
<1>5. /\ journal'[j] = [journal[j] EXCEPT !.state = st]
      /\ \A k \in 1 .. j : k # j => journal'[k] = journal[k]
  BY <1>1, <1>3
<1>6. j' = j /\ entry' = [entry EXCEPT !.state = st]
  BY <1>1, <1>4, <1>5 DEF j, entry
<1>7. entry \in Entries
  BY <1>1 DEF entry
<1>8. entry'.state = st /\ entry'.m = entry.m /\ entry'.listed = entry.listed /\ entry'.existed = entry.existed
  BY <1>6, <1>7 DEF Entries
<1>9. \A k \in 1 .. j : journal'[k].listed = journal[k].listed
  BY <1>1, <1>5 DEF Entries
<1>. QED  BY <1>4, <1>5, <1>6, <1>8, <1>9 DEF mode

(* A journal goes from one open state to another.                          *)
LEMMA OpenStep ==
  ASSUME ModesIInv, Unfinished, NEW st \in Open, Move(st), Still, UNCHANGED <<disk, stage>>, work' \in Works,
         \/ work.at = "planned" /\ work'.at = "apply" /\ st = "applying" /\ work'.live
         \/ work.at = "roll" /\ work'.at = "roll_data" /\ st = "rolling_back" /\ work'.live = work.live,
         Staged(work', entry.m, entry.existed, j, stage),
         Tracked(entry.m) => Going(work', entry.m, entry.existed, j, prior.modes[mode], disk[mode], stage)
  PROVE  ModesIInv'
<1>1. /\ j > 0 /\ prior' = prior /\ disturbed' = disturbed /\ unread' = unread /\ disk' = disk /\ stage' = stage
      /\ lists' = lists /\ snapshot' = snapshot /\ told' = told /\ asked' = asked /\ ModesTyped /\ j \in Nat /\ mode \in Modes
  BY Inside DEF Still
<1>2. /\ journal' \in Seq(Entries) /\ j' = j /\ entry'.state = st /\ entry'.m = entry.m /\ mode' = mode
      /\ entry'.listed = entry.listed /\ entry'.existed = entry.existed
      /\ \A k \in 1 .. j : k # j => journal'[k] = journal[k]
      /\ \A k \in 1 .. j : journal'[k].listed = journal[k].listed
  BY <1>1, Moved DEF Open, States
<1>3. Unfinished'
  BY <1>1, <1>2 DEF Unfinished, Open
<1>4. ModesTyped'
  BY <1>1, <1>2 DEF ModesTyped
<1>5. Phased'
  <2>1. \A k \in 1 .. j' - 1 : journal'[k].state \notin Open
    BY <1>1, <1>2 DEF ModesIInv, Phased
  <2>. QED  BY <1>1, <1>2, <1>3, <2>1 DEF ModesIInv, Phased, Applying, RollingBack, Between, After
<1>6. SawIt'
  BY <1>1, <1>2 DEF ModesIInv, SawIt, Applying, RollingBack
<1>7. Shown'
  <2>1. UnderWay' => UnderWay
    BY DEF UnderWay, Applying, RollingBack
  <2>2. Restarting' => Restarting
    BY DEF Restarting, RollingBack
  <2>3. \A m \in Modes : Right(m)' <=> Right(m)
    BY <1>1 DEF Right
  <2>4. work'.at \notin {"idle", "staged", "finish", "replace"} /\ work.at # "replace"
    OBVIOUS
  <2>5. ASSUME UnderWay', snapshot'.gen > 0
        PROVE /\ told' = snapshot'
              /\ \A m \in Modes \ unread' : m # mode' => Right(m)'
              /\ mode' \notin unread' => snapshot'.modes[mode'] = prior'.modes[mode']
    BY <1>1, <1>2, <2>1, <2>3, <2>4, <2>5 DEF ModesIInv, Shown
  <2>6. Restarting' => snapshot'.gen = 0
    BY <1>1, <2>2 DEF ModesIInv, Shown
  <2>. QED  BY <2>4, <2>5, <2>6 DEF Shown
<1>8. Listed'
  <2>1. /\ \A l \in lists : DOMAIN l = {"by", "mode", "name"} /\ l.by \in 0 .. j
        /\ \A l \in lists : l.by > 0 => journal[l.by].state # "rolled_back" /\ journal[l.by].listed
        /\ work.at = "planned" => \A l \in lists : l.by # j
    BY DEF ModesIInv, Listed
  <2>2. ASSUME NEW l \in lists, l.by > 0
        PROVE  journal'[l.by].state # "rolled_back" /\ journal'[l.by].listed
    <3>1. l.by \in 1 .. j
      BY <1>1, <2>1, <2>2
    <3>2. CASE l.by = j
      BY <1>2, <2>1, <2>2, <3>1, <3>2 DEF entry, Open
    <3>3. CASE l.by # j
      BY <1>2, <2>1, <2>2, <3>1, <3>3
    <3>. QED  BY <3>2, <3>3
  <2>. QED  BY <1>1, <1>2, <2>1, <2>2 DEF Listed
<1>9. Documents'
  <2>1. Tracked(entry.m)' = Tracked(entry.m)
    BY <1>1, <1>2 DEF Tracked
  <2>2. /\ prior.of = j
        /\ entry.existed = {d \in DOMAIN entry.m.docs : prior.modes[mode][d] # "none"}
        /\ Fits(entry.m, prior.modes[mode])
        /\ ~disturbed => \A m \in Modes \ {mode} : disk[m].docs = prior.modes[m]
    BY DEF ModesIInv, Documents
  <2>. QED  BY <1>1, <1>2, <2>1, <2>2 DEF Documents
<1>10. Found'
  BY DEF Found
<1>11. ClosedAs'
  BY <1>2 DEF ClosedAs, Open
<1>. QED  BY <1>4, <1>5, <1>6, <1>7, <1>8, <1>9, <1>10, <1>11 DEF ModesIInv

-----------------------------------------------------------------------------
(* The plan begins at its first place.                                     *)
LEMMA ApplyStart ==
  ASSUME NEW m \in Mutations, NEW ex, NEW n, NEW p, NEW t, NEW s, NEW w, NEW v,
         w.at = "planned", v.at = "apply", v.i = FirstOf(Slots(m))
  PROVE  /\ Staged(w, m, ex, n, s) => Staged(v, m, ex, n, s)
         /\ Going(w, m, ex, n, p, t, s) => Going(v, m, ex, n, p, t, s)
<1>1. /\ v.i \in Slots(m) /\ \A k \in Slots(m) : ~(k < v.i)
      /\ \A k \in Slots(m) : Order[k] \in DOMAIN m.docs
  BY Places, Firsts
<1>2. ASSUME Staged(w, m, ex, n, s) PROVE Staged(v, m, ex, n, s)
  <2>1. /\ \A d \in DOMAIN m.docs : Ahead(m, s, d)
        /\ m.op = "create_mode" => s.tree = NewTree(n, m)
    BY <1>2 DEF Staged
  <2>. QED  BY <1>1, <2>1 DEF Staged
<1>3. ASSUME Going(w, m, ex, n, p, t, s) PROVE Going(v, m, ex, n, p, t, s)
  BY <1>1, <1>3 DEF Going
<1>. QED  BY <1>2, <1>3

(* The process ends, or does not start, with a journal open.               *)
LEMMA Dies ==
  ASSUME ModesIInv, Unfinished, work.at # "release", NEW goal \in {"off", "refused"}, work' = Resting(goal),
         Quiet, UNCHANGED <<disk, stage>>
  PROVE  ModesIInv'
<1>1. work' \in Works /\ work'.at = goal
  BY RestingOf, Moving
<1>2. Onward /\ work'.at \in Leaving
  BY <1>1 DEF Onward, Leaving
<1>. QED  BY <1>1, <1>2, FailStep

(* The journal is marked applying before the first document                *)
(* (perform_mutation).                                                     *)
LEMMA StartApplyingKeeps == ASSUME ModesIInv, StartApplying PROVE ModesIInv'
<1>1. /\ work.at = "planned" /\ UNCHANGED <<snapshot, told, asked, prior, unread, disturbed, disk, stage, lists>>
      /\ \/ Move("applying") /\ work' = [work EXCEPT !.at = "apply", !.i = FirstOf(Writes), !.live = TRUE]
         \/ Die /\ UNCHANGED journal
  BY DEF StartApplying, Within, Call, catalogs, history
<1>2. Unfinished
  BY <1>1, Opened
<1>3. CASE Die /\ UNCHANGED journal
  BY <1>1, <1>2, <1>3, Dies DEF Die, Quiet
<1>4. CASE Move("applying") /\ work' = [work EXCEPT !.at = "apply", !.i = FirstOf(Writes), !.live = TRUE]
  <2>1. FirstOf(Slots(entry.m)) \in Slots(entry.m) /\ Slots(entry.m) \subseteq Nat
    BY <1>2, Inside, Places, Firsts
  <2>2. work' \in Works /\ work'.at = "apply" /\ work'.i = FirstOf(Slots(entry.m)) /\ work'.live
    BY <1>2, <1>4, <2>1, Inside, WritesAre, Moving DEF Works
  <2>3. PICK v : v = work'
    OBVIOUS
  <2>4. /\ Staged(v, entry.m, entry.existed, j, stage)
        /\ Tracked(entry.m) => Going(v, entry.m, entry.existed, j, prior.modes[mode], disk[mode], stage)
    BY <1>1, <1>2, <2>2, <2>3, Inside, ApplyStart
  <2>. QED  BY <1>1, <1>2, <1>4, <2>2, <2>3, <2>4, OpenStep DEF Open, Still
<1>. QED  BY <1>1, <1>3, <1>4

(* The journal is marked rolling back before the first document            *)
(* (rollback_mode_mutation).                                               *)
LEMMA StartRollbackKeeps == ASSUME ModesIInv, StartRollback PROVE ModesIInv'
<1>1. /\ work.at = "roll" /\ UNCHANGED <<snapshot, told, asked, prior, unread, disturbed, disk, stage, lists>>
      /\ \/ Move("rolling_back") /\ Goto("roll_data")
         \/ work' = Resting(IF work.live THEN "off" ELSE "refused") /\ UNCHANGED journal
  BY DEF StartRollback, Within, Call, catalogs, history
<1>2. Unfinished
  BY <1>1, Opened
<1>3. CASE work' = Resting(IF work.live THEN "off" ELSE "refused") /\ UNCHANGED journal
  <2>1. PICK goal \in {"off", "refused"} : goal = IF work.live THEN "off" ELSE "refused"
    OBVIOUS
  <2>. QED  BY <1>1, <1>2, <1>3, <2>1, Dies DEF Quiet
<1>4. CASE Move("rolling_back") /\ Goto("roll_data")
  <2>1. work' \in Works /\ work'.at = "roll_data" /\ work'.live = work.live
    BY <1>2, <1>4, Inside, GotoOf, Moving
  <2>2. Staged(work', entry.m, entry.existed, j, stage)
    BY <2>1, LeftStaged DEF Leaving
  <2>3. ASSUME Tracked(entry.m)
        PROVE  Going(work', entry.m, entry.existed, j, prior.modes[mode], disk[mode], stage)
    <3>1. Kept(entry.m, entry.existed, j, prior.modes[mode], disk[mode], stage, {})
      BY <1>1, <1>2, <2>3, Inside DEF Going
    <3>. QED  BY <2>1, <3>1, LeftGoing DEF Leaving
  <2>. QED  BY <1>1, <1>2, <1>4, <2>1, <2>2, <2>3, OpenStep DEF Open, Still
<1>. QED  BY <1>1, <1>3, <1>4

-----------------------------------------------------------------------------
(* The journal records that the playlists of an import are there.          *)
LEMMA Recorded ==
  ASSUME ModesTyped, j > 0, NEW b \in BOOLEAN, journal' = [journal EXCEPT ![j].listed = b]
  PROVE  SameEntry /\ entry'.listed = b
<1>1. journal \in Seq(Entries) /\ j = Len(journal) /\ j \in 1 .. Len(journal) /\ journal[j] \in Entries
  BY DEF ModesTyped, j
<1>2. [journal[j] EXCEPT !.listed = b] \in Entries
  BY <1>1 DEF Entries
<1>3. journal' = [journal EXCEPT ![j] = [journal[j] EXCEPT !.listed = b]]
  BY <1>1
<1>4. journal' \in Seq(Entries) /\ Len(journal') = Len(journal)
  BY <1>1, <1>2, <1>3
<1>5. /\ journal'[j] = [journal[j] EXCEPT !.listed = b]
      /\ \A k \in 1 .. j - 1 : journal'[k] = journal[k]
  BY <1>1, <1>3
<1>6. j' = j /\ entry' = [entry EXCEPT !.listed = b]
  BY <1>1, <1>4, <1>5 DEF j, entry
<1>7. entry \in Entries
  BY <1>1 DEF entry
<1>8. entry'.state = entry.state /\ entry'.m = entry.m /\ entry'.listed = b /\ entry'.existed = entry.existed
  BY <1>6, <1>7 DEF Entries
<1>. QED  BY <1>4, <1>5, <1>6, <1>8 DEF mode, SameEntry

(* The documents stay while the playlists of an import are written.        *)
LEMMA VerifyNext ==
  ASSUME NEW m, NEW ex, NEW n, NEW p, NEW t, NEW s, NEW w, NEW v, w.at = "data", v.at = "verify"
  PROVE  Staged(v, m, ex, n, s) /\ (Going(w, m, ex, n, p, t, s) => Going(v, m, ex, n, p, t, s))
BY DEF Staged, Going

(* The playlists of an import and the record of them are one transaction   *)
(* (apply_import).                                                         *)
LEMMA ApplyImportKeeps == ASSUME ModesIInv, ApplyImport PROVE ModesIInv'
<1> DEFINE new == [by |-> j, mode |-> mode, name |-> "imported"]
<1>1. /\ work.at = "data" /\ UNCHANGED <<snapshot, told, asked, prior, unread, disturbed, disk, stage>>
      /\ \/ /\ lists' = (IF entry.m.list THEN lists \union {new} ELSE lists)
            /\ journal' = [journal EXCEPT ![j].listed = entry.m.list] /\ Goto("verify")
         \/ Retreat /\ UNCHANGED lists
  BY DEF ApplyImport, Within, Call, catalogs, history
<1>2. Unfinished
  BY <1>1, Opened DEF Applying
<1>3. CASE Retreat /\ UNCHANGED lists
  BY <1>1, <1>3, Retreats DEF Still, Applying
<1>4. CASE /\ lists' = (IF entry.m.list THEN lists \union {new} ELSE lists)
           /\ journal' = [journal EXCEPT ![j].listed = entry.m.list] /\ Goto("verify")
  <2>1. j > 0 /\ j \in Nat /\ ModesTyped /\ entry.m.list \in BOOLEAN /\ mode \in Modes
    BY <1>2, Inside, MutationShape DEF Shape
  <2>2. SameEntry /\ entry'.listed = entry.m.list
    BY <1>4, <2>1, Recorded
  <2>3. work' \in Works /\ work'.at = "verify" /\ work'.live = work.live
    BY <1>4, <2>1, GotoOf, Moving
  <2>4. /\ Staged(work', entry.m, entry.existed, j, stage)
        /\ Tracked(entry.m) => Going(work', entry.m, entry.existed, j, prior.modes[mode], disk[mode], stage)
    BY <1>1, <1>2, <2>3, Inside, VerifyNext
  <2>5. Listed'
    <3>1. /\ \A l \in lists : DOMAIN l = {"by", "mode", "name"} /\ l.by \in 0 .. j /\ l.by # j
          /\ \A l \in lists : l.by > 0 => journal[l.by].state # "rolled_back" /\ journal[l.by].listed
      BY <1>1 DEF ModesIInv, Listed
    <3>2. j' = j /\ \A k \in 1 .. j - 1 : journal'[k] = journal[k]
      BY <2>2 DEF SameEntry
    <3>3. ASSUME NEW l \in lists' PROVE /\ DOMAIN l = {"by", "mode", "name"} /\ l.by \in 0 .. j'
                                        /\ l.by > 0 => journal'[l.by].state # "rolled_back" /\ journal'[l.by].listed
      <4>1. CASE l \in lists
        <5>1. l.by > 0 => l.by \in 1 .. j - 1
          BY <2>1, <3>1, <4>1
        <5>. QED  BY <3>1, <3>2, <4>1, <5>1
      <4>2. CASE l = new /\ entry.m.list
        <5>1. DOMAIN l = {"by", "mode", "name"} /\ l.by = j
          BY <4>2
        <5>2. journal'[j].listed /\ journal'[j].state = entry.state
          BY <2>2, <3>2, <4>2 DEF entry, SameEntry
        <5>3. entry.state # "rolled_back"
          BY <1>2 DEF Unfinished
        <5>. QED  BY <2>1, <3>2, <5>1, <5>2, <5>3
      <4>. QED  BY <1>4, <3>3, <4>1, <4>2
    <3>. QED  BY <2>3, <3>3 DEF Listed
  <2>6. Inward
    BY <1>1, <2>3 DEF Inward, Applying
  <2>7. /\ disk' \in [Modes -> ModeTrees] /\ \A m \in Modes : m # mode => disk'[m] = disk[m]
        /\ ~disk'[mode].dir => disk'[mode] = NoTree
    BY <1>1, <2>1, DiskSame
  <2>8. stage' \in Stages
    BY <1>1, <1>2, Inside
  <2>. QED  BY <1>1, <1>2, <2>2, <2>3, <2>4, <2>5, <2>6, <2>7, <2>8, InnerStep
<1>. QED  BY <1>1, <1>3, <1>4

(* The playlists of an import are taken back before its documents          *)
(* (rollback_import).                                                      *)
LEMMA RollBackImportKeeps == ASSUME ModesIInv, RollBackImport PROVE ModesIInv'
<1> DEFINE mine == {l \in lists : l.by = j}
           ToFiles(bad) == work' = [work EXCEPT !.at = "roll_files", !.i = LastOf(Writes), !.bad = bad]
<1>1. /\ work.at = "roll_data" /\ UNCHANGED <<snapshot, told, asked, prior, unread, disturbed, disk, stage, journal>>
      /\ \/ /\ lists' = (IF entry.listed THEN lists \ mine ELSE lists)
            /\ ToFiles(FALSE)
         \/ ToFiles(TRUE) /\ UNCHANGED lists
         \/ GiveUp /\ UNCHANGED lists
  BY DEF RollBackImport, Within, Call, catalogs, history, GiveUp
<1>2. Unfinished
  BY <1>1, Opened DEF RollingBack
<1>3. CASE GiveUp /\ UNCHANGED lists
  BY <1>1, <1>3, GivesUp DEF Still, RollingBack
<1>4. ASSUME NEW bad \in BOOLEAN, ToFiles(bad), lists' \subseteq lists,
             ~bad => lists' = IF entry.listed THEN lists \ mine ELSE lists
      PROVE  ModesIInv'
  <2>1. LastOf(Slots(entry.m)) \in Slots(entry.m) /\ Slots(entry.m) \subseteq Nat /\ j > 0 /\ ModesTyped /\ j \in Nat
    BY <1>2, Inside, Places, Firsts
  <2>2. /\ work' \in Works /\ work'.at = "roll_files" /\ work'.i = LastOf(Slots(entry.m)) /\ work'.live = work.live
        /\ work'.bad = bad
    BY <1>2, <1>4, <2>1, Inside, WritesAre, Moving DEF Works
  <2>3. PICK v : v = work'
    OBVIOUS
  <2>4. /\ Staged(v, entry.m, entry.existed, j, stage)
        /\ Tracked(entry.m) => Going(v, entry.m, entry.existed, j, prior.modes[mode], disk[mode], stage)
    BY <1>1, <1>2, <2>2, <2>3, Inside, BackStart
  <2>5. SameEntry
    <3>1. journal \in Seq(Entries)
      BY <2>1 DEF ModesTyped
    <3>. QED  BY <1>1, <3>1, JournalSame DEF SameEntry
  <2>6. Listed'
    <3>1. /\ \A l \in lists : DOMAIN l = {"by", "mode", "name"} /\ l.by \in 0 .. j
          /\ \A l \in lists : l.by > 0 => journal[l.by].state # "rolled_back" /\ journal[l.by].listed
      BY DEF ModesIInv, Listed
    <3>2. ASSUME ~bad, NEW l \in lists' PROVE l.by # j
      <4>1. CASE entry.listed
        BY <1>4, <3>2, <4>1
      <4>2. CASE ~entry.listed
        BY <1>4, <2>1, <3>1, <3>2, <4>2 DEF entry
      <4>. QED  BY <4>1, <4>2
    <3>3. j' = j
      BY <2>5 DEF SameEntry
    <3>. QED  BY <1>1, <1>4, <2>2, <3>1, <3>2, <3>3 DEF Listed
  <2>7. Inward
    BY <1>1, <2>2 DEF Inward, RollingBack
  <2>8. /\ disk' \in [Modes -> ModeTrees] /\ \A m \in Modes : m # mode => disk'[m] = disk[m]
        /\ ~disk'[mode].dir => disk'[mode] = NoTree
    BY <1>1, <1>2, Inside, DiskSame
  <2>9. stage' \in Stages
    BY <1>1, <1>2, Inside
  <2> HIDE DEF ToFiles, mine
  <2>. QED  BY <1>1, <1>2, <2>2, <2>3, <2>4, <2>5, <2>6, <2>7, <2>8, <2>9, InnerStep
<1>5. CASE lists' = (IF entry.listed THEN lists \ mine ELSE lists) /\ ToFiles(FALSE)
  BY <1>4, <1>5
<1>6. CASE ToFiles(TRUE) /\ UNCHANGED lists
  BY <1>4, <1>6
<1>. QED  BY <1>1, <1>3, <1>5, <1>6

-----------------------------------------------------------------------------
(* The journal is closed. *)
Closed == {"committed", "rolled_back", "failed"}

(* A journal is closed: what stays true of the journals and the playlists. *)
LEMMA ClosedEntry ==
  ASSUME ModesIInv, Unfinished, NEW st \in Closed, Move(st), UNCHANGED lists, st = "rolled_back" => \A l \in lists : l.by # j,
         UNCHANGED <<disk, stage, prior, unread, disturbed, snapshot, told>>, work' \in Works,
         asked' = NoRequest \/ asked' = asked
  PROVE  /\ ModesTyped' /\ ~Unfinished' /\ j' = j /\ mode' = mode /\ entry'.state = st /\ entry'.m = entry.m
         /\ \A k \in 1 .. j' - 1 : journal'[k].state \notin Open
         /\ \A l \in lists' : DOMAIN l = {"by", "mode", "name"} /\ l.by \in 0 .. j'
         /\ \A l \in lists' : l.by > 0 => journal'[l.by].state # "rolled_back" /\ journal'[l.by].listed
<1>1. ModesTyped /\ j > 0 /\ j \in Nat
  BY Inside
<1>2. /\ journal' \in Seq(Entries) /\ j' = j /\ entry'.state = st /\ entry'.m = entry.m /\ mode' = mode
      /\ \A k \in 1 .. j : k # j => journal'[k] = journal[k]
      /\ \A k \in 1 .. j : journal'[k].listed = journal[k].listed
  BY <1>1, Moved DEF Closed, States
<1>3. ModesTyped'
  BY <1>1, <1>2 DEF ModesTyped
<1>4. ~Unfinished'
  BY <1>2 DEF Unfinished, Closed
<1>5. \A k \in 1 .. j' - 1 : journal'[k].state \notin Open
  BY <1>1, <1>2 DEF ModesIInv, Phased
<1>6. /\ \A l \in lists : DOMAIN l = {"by", "mode", "name"} /\ l.by \in 0 .. j
      /\ \A l \in lists : l.by > 0 => journal[l.by].state # "rolled_back" /\ journal[l.by].listed
  BY DEF ModesIInv, Listed
<1>7. ASSUME NEW l \in lists, l.by > 0
      PROVE  journal'[l.by].state # "rolled_back" /\ journal'[l.by].listed
  <2>1. l.by \in 1 .. j
    BY <1>1, <1>6, <1>7
  <2>2. CASE l.by = j
    BY <1>2, <1>6, <1>7, <2>1, <2>2 DEF entry
  <2>3. CASE l.by # j
    BY <1>2, <1>6, <1>7, <2>1, <2>3
  <2>. QED  BY <2>2, <2>3
<1>. QED  BY <1>2, <1>3, <1>4, <1>5, <1>6, <1>7

(* What the modes are, from the mode at work and the others.               *)
LEMMA BundlesAre ==
  ASSUME ModesTyped, mode \in Modes, \A m \in Modes \ {mode} : disk[m].docs = prior.modes[m],
         NEW b \in Bundle, disk[mode].docs = b
  PROVE  /\ Bundles = [prior.modes EXCEPT ![mode] = b]
         /\ b = prior.modes[mode] => Bundles = prior.modes
BY DEF Bundles, ModesTyped

(* The journal is committed (perform_mutation).                            *)
LEMMA CommitKeeps == ASSUME ModesIInv, Commit PROVE ModesIInv'
<1>1. /\ work.at = "commit" /\ UNCHANGED <<snapshot, told, asked, prior, unread, disturbed, disk, stage, lists>>
      /\ \/ Move("committed") /\ Goto("publish")
         \/ work' = [work EXCEPT !.at = "roll", !.fatal = TRUE] /\ UNCHANGED journal
  BY DEF Commit, Within, Call, catalogs, history
<1>2. Unfinished /\ work.live
  BY <1>1, Opened DEF Applying, ModesIInv, Phased
<1>3. CASE work' = [work EXCEPT !.at = "roll", !.fatal = TRUE] /\ UNCHANGED journal
  <2>1. work' \in Works /\ work'.at = "roll" /\ work'.live = work.live
    BY <1>2, <1>3, Inside, Moving DEF Works
  <2>2. Quiet /\ Onward /\ work'.at \in Leaving
    BY <1>1, <1>3, <2>1 DEF Quiet, Onward, Leaving, Applying
  <2>. QED  BY <1>1, <1>2, <2>1, <2>2, FailStep
<1>4. CASE Move("committed") /\ Goto("publish")
  <2>1. work' \in Works /\ work'.at = "publish" /\ work'.live = work.live /\ work'.bundle = work.bundle
    BY <1>2, <1>4, Inside, GotoOf, Moving
  <2>2. /\ ModesTyped' /\ ~Unfinished' /\ j' = j /\ mode' = mode /\ entry'.state = "committed" /\ entry'.m = entry.m
        /\ \A k \in 1 .. j' - 1 : journal'[k].state \notin Open
        /\ \A l \in lists' : DOMAIN l = {"by", "mode", "name"} /\ l.by \in 0 .. j'
        /\ \A l \in lists' : l.by > 0 => journal'[l.by].state # "rolled_back" /\ journal'[l.by].listed
    BY <1>1, <1>2, <1>4, <2>1, ClosedEntry DEF Closed
  <2>3. j > 0 /\ j \in Nat /\ mode \in Modes /\ ModesTyped /\ prior.modes[mode] \in Bundle /\ entry.m \in Mutations
    BY <1>2, Inside
  <2>4. Phased'
    BY <1>1, <2>1, <2>2, <2>3 DEF ModesIInv, Phased, Applying, RollingBack, Between, After
  <2>5. SawIt'
    BY <1>1, <2>1, <2>2 DEF ModesIInv, SawIt, Applying
  <2>6. Shown'
    <3>1. UnderWay /\ ~Restarting'
      BY <1>1, <2>1 DEF UnderWay, Applying, RollingBack, Restarting
    <3>2. \A m \in Modes : Right(m)' <=> Right(m)
      BY <1>1 DEF Right
    <3>. QED  BY <1>1, <2>1, <2>2, <3>1, <3>2 DEF ModesIInv, Shown
  <2>7. Listed'
    BY <2>1, <2>2 DEF Listed
  <2>8. Documents' /\ Found'
    BY <2>1, <2>2 DEF Documents, Found
  <2>9. ClosedAs'
    <3>1. SUFFICES ASSUME ~disturbed' PROVE Bundles' = [prior'.modes EXCEPT ![mode'] = Result(@, entry'.m)]
      BY <2>2 DEF ClosedAs
    <3>2. \A m \in Modes \ {mode} : disk[m].docs = prior.modes[m]
      BY <1>1, <1>2, <3>1 DEF ModesIInv, Documents
    <3>3. disk[mode].docs = Result(prior.modes[mode], entry.m)
      BY <1>1, <1>2, <3>1, Inside DEF Tracked, Going
    <3>4. Bundles = [prior.modes EXCEPT ![mode] = Result(prior.modes[mode], entry.m)]
      BY <2>3, <3>2, <3>3, BundlesAre, Results
    <3>. QED  BY <1>1, <2>2, <2>3, <3>4 DEF Bundles
  <2>. QED  BY <2>2, <2>4, <2>5, <2>6, <2>7, <2>8, <2>9 DEF ModesIInv
<1>. QED  BY <1>1, <1>3, <1>4

(* The journal is rolled back, and the coordinator goes on, ends or starts *)
(* (rollback_mode_mutation).                                               *)
LEMMA CloseJournalKeeps == ASSUME ModesIInv, CloseJournal PROVE ModesIInv'
<1>1. /\ work.at = "rolled" /\ UNCHANGED <<snapshot, told, prior, unread, disturbed, disk, stage, lists>>
      /\ asked' = NoRequest
      /\ \/ /\ Move("rolled_back")
            /\ work' = Resting(CASE ~work.live -> "clean" [] work.fatal -> "off" [] OTHER -> "idle")
         \/ work' = Resting(IF work.live THEN "off" ELSE "refused") /\ UNCHANGED journal
  BY DEF CloseJournal, Call, catalogs, history
<1>2. Unfinished
  BY <1>1, Opened DEF RollingBack
<1>3. CASE work' = Resting(IF work.live THEN "off" ELSE "refused") /\ UNCHANGED journal
  <2>1. PICK goal \in {"off", "refused"} : goal = IF work.live THEN "off" ELSE "refused"
    OBVIOUS
  <2>2. work' \in Works /\ work'.at = goal
    BY <1>3, <2>1, RestingOf, Moving
  <2>3. ModesTyped /\ j > 0 /\ j' = j /\ entry' = entry /\ mode' = mode /\ Unfinished' = Unfinished
    BY <1>2, <1>3, Inside, JournalSame
  <2>4. ModesTyped'
    BY <1>1, <1>3, <2>2, <2>3 DEF ModesTyped
  <2>5. Phased' /\ SawIt'
    BY <1>1, <1>3, <2>2, <2>3 DEF ModesIInv, Phased, SawIt, Applying, RollingBack, Between, After
  <2>6. Shown' /\ Found'
    BY <2>2 DEF Shown, UnderWay, Restarting, Found, Applying, RollingBack
  <2>7. Listed' /\ ClosedAs'
    <3>1. ClosedAs'
      BY <1>2, <2>3 DEF ClosedAs, Unfinished
    <3>. QED  BY <1>1, <1>3, <2>2, <2>3, <3>1 DEF ModesIInv, Listed
  <2>8. Documents'
    <3>1. Staged(work', entry.m, entry.existed, j, stage)
      BY <2>2, LeftStaged DEF Leaving
    <3>2. ASSUME Tracked(entry.m)
          PROVE  Going(work', entry.m, entry.existed, j, prior.modes[mode], disk[mode], stage)
      <4>1. Kept(entry.m, entry.existed, j, prior.modes[mode], disk[mode], stage, {})
        BY <1>1, <1>2, <3>2, Inside DEF Going
      <4>. QED  BY <2>2, <4>1, LeftGoing DEF Leaving
    <3>3. Tracked(entry.m)' = Tracked(entry.m)
      BY <1>1, <2>3 DEF Tracked
    <3>. QED  BY <1>1, <1>2, <2>3, <3>1, <3>2, <3>3 DEF ModesIInv, Documents
  <2>. QED  BY <2>4, <2>5, <2>6, <2>7, <2>8 DEF ModesIInv
<1>4. CASE /\ Move("rolled_back")
           /\ work' = Resting(CASE ~work.live -> "clean" [] work.fatal -> "off" [] OTHER -> "idle")
  <2>1. PICK goal \in {"clean", "off", "idle"} : goal = CASE ~work.live -> "clean" [] work.fatal -> "off" [] OTHER -> "idle"
    OBVIOUS
  <2>2. work' \in Works /\ work'.at = goal
    BY <1>4, <2>1, RestingOf, Moving
  <2>3. goal = "clean" => ~work.live
    BY <2>1
  <2>3a. goal = "idle" => work.live
    BY <2>1
  <2>4. \A l \in lists : l.by # j
    BY <1>1 DEF ModesIInv, Listed
  <2>5. /\ ModesTyped' /\ ~Unfinished' /\ j' = j /\ mode' = mode /\ entry'.state = "rolled_back" /\ entry'.m = entry.m
        /\ \A k \in 1 .. j' - 1 : journal'[k].state \notin Open
        /\ \A l \in lists' : DOMAIN l = {"by", "mode", "name"} /\ l.by \in 0 .. j'
        /\ \A l \in lists' : l.by > 0 => journal'[l.by].state # "rolled_back" /\ journal'[l.by].listed
    BY <1>1, <1>2, <1>4, <2>2, <2>4, ClosedEntry DEF Closed
  <2>6. j > 0 /\ j \in Nat /\ mode \in Modes /\ ModesTyped /\ prior.modes[mode] \in Bundle /\ entry.m \in Mutations
    BY <1>2, Inside
  <2>7. Tracked(entry.m) => disk[mode].docs = prior.modes[mode]
    BY <1>1, <1>2, Inside DEF Going
  <2>8. Phased' /\ SawIt'
    BY <1>1, <2>2, <2>5, <2>6 DEF ModesIInv, Phased, SawIt, Applying, RollingBack, Between, After
  <2>9. Shown'
    <3>1. ~UnderWay' /\ work'.at \notin {"staged", "finish", "replace"}
      BY <2>2 DEF UnderWay, Applying, RollingBack
    <3>2. Restarting' => snapshot'.gen = 0
      <4>1. Restarting' => Restarting
        BY <1>1, <2>2, <2>3 DEF Restarting, RollingBack
      <4>. QED  BY <1>1, <4>1 DEF ModesIInv, Shown
    <3>3. ASSUME work'.at = "idle", snapshot'.gen > 0
          PROVE  told' = snapshot' /\ \A m \in Modes \ unread' : Right(m)'
      <4>1. UnderWay
        BY <1>1, <2>2, <2>3a, <3>3 DEF UnderWay, RollingBack
      <4>2. /\ told = snapshot /\ \A m \in Modes \ unread : m # mode => Right(m)
            /\ mode \notin unread => snapshot.modes[mode] = prior.modes[mode]
        BY <1>1, <3>3, <4>1 DEF ModesIInv, Shown
      <4>3. mode \notin unread => Right(mode)
        BY <2>6, <2>7, <4>2 DEF Right, Tracked, mode
      <4>. QED  BY <1>1, <4>2, <4>3 DEF Right
    <3>. QED  BY <3>1, <3>2, <3>3 DEF Shown
  <2>10. Listed'
    BY <2>2, <2>5 DEF Listed
  <2>11. Documents' /\ Found'
    BY <2>2, <2>5 DEF Documents, Found
  <2>12. ClosedAs'
    <3>1. SUFFICES ASSUME ~disturbed' PROVE Bundles' = prior'.modes
      BY <2>5 DEF ClosedAs
    <3>2. \A m \in Modes \ {mode} : disk[m].docs = prior.modes[m]
      BY <1>1, <1>2, <3>1 DEF ModesIInv, Documents
    <3>3. disk[mode].docs = prior.modes[mode]
      BY <1>1, <2>7, <3>1 DEF Tracked
    <3>4. Bundles = prior.modes
      BY <2>6, <3>2, <3>3, BundlesAre
    <3>. QED  BY <1>1, <3>4 DEF Bundles
  <2>. QED  BY <2>5, <2>8, <2>9, <2>10, <2>11, <2>12 DEF ModesIInv
<1>. QED  BY <1>1, <1>3, <1>4

(* A rollback that failed is marked so and the coordinator ends            *)
(* (rollback_mode_mutation).                                               *)
LEMMA MarkFailedKeeps == ASSUME ModesIInv, MarkFailed PROVE ModesIInv'
<1>1. /\ work.at = "mark_failed" /\ UNCHANGED <<snapshot, told, asked, prior, unread, disturbed, disk, stage, lists>> /\ Die
      /\ Move("failed") \/ UNCHANGED journal
  BY DEF MarkFailed, Within, Call, catalogs, history
<1>2. Unfinished
  BY <1>1, Opened DEF RollingBack
<1>3. CASE UNCHANGED journal
  BY <1>1, <1>2, <1>3, Dies DEF Die, Quiet
<1>4. CASE Move("failed")
  <2>1. work' \in Works /\ work'.at = "off"
    BY <1>1, RestingOf, Moving DEF Die
  <2>2. /\ ModesTyped' /\ ~Unfinished' /\ j' = j /\ mode' = mode /\ entry'.state = "failed" /\ entry'.m = entry.m
        /\ \A k \in 1 .. j' - 1 : journal'[k].state \notin Open
        /\ \A l \in lists' : DOMAIN l = {"by", "mode", "name"} /\ l.by \in 0 .. j'
        /\ \A l \in lists' : l.by > 0 => journal'[l.by].state # "rolled_back" /\ journal'[l.by].listed
    BY <1>1, <1>2, <1>4, <2>1, ClosedEntry DEF Closed
  <2>3. Phased' /\ SawIt'
    BY <1>1, <2>1, <2>2 DEF ModesIInv, Phased, SawIt, Applying, RollingBack, Between, After
  <2>4. Shown' /\ Listed' /\ Documents' /\ Found' /\ ClosedAs'
    <3>1. Shown' /\ Found'
      BY <2>1 DEF Shown, UnderWay, Restarting, Found, Applying, RollingBack
    <3>2. Listed' /\ Documents' /\ ClosedAs'
      BY <2>1, <2>2 DEF Listed, Documents, ClosedAs
    <3>. QED  BY <3>1, <3>2
  <2>. QED  BY <2>2, <2>3, <2>4 DEF ModesIInv
<1>. QED  BY <1>1, <1>3, <1>4

-----------------------------------------------------------------------------
(* Between mutations no journal is open.                                   *)
LEMMA Quiescent ==
  ASSUME ModesIInv, work.at \in Between \union After
  PROVE  ~Unfinished /\ ModesTyped /\ j \in Nat
<1>1. ModesTyped /\ j \in Nat
  BY DEF ModesIInv, ModesTyped, j
<1>. QED  BY <1>1 DEF ModesIInv, Phased, Unfinished, Between, After

(* Nothing happens to the modes after the journal was closed.              *)
LEMMA ClosedAsSame ==
  ASSUME ClosedAs, UNCHANGED <<journal, prior, disturbed>>, Bundles' = Bundles
  PROVE  ClosedAs'
BY JournalSame DEF ClosedAs

(* A step that leaves journal and playlists as they are and goes somewhere *)
(* else.                                                                   *)
LEMMA ListedSame ==
  ASSUME Listed, UNCHANGED <<journal, lists>>, ~Cleared(work'), work'.at \notin Unlisted
  PROVE  Listed'
BY JournalSame DEF Listed, Cleared, Unlisted

(* The coordinator ends, or does not start, with no journal open.          *)
LEMMA EndsClosed ==
  ASSUME ModesIInv, ~Unfinished, NEW goal \in {"off", "refused"}, work' = Resting(goal),
         UNCHANGED <<journal, lists, disk, prior, disturbed, unread, asked, snapshot>>,
         stage' \in Stages, told' \in Catalogs
  PROVE  ModesIInv'
<1>1. work' \in Works /\ work'.at = goal
  BY RestingOf, Moving
<1>2. j' = j /\ entry' = entry /\ mode' = mode /\ Unfinished' = Unfinished
  BY JournalSame
<1>3. ModesTyped'
  BY <1>1 DEF ModesIInv, ModesTyped
<1>4. Phased' /\ SawIt'
  BY <1>1, <1>2 DEF ModesIInv, Phased, SawIt, Applying, RollingBack, Between, After
<1>5. Shown' /\ Found' /\ Documents'
  <2>1. Shown' /\ Found'
    BY <1>1 DEF Shown, UnderWay, Restarting, Found, Applying, RollingBack
  <2>. QED  BY <1>2, <2>1 DEF Documents
<1>6. Listed'
  BY <1>1, ListedSame DEF ModesIInv, Cleared, Unlisted
<1>7. ClosedAs'
  BY ClosedAsSame DEF ModesIInv, Bundles
<1>. QED  BY <1>3, <1>4, <1>5, <1>6, <1>7 DEF ModesIInv

(* The new catalog goes to the playback owner first (perform_mutation,     *)
(* publication).                                                           *)
LEMMA PublishKeeps == ASSUME ModesIInv, Publish PROVE ModesIInv'
<1>1. /\ work.at = "publish" /\ UNCHANGED <<snapshot, asked, prior, unread, disturbed, disk, stage, lists, journal>>
      /\ \/ /\ told' = [gen |-> snapshot.gen + 1, modes |-> [snapshot.modes EXCEPT ![mode] = work.bundle]]
            /\ Goto("replace")
         \/ Die /\ UNCHANGED told
  BY DEF Publish, history
<1>2. ~Unfinished /\ ModesTyped /\ j \in Nat /\ j > 0
  BY <1>1, Quiescent DEF After, ModesIInv, Phased
<1>3. CASE Die /\ UNCHANGED told
  BY <1>1, <1>2, <1>3, EndsClosed DEF Die, ModesTyped
<1>4. CASE /\ told' = [gen |-> snapshot.gen + 1, modes |-> [snapshot.modes EXCEPT ![mode] = work.bundle]]
           /\ Goto("replace")
  <2>1. work' \in Works /\ work'.at = "replace" /\ work'.bundle = work.bundle
    BY <1>2, <1>4, GotoOf, Moving
  <2>2. j' = j /\ entry' = entry /\ mode' = mode /\ Unfinished' = Unfinished
    BY <1>1, JournalSame
  <2>3. told' \in Catalogs
    BY <1>2, <1>4, EntryIs DEF ModesTyped, Catalogs, Works
  <2>4. ModesTyped'
    BY <1>1, <1>2, <2>1, <2>3 DEF ModesTyped
  <2>5. Phased' /\ SawIt'
    BY <1>1, <2>1, <2>2 DEF ModesIInv, Phased, SawIt, Applying, RollingBack, Between, After
  <2>6. Shown'
    <3>1. UnderWay /\ ~Restarting'
      BY <1>1, <2>1 DEF UnderWay, Restarting, RollingBack
    <3>2. \A m \in Modes : Right(m)' <=> Right(m)
      BY <1>1 DEF Right
    <3>. QED  BY <1>1, <1>4, <2>1, <2>2, <3>1, <3>2 DEF ModesIInv, Shown
  <2>7. Listed'
    BY <1>1, <2>1, ListedSame DEF ModesIInv, Cleared, Unlisted
  <2>8. Documents' /\ Found'
    BY <1>2, <2>1, <2>2 DEF Documents, Found
  <2>9. ClosedAs'
    BY <1>1, ClosedAsSame DEF ModesIInv, Bundles
  <2>. QED  BY <2>4, <2>5, <2>6, <2>7, <2>8, <2>9 DEF ModesIInv
<1>. QED  BY <1>1, <1>3, <1>4

(* Then the handlers see it (perform_mutation, catalog).                   *)
LEMMA ReplaceKeeps == ASSUME ModesIInv, ReplaceSnapshot PROVE ModesIInv'
<1>1. /\ work.at = "replace" /\ UNCHANGED <<told, asked, prior, disturbed, disk, stage, lists, journal>> /\ Goto("finish")
      /\ snapshot' = told
      /\ unread' = IF disk[mode].docs = work.bundle THEN unread \ {mode} ELSE unread \union {mode}
  BY DEF ReplaceSnapshot
<1>2. ~Unfinished /\ ModesTyped /\ j \in Nat /\ j > 0
  BY <1>1, Quiescent DEF After, ModesIInv, Phased
<1>3. work' \in Works /\ work'.at = "finish"
  BY <1>1, <1>2, GotoOf, Moving
<1>4. j' = j /\ entry' = entry /\ mode' = mode /\ Unfinished' = Unfinished /\ mode \in Modes
  BY <1>1, <1>2, JournalSame, EntryIs
<1>5. told = [gen |-> snapshot.gen + 1, modes |-> [snapshot.modes EXCEPT ![mode] = work.bundle]]
  BY <1>1 DEF ModesIInv, Shown
<1>6. asked # NoRequest /\ asked.gen = snapshot.gen /\ asked \in Requests
  BY <1>1, <1>2 DEF ModesIInv, SawIt, ModesTyped
<1>7. snapshot \in Catalogs /\ told \in Catalogs /\ snapshot.gen > 0 /\ told.gen = snapshot.gen + 1
  BY <1>2, <1>5, <1>6 DEF ModesTyped, Requests, Catalogs
<1>8. ModesTyped'
  BY <1>1, <1>2, <1>3, <1>4, <1>7 DEF ModesTyped
<1>9. Phased' /\ SawIt'
  <2>1. Phased'
    BY <1>1, <1>3, <1>4 DEF ModesIInv, Phased, Applying, RollingBack, Between, After
  <2>2. asked'.gen < snapshot'.gen /\ asked'.gen <= snapshot'.gen /\ asked'.gen # snapshot'.gen
    BY <1>1, <1>6, <1>7 DEF Catalogs
  <2>3. SawIt'
    BY <1>3, <2>2 DEF SawIt, Applying
  <2>. QED  BY <2>1, <2>3
<1>10. Shown'
  <2>1. ~UnderWay' /\ ~Restarting'
    BY <1>3 DEF UnderWay, Restarting, Applying, RollingBack
  <2>2. UnderWay
    BY <1>1 DEF UnderWay
  <2>3. \A m \in Modes \ unread : m # mode => Right(m)
    BY <1>7, <2>2 DEF ModesIInv, Shown
  <2>4. ASSUME NEW m \in Modes \ unread' PROVE snapshot'.modes[m] = disk'[m].docs
    <3>1. snapshot'.modes = [snapshot.modes EXCEPT ![mode] = work.bundle] /\ snapshot.modes \in [Modes -> Bundle]
      BY <1>1, <1>5, <1>7 DEF Catalogs
    <3>2. CASE m = mode
      BY <1>1, <1>4, <2>4, <3>1, <3>2
    <3>3. CASE m # mode
      BY <1>1, <2>3, <2>4, <3>1, <3>3 DEF Right
    <3>. QED  BY <3>2, <3>3
  <2>. QED  BY <1>1, <1>3, <2>1, <2>4 DEF Shown, Right
<1>11. Listed'
  BY <1>1, <1>3, ListedSame DEF ModesIInv, Cleared, Unlisted
<1>12. Documents' /\ Found'
  BY <1>2, <1>3, <1>4 DEF Documents, Found
<1>13. ClosedAs'
  BY <1>1, ClosedAsSame DEF ModesIInv, Bundles
<1>. QED  BY <1>8, <1>9, <1>10, <1>11, <1>12, <1>13 DEF ModesIInv

(* The stage of a committed mutation is removed (finish).                  *)
LEMMA FinishKeeps == ASSUME ModesIInv, Finish PROVE ModesIInv'
<1>1. /\ work.at = "finish" /\ UNCHANGED <<snapshot, told, prior, unread, disturbed, lists, journal>>
      /\ \/ disk' = [disk EXCEPT ![mode].marker = 0] /\ stage' = NoStage
         \/ UNCHANGED <<disk, stage>>
      /\ asked' = NoRequest /\ work' = Resting("idle")
  BY DEF Finish, catalogs, history
<1>2. ~Unfinished /\ ModesTyped /\ j \in Nat /\ j > 0
  BY <1>1, Quiescent DEF After, ModesIInv, Phased
<1>3. work' \in Works /\ work'.at = "idle"
  BY <1>1, RestingOf, Moving
<1>4. j' = j /\ entry' = entry /\ mode' = mode /\ Unfinished' = Unfinished /\ mode \in Modes
  BY <1>1, <1>2, JournalSame, EntryIs
<1>5. /\ disk' \in [Modes -> ModeTrees] /\ \A m \in Modes : ~disk'[m].dir => disk'[m] = NoTree
      /\ \A m \in Modes : disk'[m].docs = disk[m].docs
  <2>1. disk \in [Modes -> ModeTrees] /\ \A m \in Modes : ~disk[m].dir => disk[m] = NoTree
    BY <1>2 DEF ModesTyped
  <2>2. CASE UNCHANGED disk
    BY <2>1, <2>2
  <2>3. CASE disk' = [disk EXCEPT ![mode].marker = 0]
    <3>1. PICK u : u = [disk[mode] EXCEPT !.marker = 0]
      OBVIOUS
    <3>2. u \in ModeTrees /\ u.dir = disk[mode].dir /\ u.docs = disk[mode].docs /\ u.marker = 0
      BY <1>4, <2>1, <3>1 DEF ModeTrees
    <3>3. ASSUME ~u.dir PROVE u = NoTree
      <4>1. u.docs = NoBundle
        BY <1>4, <2>1, <3>2, <3>3, Empties
      <4>. QED  BY <3>2, <3>3, <4>1 DEF ModeTrees, NoTree
    <3>4. disk' = [disk EXCEPT ![mode] = u]
      BY <2>3, <3>1
    <3>. QED  BY <1>4, <2>1, <3>2, <3>3, <3>4
  <2>. QED  BY <1>1, <2>2, <2>3
<1>6. ModesTyped'
  BY <1>1, <1>2, <1>3, <1>5, Empties DEF ModesTyped
<1>7. Phased' /\ SawIt'
  BY <1>1, <1>2, <1>3, <1>4 DEF ModesIInv, Phased, SawIt, Applying, RollingBack, Between, After
<1>8. Shown'
  <2>1. ~UnderWay' /\ ~Restarting'
    BY <1>3 DEF UnderWay, Restarting, Applying, RollingBack
  <2>2. \A m \in Modes : Right(m)' <=> Right(m)
    BY <1>1, <1>5 DEF Right
  <2>. QED  BY <1>1, <1>3, <2>1, <2>2 DEF ModesIInv, Shown
<1>9. Listed'
  BY <1>1, <1>3, ListedSame DEF ModesIInv, Cleared, Unlisted
<1>10. Documents' /\ Found'
  BY <1>2, <1>3, <1>4 DEF Documents, Found
<1>11. ClosedAs'
  BY <1>1, <1>5, ClosedAsSame DEF ModesIInv, Bundles
<1>. QED  BY <1>6, <1>7, <1>8, <1>9, <1>10, <1>11 DEF ModesIInv

(* The stages nobody needs are removed at the start (cleanup_orphans).     *)
LEMMA CleanUpKeeps == ASSUME ModesIInv, CleanUpOrphans PROVE ModesIInv'
<1>1. /\ work.at = "clean" /\ UNCHANGED <<snapshot, told, asked, prior, unread, disturbed, disk, lists, journal>>
      /\ \/ stage' = NoStage /\ Goto("load")
         \/ work' = Resting("refused") /\ UNCHANGED stage
  BY DEF CleanUpOrphans, Within, Call, catalogs, history
<1>2. ~Unfinished /\ ModesTyped /\ j \in Nat
  BY <1>1, Quiescent DEF Between
<1>3. CASE work' = Resting("refused") /\ UNCHANGED stage
  BY <1>1, <1>2, <1>3, EndsClosed DEF ModesTyped
<1>4. CASE stage' = NoStage /\ Goto("load")
  <2>1. work' \in Works /\ work'.at = "load"
    BY <1>2, <1>4, GotoOf, Moving
  <2>2. j' = j /\ entry' = entry /\ mode' = mode /\ Unfinished' = Unfinished
    BY <1>1, JournalSame
  <2>3. ModesTyped'
    BY <1>1, <1>2, <1>4, <2>1, Empties DEF ModesTyped
  <2>4. Phased' /\ SawIt'
    BY <1>1, <1>2, <2>1, <2>2 DEF ModesIInv, Phased, SawIt, Applying, RollingBack, Between, After
  <2>5. Shown'
    <3>1. ~UnderWay' /\ Restarting
      BY <1>1, <2>1 DEF UnderWay, Restarting, Applying, RollingBack
    <3>. QED  BY <1>1, <2>1, <3>1 DEF ModesIInv, Shown
  <2>6. Listed'
    BY <1>1, <2>1, ListedSame DEF ModesIInv, Cleared, Unlisted
  <2>7. Documents' /\ Found'
    BY <1>2, <2>1, <2>2 DEF Documents, Found
  <2>8. ClosedAs'
    BY <1>1, ClosedAsSame DEF ModesIInv, Bundles
  <2>. QED  BY <2>3, <2>4, <2>5, <2>6, <2>7, <2>8 DEF ModesIInv
<1>. QED  BY <1>1, <1>3, <1>4

(* A request that is stale, or not allowed, is refused                     *)
(* (run_mode_coordinator).                                                 *)
LEMMA RejectKeeps == ASSUME ModesIInv, Reject PROVE ModesIInv'
<1>1. /\ work.at = "idle" /\ asked' = NoRequest
      /\ UNCHANGED <<snapshot, told, prior, unread, disturbed, disk, stage, lists, journal, work>>
  BY DEF Reject, catalogs, history
<1>2. j' = j /\ entry' = entry /\ mode' = mode /\ Unfinished' = Unfinished
  BY <1>1, JournalSame
<1>3. ~Unfinished /\ ModesTyped
  BY <1>1, Quiescent DEF Between
<1>4. ModesTyped'
  BY <1>1, <1>3 DEF ModesTyped
<1>5. Phased' /\ SawIt'
  BY <1>1, <1>2 DEF ModesIInv, Phased, SawIt, Applying
<1>6. Shown'
  BY <1>1, <1>2 DEF ModesIInv, Shown, UnderWay, Restarting, Right
<1>7. Listed' /\ Documents' /\ Found'
  BY <1>1, <1>2, <1>3 DEF ModesIInv, Listed, Documents, Found
<1>8. ClosedAs'
  BY <1>1, ClosedAsSame DEF ModesIInv, Bundles
<1>. QED  BY <1>4, <1>5, <1>6, <1>7, <1>8 DEF ModesIInv

-----------------------------------------------------------------------------
(* An admitted request is staged (prepare_inner).                          *)
LEMMA PrepareKeeps == ASSUME ModesIInv, Prepare PROVE ModesIInv'
<1>1. /\ work.at = "idle" /\ asked # NoRequest /\ Admitted(asked) /\ Stageable(asked.m)
      /\ stage' = CASE asked.m.op \in {"put", "import"} -> [NoStage EXCEPT !.cand = Result(NoBundle, asked.m)]
                    [] asked.m.op = "create_mode" ->
                         [NoStage EXCEPT !.tree = [dir |-> TRUE, docs |-> Result(NoBundle, asked.m), marker |-> j + 1]]
                    [] OTHER -> NoStage
      /\ prior' = [of |-> j + 1, modes |-> Bundles, lists |-> lists] /\ disturbed' = FALSE /\ Goto("staged")
      /\ UNCHANGED <<disk, journal, lists, snapshot, told, asked, unread>>
  BY DEF Prepare, catalogs
<1>2. ~Unfinished /\ ModesTyped /\ j \in Nat
  BY <1>1, Quiescent DEF Between
<1>3. work' \in Works /\ work'.at = "staged"
  BY <1>1, <1>2, GotoOf, Moving
<1>4. j' = j /\ entry' = entry /\ mode' = mode /\ Unfinished' = Unfinished
  BY <1>1, JournalSame
<1>5. asked \in Requests /\ asked.m \in Mutations /\ asked.m.mode \in Modes /\ disk[asked.m.mode] \in ModeTrees
  <2>1. asked \in Requests /\ asked.m \in Mutations
    BY <1>1, <1>2 DEF ModesTyped, Requests
  <2>. QED  BY <1>2, <2>1, MutationShape DEF Shape, ModesTyped
<1>6. PICK m \in Mutations : m = asked.m /\ m.mode \in Modes
  BY <1>5
<1>6a. PICK s : s = stage'
  OBVIOUS
<1>7. /\ s \in Stages
      /\ m.op \in {"put", "import"} => s.cand = Result(NoBundle, m) /\ s.back = NoBundle
      /\ m.op = "create_mode" => s.tree = NewTree(j + 1, m)
      /\ m.op \notin {"put", "import"} => s.back = NoBundle
      /\ m.op # "create_mode" => ~s.tree.dir
  <2>1. Result(NoBundle, m) \in Bundle /\ NewTree(j + 1, m) \in ModeTrees
    BY <1>2, Empties, Results
  <2>2. CASE m.op \in {"put", "import"}
    <3>1. s = [NoStage EXCEPT !.cand = Result(NoBundle, m)]
      BY <1>1, <1>6, <1>6a, <2>2
    <3>. QED  BY <2>1, <2>2, <3>1, Empties DEF Stages
  <2>3. CASE m.op = "create_mode"
    <3>1. s = [NoStage EXCEPT !.tree = NewTree(j + 1, m)]
      BY <1>1, <1>6, <1>6a, <2>3 DEF NewTree
    <3>. QED  BY <2>1, <2>3, <3>1, Empties DEF Stages
  <2>4. CASE m.op \notin {"put", "import", "create_mode"}
    <3>1. s = NoStage
      BY <1>1, <1>6, <1>6a, <2>4
    <3>. QED  BY <2>4, <3>1, Empties
  <2>. QED  BY <2>2, <2>3, <2>4
<1>8. Bundles \in [Modes -> Bundle] /\ \A x \in Modes : Bundles[x] = disk[x].docs
  BY <1>2 DEF Bundles, ModesTyped, ModeTrees
<1>9. ModesTyped'
  <2>1. DOMAIN prior' = {"of", "modes", "lists"} /\ prior'.of = j + 1 /\ prior'.modes = Bundles /\ disturbed' \in BOOLEAN
    BY <1>1
  <2>2. prior'.of \in Nat /\ prior'.modes \in [Modes -> Bundle] /\ stage' \in Stages
    BY <1>2, <1>6a, <1>7, <1>8, <2>1
  <2>3. UNCHANGED <<disk, journal, snapshot, told, asked, unread>>
    BY <1>1
  <2>. QED  BY <1>2, <1>3, <2>1, <2>2, <2>3 DEF ModesTyped
<1>10. Phased' /\ SawIt'
  <2>1. prior'.of = j + 1
    BY <1>1
  <2>2. asked.gen = snapshot.gen
    BY <1>1 DEF Admitted
  <2>3. Phased'
    BY <1>1, <1>2, <1>3, <1>4, <2>1 DEF ModesIInv, Phased, Applying, RollingBack, Between, After
  <2>4. SawIt'
    BY <1>1, <1>3, <1>4, <2>2 DEF ModesIInv, SawIt, Applying
  <2>. QED  BY <2>3, <2>4
<1>11. Shown'
  <2>1. ~UnderWay' /\ ~Restarting'
    BY <1>3 DEF UnderWay, Restarting, Applying, RollingBack
  <2>2. \A x \in Modes : Right(x)' <=> Right(x)
    BY <1>1 DEF Right
  <2>. QED  BY <1>1, <1>3, <2>1, <2>2 DEF ModesIInv, Shown
<1>12. Listed'
  BY <1>1, <1>3, ListedSame DEF ModesIInv, Cleared, Unlisted
<1>13. Documents'
  BY <1>2, <1>4 DEF Documents
<1>14. ClosedAs'
  <2>1. prior'.of # j'
    BY <1>1, <1>2, <1>4
  <2>. QED  BY <2>1 DEF ClosedAs
<1>15. Found'
  <2>1. asked' = asked /\ prior'.modes = Bundles /\ Bundles' = Bundles /\ j' = j /\ disk' = disk
    BY <1>1, <1>4 DEF Bundles
  <2>2. Fits(m, Bundles[m.mode])
    <3>1. m.op = "delete" => \A d \in DOMAIN m.docs : disk[m.mode].docs[d] # "none"
      BY <1>1, <1>6 DEF Stageable
    <3>2. m.op = "create_mode" => disk[m.mode].docs = NoBundle
      BY <1>1, <1>2, <1>6, Empties DEF Stageable, ModesTyped
    <3>. QED  BY <1>6, <1>8, <3>1, <3>2 DEF Fits
  <2>3. m.op = "create_mode" => disk[m.mode] = NoTree
    BY <1>1, <1>2, <1>6 DEF Stageable, ModesTyped
  <2>4. \A d \in DOMAIN m.docs : Ahead(m, s, d)
    <3>1. DOMAIN m.docs \subseteq Docs
      BY MutationShape DEF Shape
    <3>2. \A d \in DOMAIN m.docs : Result(NoBundle, m)[d] = m.docs[d]
      BY Empties, Results
    <3>. QED  BY <1>7, <3>1, <3>2, Empties DEF Ahead
  <2>. QED  BY <1>6, <1>6a, <1>7, <1>8, <2>1, <2>2, <2>3, <2>4 DEF Found
<1>. QED  BY <1>9, <1>10, <1>11, <1>12, <1>13, <1>14, <1>15 DEF ModesIInv

(* What was found and staged is what the plan starts from.                 *)
LEMMA PlanStart ==
  ASSUME NEW m \in Mutations, NEW ex, NEW n, NEW p \in Bundle, NEW t \in ModeTrees, NEW s, NEW w, w.at = "planned",
         ex = {d \in DOMAIN m.docs : p[d] # "none"}, t.docs = p, \A d \in DOMAIN m.docs : Ahead(m, s, d),
         m.op = "create_mode" => t = NoTree, m.op = "delete_mode" => ~s.tree.dir
  PROVE  Going(w, m, ex, n, p, t, s)
<1>1. \A d \in DOMAIN m.docs : Held(m, ex, p, t, s, d)
  BY DEF Held, Ahead
<1>2. Kept(m, ex, n, p, t, s, {})
  BY <1>1 DEF Kept, FilesKept
<1>. QED  BY <1>2 DEF Going

(* The journal of a staged mutation is created (perform_mutation).         *)
LEMMA CreateJournalKeeps == ASSUME ModesIInv, CreateJournal PROVE ModesIInv'
<1> DEFINE e == [m |-> asked.m, state |-> "planned", listed |-> FALSE,
                 existed |-> {d \in DOMAIN asked.m.docs : prior.modes[asked.m.mode][d] # "none"}]
<1>1. /\ work.at = "staged" /\ UNCHANGED <<disk, lists, snapshot, told, asked, prior, unread, disturbed>>
      /\ \/ journal' = Append(journal, e) /\ Goto("planned") /\ UNCHANGED stage
         \/ stage' = NoStage /\ Die /\ UNCHANGED journal
  BY DEF CreateJournal, catalogs, history
<1>2. ~Unfinished /\ ModesTyped /\ j \in Nat
  BY <1>1, Quiescent DEF Between
<1>3. CASE stage' = NoStage /\ Die /\ UNCHANGED journal
  BY <1>1, <1>2, <1>3, EndsClosed, Empties DEF Die, ModesTyped
<1>4. CASE journal' = Append(journal, e) /\ Goto("planned") /\ UNCHANGED stage
  <2>1. asked \in Requests /\ asked.m \in Mutations /\ asked.m.mode \in Modes /\ asked.gen = snapshot.gen /\ asked # NoRequest
    <3>1. asked \in Requests /\ asked # NoRequest /\ asked.gen = snapshot.gen
      BY <1>1, <1>2 DEF ModesTyped, ModesIInv, SawIt
    <3>2. asked.m \in Mutations
      BY <3>1 DEF Requests
    <3>. QED  BY <3>1, <3>2, MutationShape DEF Shape
  <2>2. DOMAIN asked.m.docs \subseteq Docs
    BY <2>1, MutationShape DEF Shape
  <2>3. e \in Entries /\ e.m = asked.m /\ e.state = "planned" /\ e.listed = FALSE
        /\ e.existed = {d \in DOMAIN asked.m.docs : prior.modes[asked.m.mode][d] # "none"}
    BY <2>1, <2>2 DEF Entries, States, Open
  <2> HIDE DEF e
  <2>4. journal \in Seq(Entries) /\ j = Len(journal)
    BY <1>2 DEF ModesTyped, j
  <2>5. /\ journal' \in Seq(Entries) /\ Len(journal') = j + 1 /\ journal'[j + 1] = e
        /\ \A k \in 1 .. j : journal'[k] = journal[k]
    BY <1>4, <2>3, <2>4
  <2>6. j' = j + 1 /\ entry' = e /\ mode' = asked.m.mode
    BY <2>3, <2>5 DEF j, entry, mode
  <2>7. work' \in Works /\ work'.at = "planned"
    BY <1>2, <1>4, GotoOf, Moving
  <2>8. ModesTyped'
    BY <1>1, <1>2, <1>4, <2>5, <2>7 DEF ModesTyped
  <2>9. Phased'
    <3>1. \A k \in 1 .. j : journal[k].state \notin Open
      <4>1. \A k \in 1 .. j - 1 : journal[k].state \notin Open
        BY DEF ModesIInv, Phased
      <4>2. j > 0 => journal[j].state \notin Open
        BY <1>2 DEF Unfinished, entry, Open
      <4>. QED  BY <1>2, <4>1, <4>2
    <3>2. \A k \in 1 .. j' - 1 : journal'[k].state \notin Open
      BY <1>2, <2>5, <2>6, <3>1
    <3>3. prior'.of = j' /\ j' > 0
      BY <1>1, <1>2, <2>6 DEF ModesIInv, Phased
    <3>4. entry'.state = "planned"
      BY <2>3, <2>6
    <3>. QED  BY <2>7, <3>2, <3>3, <3>4 DEF Phased, Applying, RollingBack, Between, After
  <2>10. SawIt'
    BY <1>1, <2>1, <2>3, <2>6, <2>7 DEF ModesIInv, SawIt, Applying
  <2>11. snapshot.gen > 0
    BY <2>1 DEF Requests
  <2>12. /\ told = snapshot /\ \A m \in Modes \ unread : Right(m)
    BY <1>1, <2>11 DEF ModesIInv, Shown
  <2>13. Found
    BY DEF ModesIInv
  <2>14. Shown'
    <3>1. ~Restarting'
      BY <2>7 DEF Restarting, RollingBack
    <3>2. \A m \in Modes : Right(m)' <=> Right(m)
      BY <1>1 DEF Right
    <3>3. asked.m.mode \notin unread => snapshot.modes[asked.m.mode] = prior.modes[asked.m.mode]
      BY <1>1, <2>1, <2>12, <2>13 DEF Found, Right
    <3>. QED  BY <1>1, <2>6, <2>7, <2>12, <3>1, <3>2, <3>3 DEF Shown
  <2>15. Listed'
    <3>1. /\ \A l \in lists : DOMAIN l = {"by", "mode", "name"} /\ l.by \in 0 .. j
          /\ \A l \in lists : l.by > 0 => journal[l.by].state # "rolled_back" /\ journal[l.by].listed
      BY DEF ModesIInv, Listed
    <3>2. \A l \in lists : /\ l.by \in 0 .. j' /\ l.by # j'
                           /\ l.by > 0 => journal'[l.by] = journal[l.by]
      BY <1>2, <2>5, <2>6, <3>1
    <3>. QED  BY <1>1, <2>7, <3>1, <3>2 DEF Listed
  <2>16. Documents'
    <3>1. PICK m \in Mutations : m = asked.m /\ m = e.m /\ m.mode \in Modes /\ mode' = m.mode
      BY <2>1, <2>3, <2>6
    <3>2. PICK p \in Bundle, t \in ModeTrees : p = prior.modes[m.mode] /\ t = disk[m.mode]
      BY <1>2, <3>1 DEF ModesTyped
    <3>3. PICK ex, w : ex = e.existed /\ w = work'
      OBVIOUS
    <3>4. /\ Fits(m, p) /\ \A d \in DOMAIN m.docs : Ahead(m, stage, d)
          /\ m.op = "create_mode" => stage.tree = NewTree(j + 1, m)
          /\ ~disturbed => Bundles = prior.modes
          /\ Tracked(m) /\ m.op = "create_mode" => t = NoTree
          /\ Tracked(m) /\ m.op = "delete_mode" => ~stage.tree.dir
      BY <1>1, <2>13, <3>1, <3>2 DEF Found
    <3>5. ex = {d \in DOMAIN m.docs : p[d] # "none"} /\ w.at = "planned"
      BY <2>3, <2>7, <3>1, <3>2, <3>3
    <3>6. Staged(w, m, ex, j + 1, stage)
      BY <3>4, <3>5 DEF Staged
    <3>7. ASSUME Tracked(m) PROVE Going(w, m, ex, j + 1, p, t, stage)
      <4>1. t.docs = p
        <5>1. CASE ~disturbed
          BY <1>2, <3>1, <3>2, <3>4, <5>1 DEF Bundles
        <5>2. CASE m.mode \notin unread
          BY <1>1, <2>13, <3>1, <3>2, <5>2 DEF Found
        <5>. QED  BY <3>7, <5>1, <5>2 DEF Tracked
      <4>. QED  BY <3>4, <3>5, <3>7, <4>1, PlanStart
    <3>8. ~disturbed => \A x \in Modes : disk[x].docs = prior.modes[x]
      BY <3>4 DEF Bundles
    <3>9. prior.of = j + 1
      BY <1>1 DEF ModesIInv, Phased
    <3>10. /\ entry'.m = m /\ entry'.existed = ex /\ j' = j + 1 /\ prior' = prior /\ disk' = disk /\ stage' = stage /\ mode' = m.mode
           /\ disturbed' = disturbed
      BY <1>1, <1>4, <2>6, <3>1, <3>3
    <3>11. Tracked(entry.m)' => Tracked(m)
      BY <1>1, <3>10 DEF Tracked
    <3>. QED  BY <3>2, <3>3, <3>4, <3>5, <3>6, <3>7, <3>8, <3>9, <3>10, <3>11 DEF Documents
  <2>17. Found' /\ ClosedAs'
    BY <2>3, <2>6, <2>7 DEF Found, ClosedAs
  <2>. QED  BY <2>8, <2>9, <2>10, <2>14, <2>15, <2>16, <2>17 DEF ModesIInv
<1>. QED  BY <1>1, <1>3, <1>4

-----------------------------------------------------------------------------
(* The process starts and takes up the journal it finds open               *)
(* (recover_mode_mutations).                                               *)
LEMMA StartKeeps == ASSUME ModesIInv, Start PROVE ModesIInv'
<1>1. /\ work.at \in {"off", "refused"}
      /\ work' = Resting(IF ~Unfinished THEN "clean"
                         ELSE IF entry.state = "rolling_back" THEN "roll_data" ELSE "roll")
      /\ snapshot' = NoCatalog /\ told' = NoCatalog /\ asked' = NoRequest
      /\ UNCHANGED <<disk, stage, journal, lists, prior, unread, disturbed>>
  BY DEF Start, history
<1>2. PICK goal \in {"clean", "roll_data", "roll"} :
        goal = IF ~Unfinished THEN "clean" ELSE IF entry.state = "rolling_back" THEN "roll_data" ELSE "roll"
  OBVIOUS
<1>3. work' \in Works /\ work'.at = goal /\ ~work'.live
  BY <1>1, <1>2, RestingOf, Moving
<1>4. j' = j /\ entry' = entry /\ mode' = mode /\ Unfinished' = Unfinished
  BY <1>1, JournalSame
<1>5. /\ goal = "clean" => ~Unfinished
      /\ goal = "roll_data" => Unfinished /\ entry.state = "rolling_back"
      /\ goal = "roll" => Unfinished /\ entry.state \in {"planned", "applying"}
  BY <1>2 DEF Unfinished
<1>6. ModesTyped'
  <2>1. NoCatalog \in Catalogs
    BY Empties DEF NoCatalog, Catalogs
  <2>. QED  BY <1>1, <1>3, <2>1 DEF ModesIInv, ModesTyped
<1>7. Phased' /\ SawIt'
  <2>1. Unfinished => j > 0
    BY DEF Unfinished
  <2>2. Phased'
    BY <1>1, <1>3, <1>4, <1>5, <2>1 DEF ModesIInv, Phased, Applying, RollingBack, Between, After
  <2>3. SawIt'
    BY <1>1, <1>3 DEF SawIt, Applying
  <2>. QED  BY <2>2, <2>3
<1>8. Shown' /\ Found'
  <2>1. ~UnderWay' /\ snapshot'.gen = 0
    BY <1>1, <1>3 DEF UnderWay, NoCatalog, Applying
  <2>. QED  BY <1>3, <2>1 DEF Shown, Found
<1>9. Listed'
  BY <1>1, <1>3, ListedSame DEF ModesIInv, Cleared, Unlisted
<1>10. Documents'
  <2>1. SUFFICES ASSUME Unfinished PROVE Documents'
    BY <1>4 DEF Documents
  <2>2. work'.at \in Leaving
    BY <1>3, <1>5, <2>1 DEF Leaving
  <2>3. Staged(work', entry.m, entry.existed, j, stage)
    BY <2>2, LeftStaged
  <2>4. ASSUME Tracked(entry.m)
        PROVE  Going(work', entry.m, entry.existed, j, prior.modes[mode], disk[mode], stage)
    <3>1. Kept(entry.m, entry.existed, j, prior.modes[mode], disk[mode], stage, {})
      BY <1>1, <2>1, <2>4, Inside DEF Going
    <3>. QED  BY <2>2, <3>1, LeftGoing
  <2>5. Tracked(entry.m)' = Tracked(entry.m)
    BY <1>1, <1>4 DEF Tracked
  <2>. QED  BY <1>1, <1>4, <2>1, <2>3, <2>4, <2>5 DEF ModesIInv, Documents
<1>11. ClosedAs'
  BY <1>1, ClosedAsSame DEF ModesIInv, Bundles
<1>. QED  BY <1>6, <1>7, <1>8, <1>9, <1>10, <1>11 DEF ModesIInv

(* The modes are read again and the catalog replaced (perform_reload).     *)
LEMMA ReloadKeeps == ASSUME ModesIInv, PerformReload PROVE ModesIInv'
<1>a. /\ work.at \in {"load", "idle"} /\ UNCHANGED <<disk, stage, journal, lists, asked, prior, disturbed>>
      /\ \/ /\ told' = [gen |-> snapshot.gen + 1, modes |-> Bundles] /\ snapshot' = told' /\ unread' = {}
            /\ work' = Resting("idle")
         \/ UNCHANGED <<snapshot, told, unread>> /\ work' = Resting("idle")
         \/ UNCHANGED <<snapshot, told, unread>> /\ work' = Resting("off")
  BY DEF PerformReload, catalogs, Die
<1>2. ~Unfinished /\ ModesTyped /\ j \in Nat
  BY <1>a, Quiescent DEF Between
<1>b. CASE UNCHANGED <<snapshot, told, unread>> /\ work' = Resting("off")
  BY <1>a, <1>b, <1>2, EndsClosed DEF ModesTyped
<1>c. SUFFICES ASSUME work' = Resting("idle") PROVE ModesIInv'
  BY <1>a, <1>b
<1>1. /\ work.at \in {"load", "idle"} /\ work' = Resting("idle")
      /\ UNCHANGED <<disk, stage, journal, lists, asked, prior, disturbed>>
      /\ \/ /\ told' = [gen |-> snapshot.gen + 1, modes |-> Bundles] /\ snapshot' = told' /\ unread' = {}
         \/ UNCHANGED <<snapshot, told, unread>>
  BY <1>a, <1>c
<1>3. work' \in Works /\ work'.at = "idle"
  BY <1>1, RestingOf, Moving
<1>4. j' = j /\ entry' = entry /\ mode' = mode /\ Unfinished' = Unfinished
  BY <1>1, JournalSame
<1>5. Bundles \in [Modes -> Bundle] /\ Bundles' = Bundles /\ \A x \in Modes : Bundles[x] = disk[x].docs
  BY <1>1, <1>2 DEF Bundles, ModesTyped, ModeTrees
<1>6. Phased' /\ Documents' /\ Found'
  BY <1>1, <1>2, <1>3, <1>4 DEF ModesIInv, Phased, Documents, Found, Applying, RollingBack, Between, After
<1>7. Listed'
  BY <1>1, <1>3, ListedSame DEF ModesIInv, Cleared, Unlisted
<1>8. ClosedAs'
  BY <1>1, <1>5, ClosedAsSame DEF ModesIInv
<1>9. ~UnderWay' /\ ~Restarting'
  BY <1>3 DEF UnderWay, Restarting, Applying, RollingBack
<1>10. CASE told' = [gen |-> snapshot.gen + 1, modes |-> Bundles] /\ snapshot' = told' /\ unread' = {}
  <2>1. told' \in Catalogs /\ snapshot'.gen = snapshot.gen + 1 /\ snapshot.gen \in Nat /\ snapshot'.modes = Bundles
    BY <1>2, <1>5, <1>10 DEF ModesTyped, Catalogs
  <2>2. ModesTyped'
    BY <1>1, <1>2, <1>3, <1>10, <2>1 DEF ModesTyped
  <2>3. asked' # NoRequest => asked'.gen < snapshot'.gen /\ asked'.gen <= snapshot'.gen /\ asked'.gen # snapshot'.gen
    BY <1>1, <1>2, <2>1 DEF ModesIInv, SawIt, ModesTyped, Requests
  <2>4. SawIt'
    BY <1>3, <2>3 DEF SawIt, Applying
  <2>5. Shown'
    BY <1>1, <1>3, <1>5, <1>9, <1>10, <2>1 DEF Shown, Right
  <2>. QED  BY <1>6, <1>7, <1>8, <2>2, <2>4, <2>5 DEF ModesIInv
<1>11. CASE UNCHANGED <<snapshot, told, unread>>
  <2>1. ModesTyped' /\ SawIt'
    BY <1>1, <1>2, <1>3, <1>4, <1>11 DEF ModesIInv, ModesTyped, SawIt, Applying
  <2>2. work.at = "load" => snapshot.gen = 0
    BY DEF ModesIInv, Shown, Restarting
  <2>3. \A m \in Modes : Right(m)' <=> Right(m)
    BY <1>1, <1>11 DEF Right
  <2>4. snapshot.gen > 0 => work.at = "idle"
    BY <1>1, <2>2
  <2>5. Shown'
    BY <1>3, <1>9, <1>11, <2>3, <2>4 DEF ModesIInv, Shown
  <2>. QED  BY <1>6, <1>7, <1>8, <2>1, <2>5 DEF ModesIInv
<1>. QED  BY <1>1, <1>10, <1>11

(* The process ends at any step and its journal, stage and documents stay. *)
LEMMA CrashKeeps == ASSUME ModesIInv, Crash PROVE ModesIInv'
<1>1. work' = Resting("off") /\ UNCHANGED <<disk, stage, journal, lists, snapshot, told, asked, prior>>
      /\ IF work.at = "release" THEN Torn ELSE UNCHANGED <<unread, disturbed>>
  BY DEF Crash, catalogs, Die
<1>2. CASE work.at = "release"
  <2>1. work' \in Works /\ work'.at = "off"
    BY <1>1, RestingOf, AllSteps
  <2>. QED  BY <1>1, <1>2, <2>1, TornKeeps
<1>3. CASE work.at # "release" /\ Unfinished
  BY <1>1, <1>3, Dies DEF Quiet
<1>4. CASE work.at # "release" /\ ~Unfinished
  BY <1>1, <1>4, EndsClosed DEF ModesIInv, ModesTyped
<1>. QED  BY <1>2, <1>3, <1>4

(* A handler reads the catalog and asks for a change of what it saw        *)
(* (commit).                                                               *)
LEMMA AskKeeps == ASSUME ModesIInv, NEW m \in Mutations, Ask(m) PROVE ModesIInv'
<1>1. /\ asked = NoRequest /\ snapshot.gen > 0 /\ asked' = [m |-> m, gen |-> snapshot.gen, saw |-> snapshot.modes[m.mode]]
      /\ UNCHANGED <<disk, stage, journal, lists, snapshot, told, work, prior, unread, disturbed>>
  BY DEF Ask, catalogs, history
<1>2. j' = j /\ entry' = entry /\ mode' = mode /\ Unfinished' = Unfinished
  BY <1>1, JournalSame
<1>3. m.mode \in Modes /\ ModesTyped
  BY MutationShape DEF Shape, ModesIInv
<1>4. asked' \in Requests /\ asked'.gen = snapshot.gen /\ asked'.saw = snapshot.modes[m.mode] /\ asked'.m = m
      /\ snapshot.gen \in Nat
  BY <1>1, <1>3 DEF ModesTyped, Catalogs, Requests
<1>5. work.at \notin Applying \union {"planned", "publish", "replace", "staged"}
  BY <1>1 DEF ModesIInv, SawIt
<1>6. ModesTyped'
  BY <1>1, <1>3, <1>4 DEF ModesTyped
<1>7. SawIt'
  BY <1>1, <1>4, <1>5 DEF SawIt
<1>8. Phased' /\ Listed'
  BY <1>1, <1>2 DEF ModesIInv, Phased, Listed
<1>9. Shown'
  BY <1>1, <1>2 DEF ModesIInv, Shown, UnderWay, Restarting, Right
<1>10. Documents'
  BY <1>1, <1>2 DEF ModesIInv, Documents, Tracked
<1>11. Found' /\ ClosedAs'
  <2>1. Found'
    BY <1>1, <1>5 DEF Found
  <2>2. ClosedAs'
    BY <1>1, ClosedAsSame DEF ModesIInv, Bundles
  <2>. QED  BY <2>1, <2>2
<1>. QED  BY <1>6, <1>7, <1>8, <1>9, <1>10, <1>11 DEF ModesIInv

(* A document is edited by hand, at any step.                              *)
LEMMA EditKeeps == ASSUME ModesIInv, NEW e \in Edits, Edit(e) PROVE ModesIInv'
<1>1. /\ disk' = [disk EXCEPT ![e.mode].dir = TRUE, ![e.mode].docs[e.doc] = e.value]
      /\ unread' = unread \union {e.mode} /\ disturbed' = TRUE
      /\ UNCHANGED <<stage, journal, lists, snapshot, told, asked, work, prior>>
  BY DEF Edit, catalogs
<1>2. e.mode \in Modes /\ e.doc \in Docs /\ e.value \in Values
  BY ModeMutationAssumption
<1>3. ModesTyped
  BY DEF ModesIInv
<1>4. j' = j /\ entry' = entry /\ mode' = mode /\ Unfinished' = Unfinished
  BY <1>1, JournalSame
<1>5. /\ disk' \in [Modes -> ModeTrees] /\ disk'[e.mode].dir /\ \A m \in Modes : m # e.mode => disk'[m] = disk[m]
  <2>1. PICK u : u = [disk[e.mode] EXCEPT !.dir = TRUE, !.docs[e.doc] = e.value]
    OBVIOUS
  <2>2. disk \in [Modes -> ModeTrees]
    BY <1>3 DEF ModesTyped
  <2>3. u \in ModeTrees /\ u.dir
    BY <1>2, <2>1, <2>2 DEF ModeTrees, Bundle
  <2>4. disk' = [disk EXCEPT ![e.mode] = u]
    BY <1>1, <1>2, <2>1, <2>2
  <2>. QED  BY <1>2, <2>2, <2>3, <2>4
<1>6. ModesTyped'
  <2>1. \A m \in Modes : ~disk'[m].dir => disk'[m] = NoTree
    BY <1>3, <1>5 DEF ModesTyped
  <2>. QED  BY <1>1, <1>2, <1>3, <1>5, <2>1 DEF ModesTyped
<1>7. Phased' /\ SawIt' /\ Listed'
  BY <1>1, <1>4 DEF ModesIInv, Phased, SawIt, Listed
<1>8. Shown'
  <2>1. \A m \in Modes \ unread' : m \in Modes \ unread /\ (Right(m)' <=> Right(m))
    BY <1>1, <1>5 DEF Right
  <2>2. mode' \notin unread' => mode \notin unread
    BY <1>1, <1>4
  <2>3. (UnderWay' <=> UnderWay) /\ (Restarting' <=> Restarting)
    BY <1>1 DEF UnderWay, Restarting
  <2>. QED  BY <1>1, <1>4, <2>1, <2>2, <2>3 DEF ModesIInv, Shown
<1>10. Documents'
  <2>1. SUFFICES ASSUME Unfinished PROVE Documents'
    BY <1>4 DEF Documents
  <2>2. entry.m \in Mutations /\ mode \in Modes /\ entry.m.mode = mode
    BY <2>1, Inside DEF mode
  <2>3. Tracked(entry.m)' => Tracked(entry.m) /\ disk'[mode] = disk[mode]
    BY <1>1, <1>4, <1>5, <2>2 DEF Tracked
  <2>. QED  BY <1>1, <1>4, <2>1, <2>3 DEF ModesIInv, Documents
<1>11. Found'
  <2>1. SUFFICES ASSUME work.at = "staged" PROVE Found'
    BY <1>1 DEF Found
  <2>2. asked.m \in Mutations /\ asked.m.mode \in Modes
    <3>1. asked.m \in Mutations
      BY <1>3, <2>1 DEF ModesIInv, SawIt, ModesTyped, Requests
    <3>. QED  BY <3>1, MutationShape DEF Shape
  <2>3. asked.m.mode \notin unread' => asked.m.mode \notin unread /\ disk'[asked.m.mode] = disk[asked.m.mode]
    BY <1>1, <1>5, <2>2
  <2>4. Tracked(asked.m)' => Tracked(asked.m) /\ disk'[asked.m.mode] = disk[asked.m.mode]
    BY <1>1, <2>3 DEF Tracked
  <2>. QED  BY <1>1, <1>4, <2>1, <2>3, <2>4 DEF ModesIInv, Found
<1>12. ClosedAs'
  BY <1>1 DEF ClosedAs
<1>. QED  BY <1>6, <1>7, <1>8, <1>10, <1>11, <1>12 DEF ModesIInv

(* A playlist is renamed or deleted by its own handlers, at any step.      *)
LEMMA EditListsKeeps == ASSUME ModesIInv, EditLists PROVE ModesIInv'
<1>1. /\ disturbed' = TRUE
      /\ \/ \E m \in Modes : lists' = lists \union {[by |-> 0, mode |-> m, name |-> "imported"]}
         \/ \E l \in lists : lists' = (lists \ {l}) \union {[l EXCEPT !.name = "renamed"]}
      /\ UNCHANGED <<disk, stage, journal, snapshot, told, asked, work, prior, unread>>
  BY DEF EditLists, catalogs
<1>2. j' = j /\ entry' = entry /\ mode' = mode /\ Unfinished' = Unfinished /\ ModesTyped /\ j \in Nat
  BY <1>1, JournalSame DEF ModesIInv, ModesTyped, j
<1>3. ModesTyped' /\ Phased' /\ SawIt'
  BY <1>1, <1>2 DEF ModesIInv, ModesTyped, Phased, SawIt
<1>4. Shown'
  BY <1>1, <1>2 DEF ModesIInv, Shown, UnderWay, Restarting, Right
<1>5. Listed'
  <2>1. ASSUME NEW l \in lists' PROVE DOMAIN l = {"by", "mode", "name"} /\ (l.by = 0 \/ \E k \in lists : l.by = k.by)
    <3>1. \A k \in lists : DOMAIN k = {"by", "mode", "name"}
      BY DEF ModesIInv, Listed
    <3>2. CASE l \in lists
      BY <3>1, <3>2
    <3>3. CASE \E m \in Modes : l = [by |-> 0, mode |-> m, name |-> "imported"]
      BY <3>3
    <3>4. CASE \E k \in lists : l = [k EXCEPT !.name = "renamed"]
      <4>1. PICK k \in lists : l = [k EXCEPT !.name = "renamed"]
        BY <3>4
      <4>. QED  BY <3>1, <4>1
    <3>. QED  BY <1>1, <2>1, <3>2, <3>3, <3>4
  <2>2. Listed
    BY DEF ModesIInv
  <2>3. ASSUME NEW l \in lists' PROVE /\ l.by \in 0 .. j
                                      /\ l.by > 0 => journal[l.by].state # "rolled_back" /\ journal[l.by].listed
    <3>1. CASE l.by = 0
      BY <1>2, <3>1
    <3>2. CASE \E k \in lists : l.by = k.by
      BY <2>2, <3>2 DEF Listed
    <3>. QED  BY <2>1, <3>1, <3>2
  <2>4. (\A l \in lists : l.by # j) /\ j > 0 => \A l \in lists' : l.by # j
    BY <2>1
  <2>5. Cleared(work) \/ work.at \in Unlisted => j > 0
    BY DEF ModesIInv, Phased, Cleared, Unlisted, Applying, RollingBack
  <2>6. Cleared(work) \/ work.at \in Unlisted => \A l \in lists : l.by # j
    BY <2>2 DEF Listed, Cleared, Unlisted
  <2>. QED  BY <1>1, <1>2, <2>1, <2>3, <2>4, <2>5, <2>6 DEF Listed, Cleared, Unlisted
<1>7. Documents' /\ ClosedAs'
  <2>1. ClosedAs'
    BY <1>1 DEF ClosedAs
  <2>2. Tracked(entry.m)' => Tracked(entry.m)
    BY <1>1, <1>2 DEF Tracked
  <2>. QED  BY <1>1, <1>2, <2>1, <2>2 DEF ModesIInv, Documents
<1>8. Found'
  <2>1. Tracked(asked.m)' => Tracked(asked.m)
    BY <1>1 DEF Tracked
  <2>. QED  BY <1>1, <1>2, <2>1 DEF ModesIInv, Found
<1>. QED  BY <1>3, <1>4, <1>5, <1>7, <1>8 DEF ModesIInv

-----------------------------------------------------------------------------
(* The first state.                                                        *)
LEMMA ModesInit == ASSUME Init PROVE ModesIInv
<1>1. /\ disk = [m \in Modes |-> [dir |-> FirstDisk[m] # NoBundle, docs |-> FirstDisk[m], marker |-> 0]]
      /\ stage = NoStage /\ journal = <<>> /\ lists = {} /\ snapshot = NoCatalog /\ told = NoCatalog /\ asked = NoRequest
      /\ work = Resting("off") /\ prior = [of |-> 0, modes |-> Bundles, lists |-> {}] /\ unread = {} /\ disturbed = FALSE
  BY DEF Init
<1>2. work \in Works /\ work.at = "off"
  BY <1>1, RestingOf, Moving
<1>3. j = 0 /\ ~Unfinished
  BY <1>1 DEF j, Unfinished
<1>4. disk \in [Modes -> ModeTrees] /\ \A m \in Modes : ~disk[m].dir => disk[m] = NoTree
  <2>1. \A m \in Modes : FirstDisk[m] \in Bundle
    BY ModeMutationAssumption DEF Bundle
  <2>2. ASSUME NEW m \in Modes
        PROVE  disk[m] \in ModeTrees /\ (~disk[m].dir => disk[m] = NoTree)
    BY <1>1, <2>1 DEF ModeTrees, NoTree
  <2>. QED  BY <1>1, <2>2
<1>5. Bundles \in [Modes -> Bundle]
  BY <1>4 DEF Bundles, ModeTrees
<1>6. ModesTyped
  <2>1. NoCatalog \in Catalogs
    BY Empties DEF NoCatalog, Catalogs
  <2>2. DOMAIN prior = {"of", "modes", "lists"} /\ prior.of \in Nat /\ prior.modes \in [Modes -> Bundle]
    BY <1>1, <1>5
  <2>3. journal \in Seq(Entries) /\ stage \in Stages /\ unread \subseteq Modes /\ disturbed \in BOOLEAN
    <3>1. journal \in Seq(Entries)
      BY <1>1, <<>> \in Seq(Entries)
    <3>2. stage \in Stages
      BY <1>1, Empties
    <3>3. unread \subseteq Modes /\ disturbed \in BOOLEAN
      BY <1>1
    <3>. QED  BY <3>1, <3>2, <3>3
  <2>. QED  BY <1>1, <1>2, <1>4, <2>1, <2>2, <2>3 DEF ModesTyped
<1>7. Phased
  BY <1>1, <1>2, <1>3 DEF Phased, Applying, RollingBack, Between, After
<1>8. SawIt /\ Shown /\ Found
  BY <1>1, <1>2 DEF SawIt, Shown, Found, UnderWay, Restarting, Applying, RollingBack
<1>9. Listed /\ Documents /\ ClosedAs
  BY <1>1, <1>3 DEF Listed, Documents, ClosedAs
<1>. QED  BY <1>6, <1>7, <1>8, <1>9 DEF ModesIInv

(* Every step.                                                             *)
LEMMA ModesNext == ASSUME ModesIInv, [Next]_vars PROVE ModesIInv'
<1>1. CASE UNCHANGED vars
  <2>1. UNCHANGED <<disk, stage, journal, lists, snapshot, told, asked, work, prior, unread, disturbed>>
    BY <1>1 DEF vars
  <2>2. j' = j /\ entry' = entry /\ mode' = mode /\ Unfinished' = Unfinished /\ Bundles' = Bundles
    BY <2>1, JournalSame DEF Bundles
  <2>3. ModesTyped' /\ Phased' /\ SawIt' /\ Listed'
    BY <2>1, <2>2 DEF ModesIInv, ModesTyped, Phased, SawIt, Listed
  <2>4. Shown'
    BY <2>1, <2>2 DEF ModesIInv, Shown, UnderWay, Restarting, Right
  <2>5. Documents' /\ Found' /\ ClosedAs'
    BY <2>1, <2>2 DEF ModesIInv, Documents, Found, ClosedAs, Tracked
  <2>. QED  BY <2>3, <2>4, <2>5 DEF ModesIInv
<1>2. CASE Coordinator
  BY <1>2, RejectKeeps, PrepareKeeps, CreateJournalKeeps, StartApplyingKeeps, BackUpKeeps, PlaceKeeps, CheckKeeps,
     LinkKeeps, ReleaseKeeps, MoveAwayKeeps, PublishTreeKeeps, MoveTreeAwayKeeps, ApplyImportKeeps, VerifyKeeps, CommitKeeps,
     PublishKeeps, ReplaceKeeps, FinishKeeps, StartRollbackKeeps, RollBackImportKeeps, ReplacedKeeps, RestoreKeeps,
     CreatedKeeps, DeleteKeeps, TreeKeeps, PartlyKeeps, RestoreTreeKeeps, RemoveStageKeeps, CloseJournalKeeps, MarkFailedKeeps,
     CleanUpKeeps DEF Coordinator
<1>3. CASE Start \/ PerformReload \/ Crash \/ EditLists
  BY <1>3, StartKeeps, ReloadKeeps, CrashKeeps, EditListsKeeps
<1>4. CASE \E m \in Mutations : Ask(m)
  BY <1>4, AskKeeps
<1>5. CASE \E e \in Edits : Edit(e)
  BY <1>5, EditKeeps
<1>. QED  BY <1>1, <1>2, <1>3, <1>4, <1>5 DEF Next

(* The invariant implies what the handlers and the playback owner rely on. *)
LEMMA ModesTrue == ASSUME ModesIInv PROVE ModesAreTrue
<1>1. Restored
  BY DEF ModesIInv, ClosedAs, Restored
<1>2. CatalogIsDisk
  BY DEF ModesIInv, Shown, Right, CatalogIsDisk
<1>3. ListsOfCommitted
  <2>1. SUFFICES ASSUME work.at = "idle", NEW l \in lists, l.by > 0
                 PROVE  journal[l.by].state \in {"committed", "failed"}
    BY DEF ListsOfCommitted
  <2>2. ~Unfinished /\ ModesTyped /\ j \in Nat
    BY <2>1, Quiescent DEF Between
  <2>3. l.by \in 1 .. j /\ journal[l.by].state # "rolled_back"
    BY <2>1, <2>2 DEF ModesIInv, Listed
  <2>4. journal[l.by].state \in States
    <3>1. journal \in Seq(Entries) /\ l.by \in 1 .. Len(journal)
      BY <2>2, <2>3 DEF ModesTyped, j
    <3>2. journal[l.by] \in Entries
      BY <3>1
    <3>. QED  BY <3>2 DEF Entries
  <2>5. journal[l.by].state \notin Open
    <3>1. CASE l.by = j
      BY <2>2, <2>3, <3>1 DEF Unfinished, entry, Open
    <3>2. CASE l.by # j
      <4>1. l.by \in 1 .. j - 1
        BY <2>2, <2>3, <3>2
      <4>. QED  BY <4>1 DEF ModesIInv, Phased
    <3>. QED  BY <3>1, <3>2
  <2>. QED  BY <2>3, <2>4, <2>5 DEF States
<1>. QED  BY <1>1, <1>2, <1>3 DEF ModesAreTrue

(* For every set of modes, documents, mutations and edits by hand, and any *)
(* number of mutations, failed calls and deaths of the process: between    *)
(* mutations the documents of all modes are exactly as the newest mutation *)
(* found them if its journal says rolled back, and with exactly its        *)
(* documents in them if it says committed; an imported playlist is there   *)
(* only if its import was committed or its rollback failed; and the        *)
(* handlers and the playback owner have one catalog, which is what the     *)
(* directory holds, except for modes edited by hand and not read since     *)
(* (perform_mutation, rollback_mode_mutation, recover_mode_mutations,      *)
(* perform_reload).                                                        *)
(*                                                                         *)
(* There is no hypothesis: calls that are not atomic fail and are cut off  *)
(* too. A link whose candidate is not removed is taken by the rollback for *)
(* a foreign document (mode_mutation.rs:845); the mutation it happens in   *)
(* counts as disturbed, as if a user had edited under it, and only what is *)
(* said of a rollback is not said of that one. A created tree whose        *)
(* removal stops half way (mode_mutation.rs:792) is not an exception.      *)
THEOREM ModesStayTrue == Spec => []ModesAreTrue
<1>1. Init => ModesIInv
  BY ModesInit
<1>2. ModesIInv /\ [Next]_vars => ModesIInv'
  BY ModesNext
<1>3. ModesIInv => ModesAreTrue
  BY ModesTrue
<1>. QED  BY <1>1, <1>2, <1>3, PTL DEF Spec

(* For every set of modes, mutations and edits by hand, and any number of  *)
(* failures and deaths: what is committed is what the handler saw with its *)
(* change in it. The comparison of generations is enough for that although *)
(* the documents are read, staged, written, read back and committed in     *)
(* many steps, and the handler read the catalog before all of them         *)
(* (expected_generation in perform_mutation). A mutation a user's edit     *)
(* falls into is excepted, as is one that left a candidate beside its      *)
(* document, which never commits (mode_mutation.rs:845).                   *)
THEOREM CommitsAreSeen == Spec => CommitsWhatWasSeen
<1>1. Init => ModesIInv
  BY ModesInit
<1>2. ModesIInv /\ [Next]_vars => ModesIInv'
  BY ModesNext
<1>3. ModesIInv => (work.at = "commit" /\ mode \notin unread => work.bundle = Result(asked.saw, asked.m))
  <2>1. SUFFICES ASSUME ModesIInv, work.at = "commit", mode \notin unread
                 PROVE  work.bundle = Result(asked.saw, asked.m)
    OBVIOUS
  <2>2. Unfinished
    BY <2>1, Opened DEF Applying
  <2>3. work.bundle = Result(prior.modes[mode], entry.m)
    BY <2>1, <2>2, Inside DEF Going, Tracked, mode
  <2>4. /\ asked.m = entry.m /\ asked # NoRequest /\ asked.gen = snapshot.gen /\ asked.saw = snapshot.modes[mode]
        /\ snapshot.gen > 0
    BY <2>1 DEF ModesIInv, SawIt, Applying, ModesTyped, Requests, mode
  <2>5. snapshot.modes[mode] = prior.modes[mode]
    BY <2>1, <2>4 DEF ModesIInv, Shown, UnderWay, Applying
  <2>. QED  BY <2>3, <2>4, <2>5
<1>4. ModesIInv /\ [Next]_vars =>
        [work.at = "commit" /\ work'.at = "publish" /\ mode \notin unread
           => work.bundle = Result(asked.saw, asked.m)]_vars
  BY <1>3
<1>. QED  BY <1>1, <1>2, <1>4, PTL DEF Spec, CommitsWhatWasSeen

-----------------------------------------------------------------------------
(* What the refinement needs besides: that the mutation was made from and  *)
(* allowed for what the handler saw, and which playlists are there while   *)
(* nobody edits them.                                                      *)
Working == {"staged", "planned"} \union Applying
NewList == [by |-> j, mode |-> mode, name |-> "imported"]

Promised ==
  /\ asked # NoRequest => MadeFrom(asked.saw, asked.m)
  /\ work.at \in Working => Permitted(asked.saw, asked.m)
  /\ work.at = "staged" /\ ~disturbed => lists = prior.lists
  /\ Unfinished /\ ~disturbed => {l \in lists : l.by # j} = prior.lists
  /\ work.at \in {"verify", "commit"} /\ ~disturbed =>
       /\ lists = prior.lists \union (IF entry.m.list THEN {NewList} ELSE {})
       /\ entry.m.list => \A l \in prior.lists : ~(l.mode = mode /\ l.name = "imported")

(* A step that asks for nothing, starts no mutation and leaves the playlists. *)
Calm ==
  /\ asked' = asked \/ asked' = NoRequest
  /\ UNCHANGED <<lists, prior>> /\ (~disturbed' => ~disturbed)
  /\ j' = j /\ (Unfinished' => Unfinished)
  /\ j > 0 => entry'.m = entry.m
  /\ work'.at \in Working => work.at \in Working
  /\ work'.at = "staged" => work.at = "staged"
  /\ work'.at \in {"verify", "commit"} => work.at \in {"verify", "commit"}

(* Such a step keeps it. *)
LEMMA CalmPromised == ASSUME ModesIInv, ModesIInv', Promised, Calm PROVE Promised'
<1>1. work'.at \in Working => asked' = asked
  BY DEF ModesIInv, SawIt, Working, Calm
<1>2. work.at \in {"verify", "commit"} => j > 0
  BY DEF ModesIInv, Phased, Applying
<1>3. j > 0 => mode' = mode
  BY DEF Calm, mode
<1>4. /\ asked' # NoRequest => MadeFrom(asked'.saw, asked'.m)
      /\ work'.at \in Working => Permitted(asked'.saw, asked'.m)
  BY <1>1 DEF Calm, Promised
<1>5. work'.at = "staged" /\ ~disturbed' => lists' = prior'.lists
  BY DEF Calm, Promised
<1>6. Unfinished' /\ ~disturbed' => {l \in lists' : l.by # j'} = prior'.lists
  BY DEF Calm, Promised
<1>7. ASSUME work'.at \in {"verify", "commit"}, ~disturbed'
      PROVE  /\ lists' = prior'.lists \union (IF entry'.m.list THEN {NewList'} ELSE {})
             /\ entry'.m.list => \A l \in prior'.lists : ~(l.mode = mode' /\ l.name = "imported")
  <2>1. work.at \in {"verify", "commit"} /\ ~disturbed /\ j > 0 /\ entry'.m = entry.m /\ mode' = mode /\ j' = j
        /\ lists' = lists /\ prior' = prior
    BY <1>2, <1>3, <1>7 DEF Calm
  <2>2. NewList' = NewList
    BY <2>1 DEF NewList
  <2>. QED  BY <2>1, <2>2 DEF Promised
<1>. QED  BY <1>4, <1>5, <1>6, <1>7 DEF Promised

-----------------------------------------------------------------------------
(* What the store shows stays if the journal does and, between mutations,  *)
(* the documents and the playlists do.                                     *)
LEMMA StoreSame ==
  ASSUME UNCHANGED <<journal, prior>>, Unfinished \/ (Bundles' = Bundles /\ lists' = lists)
  PROVE  UNCHANGED Store!vars
<1>1. Unfinished' = Unfinished /\ Committed' = Committed
  BY JournalSame DEF Committed
<1>2. (IF Unfinished THEN prior.modes ELSE Bundles)' = IF Unfinished THEN prior.modes ELSE Bundles
  BY <1>1
<1>3. Imported(IF Unfinished THEN prior.lists ELSE lists)' = Imported(IF Unfinished THEN prior.lists ELSE lists)
  BY <1>1 DEF Imported
<1>. QED  BY <1>1, <1>2, <1>3 DEF Store!vars

(* The same when the newest journal moves between open states. *)
LEMMA StoreMoved ==
  ASSUME ModesIInv, Unfinished, prior' = prior, NEW st \in Open, Move(st)
  PROVE  UNCHANGED Store!vars
<1>1. ModesTyped /\ j > 0 /\ j \in Nat /\ Open \subseteq States
  BY Inside DEF States
<1>2. j' = j /\ entry'.state = st /\ journal' \in Seq(Entries) /\ \A k \in 1 .. j : k # j => journal'[k] = journal[k]
  BY <1>1, Moved
<1>3. Unfinished'
  BY <1>1, <1>2 DEF Unfinished, Open
<1>4. DOMAIN journal = 1 .. j /\ DOMAIN journal' = 1 .. j
  BY <1>1, <1>2 DEF j, ModesTyped
<1>5. entry.state # "committed" /\ entry'.state # "committed"
  BY <1>2 DEF Unfinished, Open
<1>6. \A k \in 1 .. j : journal'[k].state = "committed" <=> journal[k].state = "committed"
  BY <1>2, <1>5 DEF entry
<1>7. Committed' = Committed
  BY <1>4, <1>6 DEF Committed
<1>. QED  BY <1>3, <1>7 DEF Store!vars

-----------------------------------------------------------------------------
(* The file-system calls of a mutation, forwards and back. *)
Inner ==
  \/ BackUp \/ Place \/ CheckHash \/ Link \/ Release \/ MoveAway \/ PublishTree \/ MoveTreeAway \/ Verify
  \/ RollBackReplaced \/ Restore \/ RollBackCreated \/ RollBackDelete \/ RollBackTree \/ RemovePartly \/ RestoreTree \/ RemoveStage

\* Where such a call leads.
Led ==
  \/ work.at \in Applying /\ work'.at \in {"apply", "place", "check", "release", "data", "roll"}
  \/ work.at = "verify" /\ work'.at \in {"commit", "roll"}
  \/ work.at \in RollingBack /\ work'.at \in RollingBack \union {"refused", "off"}

(* An error while applying or while rolling back leads away from the plan. *)
LEMMA AwayLed ==
  ASSUME ModesIInv, \/ work.at \in Applying /\ Retreat
                    \/ work.at \in RollingBack /\ GiveUp
  PROVE  Led
<1>1. ModesTyped /\ work \in Works
  BY DEF ModesIInv, ModesTyped
<1>2. CASE work.at \in Applying /\ Retreat
  BY <1>1, <1>2, GotoOf, Moving DEF Retreat, Led
<1>3. CASE work.at \in RollingBack /\ GiveUp
  BY <1>1, <1>3, RestingOf, Moving DEF GiveUp, Led, Works, RollingBack
<1>. QED  BY <1>2, <1>3

(* They leave the request, the journal, the playlists and what was found.  *)
LEMMA InnerLed ==
  ASSUME ModesIInv, Inner
  PROVE  /\ UNCHANGED <<asked, journal, lists, prior>> /\ disturbed' \in {disturbed, TRUE} /\ Led
<1>1. ModesTyped /\ work \in Works
  BY DEF ModesIInv, ModesTyped
<1>2. work.at \in Applying \union RollingBack => Slots(entry.m) \subseteq Nat
  <2>1. SUFFICES ASSUME work.at \in Applying \union RollingBack PROVE Slots(entry.m) \subseteq Nat
    OBVIOUS
  <2>2. entry.m \in Mutations
    BY <2>1, Opened, EntryIs
  <2>3. Slots(entry.m) \subseteq 1 .. 3
    BY <2>2, Places
  <2>. QED  BY <2>3
<1>3. ASSUME work.at \in Applying, NextWrite PROVE Led
  <2>1. work'.at \in {"data", "apply"}
    BY <1>1, <1>2, <1>3, NextIs
  <2>. QED  BY <1>3, <2>1 DEF Led
<1>4. ASSUME work.at \in RollingBack, PreviousWrite PROVE Led
  <2>1. work'.at \in {"roll_stage", "roll_files"}
    BY <1>1, <1>2, <1>4, PreviousIs
  <2>. QED  BY <1>4, <2>1 DEF Led, RollingBack
<1>5. ASSUME NEW goal \in Steps, Goto(goal),
             \/ work.at \in Applying /\ goal \in {"place", "check", "release", "data"}
             \/ work.at \in RollingBack /\ goal \in RollingBack
      PROVE  Led
  <2>1. work'.at = goal
    BY <1>1, <1>5, GotoOf
  <2>. QED  BY <1>5, <2>1 DEF Led
<1>6. CASE BackUp
  <2>1. work.at = "apply" /\ UNCHANGED <<asked, journal, lists, prior, disturbed>> /\ (Goto("place") \/ Retreat)
    BY <1>6 DEF BackUp, Within, Call, Retreat, history
  <2>. QED  BY <2>1, <1>5, AwayLed, Moving DEF Applying
<1>7. CASE Place
  <2>1. work.at = "place" /\ UNCHANGED <<asked, journal, lists, prior, disturbed>> /\ (Goto("check") \/ Retreat)
    BY <1>7 DEF Place, Within, Call, Retreat, history
  <2>. QED  BY <2>1, <1>5, AwayLed, Moving DEF Applying
<1>8. CASE CheckHash
  <2>1. work.at = "check" /\ UNCHANGED <<asked, journal, lists, prior, disturbed>> /\ (NextWrite \/ Retreat)
    BY <1>8 DEF CheckHash, Within, Call, Retreat, history
  <2>. QED  BY <2>1, <1>3, AwayLed DEF Applying
<1>9. CASE Link
  <2>1. work.at = "apply" /\ UNCHANGED <<asked, journal, lists, prior, disturbed>> /\ (Goto("release") \/ Retreat)
    BY <1>9 DEF Link, Within, Call, Retreat, history
  <2>. QED  BY <2>1, <1>5, AwayLed, Moving DEF Applying
<1>10. CASE Release
  <2>1. work.at = "release" /\ UNCHANGED <<asked, journal, lists, prior>> /\ disturbed' \in {disturbed, TRUE}
        /\ (NextWrite \/ Retreat)
    BY <1>10 DEF Release, Torn, Retreat
  <2>. QED  BY <2>1, <1>3, AwayLed DEF Applying
<1>11. CASE MoveAway
  <2>1. work.at = "apply" /\ UNCHANGED <<asked, journal, lists, prior, disturbed>> /\ (Goto("data") \/ Retreat)
    BY <1>11 DEF MoveAway, Within, Call, Retreat, history
  <2>. QED  BY <2>1, <1>5, AwayLed, Moving DEF Applying
<1>12. CASE PublishTree
  <2>1. work.at = "apply" /\ UNCHANGED <<asked, journal, lists, prior, disturbed>> /\ (Goto("data") \/ Retreat)
    BY <1>12 DEF PublishTree, Within, Call, Retreat, history
  <2>. QED  BY <2>1, <1>5, AwayLed, Moving DEF Applying
<1>13. CASE MoveTreeAway
  <2>1. work.at = "apply" /\ UNCHANGED <<asked, journal, lists, prior, disturbed>> /\ (Goto("data") \/ Retreat)
    BY <1>13 DEF MoveTreeAway, Within, Call, Retreat, history
  <2>. QED  BY <2>1, <1>5, AwayLed, Moving DEF Applying
<1>14. CASE Verify
  <2>1. /\ work.at = "verify" /\ UNCHANGED <<asked, journal, lists, prior, disturbed>>
        /\ work' = [work EXCEPT !.at = "commit", !.bundle = disk[mode].docs] \/ Retreat
    BY <1>14 DEF Verify, Within, Call, Retreat, history
  <2>2. CASE Retreat
    BY <2>1, <2>2, AwayLed DEF Applying
  <2>3. CASE work' = [work EXCEPT !.at = "commit", !.bundle = disk[mode].docs]
    <3>1. work'.at = "commit"
      BY <1>1, <2>3 DEF Works
    <3>. QED  BY <2>1, <3>1 DEF Led
  <2>. QED  BY <2>1, <2>2, <2>3
<1>15. CASE RollBackReplaced
  <2>1. /\ work.at = "roll_files" /\ UNCHANGED <<asked, journal, lists, prior, disturbed>>
        /\ PreviousWrite \/ Goto("restore") \/ GiveUp
    BY <1>15 DEF RollBackReplaced, Within, Call, GiveUp, history
  <2>. QED  BY <2>1, <1>4, <1>5, AwayLed, Moving DEF RollingBack
<1>16. CASE Restore
  <2>1. work.at = "restore" /\ UNCHANGED <<asked, journal, lists, prior, disturbed>> /\ (PreviousWrite \/ GiveUp)
    BY <1>16 DEF Restore, Within, Call, GiveUp, history
  <2>. QED  BY <2>1, <1>4, AwayLed DEF RollingBack
<1>17. CASE RollBackCreated
  <2>1. work.at = "roll_files" /\ UNCHANGED <<asked, journal, lists, prior, disturbed>> /\ (PreviousWrite \/ GiveUp)
    BY <1>17 DEF RollBackCreated, Within, Call, GiveUp, history
  <2>. QED  BY <2>1, <1>4, AwayLed DEF RollingBack
<1>18. CASE RollBackDelete \/ RollBackTree \/ RestoreTree
  <2>1. work.at = "roll_files" /\ UNCHANGED <<asked, journal, lists, prior, disturbed>> /\ (Goto("roll_stage") \/ GiveUp)
    BY <1>18 DEF RollBackDelete, RollBackTree, RestoreTree, Within, Call, GiveUp, history
  <2>. QED  BY <2>1, <1>5, AwayLed, Moving DEF RollingBack
<1>20. CASE RemovePartly
  <2>1. work.at = "roll_files" /\ UNCHANGED <<asked, journal, lists, prior, disturbed>> /\ (Die \/ GiveUp)
    BY <1>20 DEF RemovePartly, GiveUp, history
  <2>2. CASE Die
    <3>1. work'.at = "off"
      BY <2>2, RestingOf, Moving DEF Die
    <3>. QED  BY <2>1, <3>1 DEF Led, RollingBack
  <2>. QED  BY <2>1, <2>2, AwayLed DEF RollingBack
<1>19. CASE RemoveStage
  <2>1. /\ work.at = "roll_stage" /\ UNCHANGED <<asked, journal, lists, prior, disturbed>>
        /\ Goto(IF work.bad THEN "mark_failed" ELSE "rolled") \/ GiveUp
    BY <1>19 DEF RemoveStage, Within, Call, GiveUp, history
  <2>2. PICK goal \in {"mark_failed", "rolled"} : goal = IF work.bad THEN "mark_failed" ELSE "rolled"
    OBVIOUS
  <2>. QED  BY <2>1, <2>2, <1>5, AwayLed, Moving DEF RollingBack
<1>. QED  BY <1>6, <1>7, <1>8, <1>9, <1>10, <1>11, <1>12, <1>13, <1>14, <1>15, <1>16, <1>17, <1>18, <1>19, <1>20 DEF Inner

(* Nothing of it is seen. *)
LEMMA InnerRefines ==
  ASSUME ModesIInv, ModesIInv', Promised, Inner
  PROVE  Promised' /\ UNCHANGED Store!vars
<1>1. UNCHANGED <<asked, journal, lists, prior>> /\ disturbed' \in {disturbed, TRUE} /\ Led
  BY InnerLed
<1>2. Unfinished /\ j' = j /\ entry' = entry /\ Unfinished' = Unfinished
  BY <1>1, Opened, JournalSame DEF Led, Applying
<1>3. ~disturbed' => ~disturbed
  BY <1>1, Zenon
<1>4. Calm
  BY <1>1, <1>2, <1>3 DEF Calm, Led, Working, Applying, RollingBack
<1>. QED  BY <1>1, <1>2, <1>4, CalmPromised, StoreSame

-----------------------------------------------------------------------------
(* The journal moves from one open state to another. *)
LEMMA StartApplyingRefines ==
  ASSUME ModesIInv, ModesIInv', Promised, StartApplying
  PROVE  Promised' /\ UNCHANGED Store!vars
<1>1. /\ work.at = "planned" /\ UNCHANGED <<asked, lists, prior, disturbed>>
      /\ \/ Move("applying") /\ work' = [work EXCEPT !.at = "apply", !.i = FirstOf(Writes), !.live = TRUE]
         \/ Die /\ UNCHANGED journal
  BY DEF StartApplying, Within, Call, history
<1>2. Unfinished /\ j > 0 /\ ModesTyped /\ work \in Works
  BY <1>1, Opened DEF ModesTyped
<1>3. CASE Move("applying") /\ work' = [work EXCEPT !.at = "apply", !.i = FirstOf(Writes), !.live = TRUE]
  <2>1. j' = j /\ entry'.m = entry.m
    BY <1>2, <1>3, Moved DEF States, Open
  <2>2. work'.at = "apply"
    BY <1>2, <1>3 DEF Works
  <2>3. Calm
    BY <1>1, <1>2, <2>1, <2>2 DEF Calm, Working
  <2>. QED  BY <1>1, <1>2, <1>3, <2>3, CalmPromised, StoreMoved DEF Open
<1>4. CASE Die /\ UNCHANGED journal
  <2>1. work'.at = "off"
    BY <1>4, RestingOf, Moving DEF Die
  <2>2. Calm
    BY <1>1, <1>2, <1>4, <2>1, JournalSame DEF Calm, Working, Applying
  <2>. QED  BY <1>1, <1>2, <1>4, <2>2, CalmPromised, StoreSame
<1>. QED  BY <1>1, <1>3, <1>4

(* So does the beginning of a rollback. *)
LEMMA StartRollbackRefines ==
  ASSUME ModesIInv, ModesIInv', Promised, StartRollback
  PROVE  Promised' /\ UNCHANGED Store!vars
<1>1. /\ work.at = "roll" /\ UNCHANGED <<asked, lists, prior, disturbed>>
      /\ \/ Move("rolling_back") /\ Goto("roll_data")
         \/ work' = Resting(IF work.live THEN "off" ELSE "refused") /\ UNCHANGED journal
  BY DEF StartRollback, Within, Call, history
<1>2. Unfinished /\ j > 0 /\ ModesTyped
  BY <1>1, Opened
<1>3. CASE Move("rolling_back") /\ Goto("roll_data")
  <2>1. j' = j /\ entry'.m = entry.m
    BY <1>2, <1>3, Moved DEF States, Open
  <2>2. work'.at = "roll_data"
    BY <1>2, <1>3, GotoOf, Moving
  <2>3. Calm
    BY <1>1, <1>2, <2>1, <2>2 DEF Calm, Working, Applying
  <2>. QED  BY <1>1, <1>2, <1>3, <2>3, CalmPromised, StoreMoved DEF Open
<1>4. CASE work' = Resting(IF work.live THEN "off" ELSE "refused") /\ UNCHANGED journal
  <2>1. work'.at \in {"off", "refused"}
    BY <1>4, RestingOf, Moving
  <2>2. Calm
    BY <1>1, <1>2, <1>4, <2>1, JournalSame DEF Calm, Working, Applying
  <2>. QED  BY <1>1, <1>2, <1>4, <2>2, CalmPromised, StoreSame
<1>. QED  BY <1>1, <1>3, <1>4

(* The playlists of an import are written under an open journal. *)
LEMMA ApplyImportRefines ==
  ASSUME ModesIInv, ModesIInv', Promised, ApplyImport
  PROVE  Promised' /\ UNCHANGED Store!vars
<1>1. /\ work.at = "data" /\ UNCHANGED <<asked, prior, disturbed>>
      /\ \/ /\ entry.m.list => ~\E l \in lists : l.mode = mode /\ l.name = "imported"
            /\ lists' = IF entry.m.list THEN lists \union {NewList} ELSE lists
            /\ journal' = [journal EXCEPT ![j].listed = entry.m.list] /\ Goto("verify")
         \/ Retreat /\ lists' = lists
  BY DEF ApplyImport, Within, Call, history, NewList
<1>2. Unfinished /\ j > 0 /\ ModesTyped /\ entry.m \in Mutations /\ j \in Nat
  BY <1>1, Opened, Inside DEF Applying
<1>3. CASE Retreat /\ lists' = lists
  <2>1. work'.at = "roll" /\ UNCHANGED journal
    BY <1>2, <1>3, GotoOf, Moving DEF Retreat
  <2>2. Calm
    BY <1>1, <1>2, <1>3, <2>1, JournalSame DEF Calm, Working, Applying
  <2>. QED  BY <1>1, <1>2, <2>1, <2>2, CalmPromised, StoreSame
<1>4. CASE /\ entry.m.list => ~\E l \in lists : l.mode = mode /\ l.name = "imported"
           /\ lists' = IF entry.m.list THEN lists \union {NewList} ELSE lists
           /\ journal' = [journal EXCEPT ![j].listed = entry.m.list] /\ Goto("verify")
  <2>1. entry.m.list \in BOOLEAN
    BY <1>2, MutationShape DEF Shape
  <2>2. SameEntry
    BY <1>2, <1>4, <2>1, Recorded
  <2>3. work'.at = "verify"
    BY <1>2, <1>4, GotoOf, Moving
  <2>4. j' = j /\ entry'.m = entry.m /\ entry'.state = entry.state /\ mode' = mode /\ Unfinished'
        /\ DOMAIN journal' = DOMAIN journal /\ \A k \in DOMAIN journal : journal'[k].state = journal[k].state
    BY <1>2, <1>4, <2>2 DEF SameEntry, Unfinished, mode, j, entry, ModesTyped, Entries
  <2>5. NewList' = NewList /\ NewList.by = j
    BY <2>4 DEF NewList
  <2>6. \A l \in lists : l.by # j
    BY <1>1 DEF ModesIInv, Listed
  <2>7. Permitted(asked.saw, asked.m) /\ (asked # NoRequest => MadeFrom(asked.saw, asked.m))
        /\ (~disturbed => {l \in lists : l.by # j} = prior.lists)
    BY <1>1, <1>2 DEF Promised, Working, Applying
  <2>8. ~disturbed => lists = prior.lists
    BY <2>6, <2>7
  <2>9. {l \in lists' : l.by # j} = lists
    BY <1>4, <2>5, <2>6
  <2>10. Promised'
    <3>1. /\ asked' # NoRequest => MadeFrom(asked'.saw, asked'.m)
          /\ Permitted(asked'.saw, asked'.m)
      BY <1>1, <2>7
    <3>2. ~disturbed' => {l \in lists' : l.by # j'} = prior'.lists
      BY <1>1, <2>4, <2>8, <2>9
    <3>3. ASSUME ~disturbed'
          PROVE  /\ lists' = prior'.lists \union (IF entry'.m.list THEN {NewList'} ELSE {})
                 /\ entry'.m.list => \A l \in prior'.lists : ~(l.mode = mode' /\ l.name = "imported")
      <4>1. lists = prior.lists /\ prior' = prior /\ entry'.m = entry.m /\ mode' = mode /\ NewList' = NewList
        BY <1>1, <2>4, <2>5, <2>8, <3>3
      <4>2. lists' = lists \union (IF entry.m.list THEN {NewList} ELSE {})
        BY <1>4
      <4>. QED  BY <1>4, <4>1, <4>2
    <3>. QED  BY <2>3, <3>1, <3>2, <3>3 DEF Promised
  <2>11. Committed' = Committed
    BY <2>4 DEF Committed
  <2>. QED  BY <1>1, <1>2, <2>4, <2>10, <2>11 DEF Store!vars
<1>. QED  BY <1>1, <1>3, <1>4

(* And taken back under an open journal. *)
LEMMA RollBackImportRefines ==
  ASSUME ModesIInv, ModesIInv', Promised, RollBackImport
  PROVE  Promised' /\ UNCHANGED Store!vars
<1> DEFINE mine == {l \in lists : l.by = j}
<1>1. /\ work.at = "roll_data" /\ UNCHANGED <<asked, prior, disturbed, journal>>
      /\ lists' = lists \/ lists' = lists \ mine
      /\ \/ \E bad \in BOOLEAN : work' = [work EXCEPT !.at = "roll_files", !.i = LastOf(Writes), !.bad = bad]
         \/ GiveUp
  BY DEF RollBackImport, Within, Call, history, GiveUp
<1>2. Unfinished /\ j > 0 /\ ModesTyped /\ work \in Works
  BY <1>1, Opened DEF RollingBack, ModesTyped
<1>3. work'.at \in {"roll_files", "mark_failed", "refused"}
  <2>1. CASE GiveUp
    <3>1. "refused" \in Steps
      BY Moving
    <3>2. Resting("refused").at = "refused"
      BY <3>1, RestingOf
    <3>. QED  BY <1>2, <2>1, <3>2 DEF GiveUp, Works
  <2>2. CASE \E bad \in BOOLEAN : work' = [work EXCEPT !.at = "roll_files", !.i = LastOf(Writes), !.bad = bad]
    BY <1>2, <2>2 DEF Works
  <2>. QED  BY <1>1, <2>1, <2>2
<1>4. j' = j /\ Unfinished' = Unfinished /\ entry' = entry
  BY <1>1, JournalSame
<1>5. {l \in lists' : l.by # j} = {l \in lists : l.by # j}
  BY <1>1
<1>6. Promised'
  BY <1>1, <1>2, <1>3, <1>4, <1>5 DEF Promised, Working, Applying
<1>. QED  BY <1>1, <1>2, <1>6, StoreSame

-----------------------------------------------------------------------------
(* Between mutations. *)
Outer ==
  Reject \/ Publish \/ ReplaceSnapshot \/ Finish \/ CleanUpOrphans \/ PerformReload

(* Nothing of what the store shows is touched there. *)
LEMMA OuterRefines ==
  ASSUME ModesIInv, ModesIInv', Promised, Outer
  PROVE  Promised' /\ UNCHANGED Store!vars
<1>1. ModesTyped /\ work \in Works /\ disk \in [Modes -> ModeTrees]
  BY DEF ModesIInv, ModesTyped
<1>2. /\ UNCHANGED <<journal, lists, prior, disturbed>> /\ (asked' = asked \/ asked' = NoRequest)
      /\ UNCHANGED disk \/ (Finish /\ disk' = [disk EXCEPT ![mode].marker = 0])
  BY DEF Outer, Reject, Publish, ReplaceSnapshot, Finish, CleanUpOrphans, PerformReload, Within, Call, history, catalogs
<1>3. work'.at \in {"idle", "replace", "off", "finish", "load", "refused"}
  <2>1. CASE Reject
    BY <2>1 DEF Reject
  <2>2. CASE Publish
    BY <1>1, <2>2, GotoOf, RestingOf, Moving DEF Publish, Die
  <2>3. CASE ReplaceSnapshot
    BY <1>1, <2>3, GotoOf, Moving DEF ReplaceSnapshot
  <2>4. CASE Finish \/ PerformReload
    BY <2>4, RestingOf, Moving DEF Finish, PerformReload, Die
  <2>5. CASE CleanUpOrphans
    BY <1>1, <2>5, GotoOf, RestingOf, Moving DEF CleanUpOrphans, Within, Call
  <2>. QED  BY <2>1, <2>2, <2>3, <2>4, <2>5 DEF Outer
<1>4. j' = j /\ entry' = entry /\ Unfinished' = Unfinished
  BY <1>2, JournalSame
<1>5. Calm
  BY <1>2, <1>3, <1>4 DEF Calm, Working, Applying
<1>6. Bundles' = Bundles
  <2>1. CASE UNCHANGED disk
    BY <2>1 DEF Bundles
  <2>2. CASE Finish /\ disk' = [disk EXCEPT ![mode].marker = 0]
    <3>1. \A m \in Modes : disk'[m].docs = disk[m].docs
      BY <1>1, <2>2 DEF ModeTrees
    <3>. QED  BY <3>1 DEF Bundles
  <2>. QED  BY <1>2, <2>1, <2>2
<1>. QED  BY <1>2, <1>5, <1>6, CalmPromised, StoreSame

(* The process starts or dies: journal, stage, documents and playlists stay. *)
LEMMA StartRefines ==
  ASSUME ModesIInv, ModesIInv', Promised, Start \/ Crash
  PROVE  Promised' /\ UNCHANGED Store!vars
<1>1. /\ UNCHANGED <<journal, lists, prior, disk>> /\ (asked' = asked \/ asked' = NoRequest)
      /\ disturbed' \in {disturbed, TRUE}
  BY DEF Start, Crash, Torn, history, catalogs
<1>2. work'.at \in {"off", "clean", "roll_data", "roll"}
  BY RestingOf, Moving DEF Start, Crash, Die
<1>3. ~disturbed' => ~disturbed
  BY <1>1, Zenon
<1>4. Calm
  BY <1>1, <1>2, <1>3, JournalSame DEF Calm, Working, Applying
<1>. QED  BY <1>1, <1>4, CalmPromised, StoreSame DEF Bundles

(* A handler asks for a change of what it saw. *)
LEMMA AskRefines ==
  ASSUME ModesIInv, ModesIInv', Promised, NEW m \in Mutations, Ask(m)
  PROVE  Promised' /\ UNCHANGED Store!vars
<1>1. /\ UNCHANGED <<journal, lists, prior, disturbed, disk, work>> /\ asked = NoRequest
      /\ asked' = [m |-> m, gen |-> snapshot.gen, saw |-> snapshot.modes[m.mode]] /\ MadeFrom(snapshot.modes[m.mode], m)
  BY DEF Ask, history
<1>2. work.at \notin Working
  BY <1>1 DEF ModesIInv, SawIt, Working
<1>3. asked'.m = m /\ asked'.saw = snapshot.modes[m.mode]
  BY <1>1
<1>4. j' = j /\ entry' = entry /\ mode' = mode /\ Unfinished' = Unfinished
  BY <1>1, JournalSame
<1>5. Promised'
  <2>1. MadeFrom(asked'.saw, asked'.m)
    BY <1>1, <1>3
  <2>2. work'.at \notin Working /\ {"staged", "verify", "commit"} \subseteq Working
    BY <1>1, <1>2 DEF Working, Applying
  <2>3. Unfinished' /\ ~disturbed' => {l \in lists' : l.by # j'} = prior'.lists
    BY <1>1, <1>4 DEF Promised
  <2>. QED  BY <2>1, <2>2, <2>3 DEF Promised
<1>. QED  BY <1>1, <1>5, StoreSame DEF Bundles

(* The request is staged: what was found is what the store shows. *)
LEMMA PrepareRefines ==
  ASSUME ModesIInv, ModesIInv', Promised, Prepare
  PROVE  Promised' /\ UNCHANGED Store!vars
<1>1. /\ work.at = "idle" /\ asked # NoRequest /\ asked.gen = snapshot.gen /\ Permitted(snapshot.modes[asked.m.mode], asked.m)
      /\ UNCHANGED <<disk, journal, lists, asked>> /\ prior'.lists = lists /\ Goto("staged")
  BY DEF Prepare, Admitted
<1>2. ~Unfinished /\ ModesTyped
  BY <1>1, Quiescent DEF Between
<1>3. Permitted(asked.saw, asked.m) /\ MadeFrom(asked.saw, asked.m)
  BY <1>1 DEF ModesIInv, SawIt, Promised
<1>4. work'.at = "staged"
  BY <1>1, <1>2, GotoOf, Moving
<1>5. Unfinished' = Unfinished /\ Committed' = Committed /\ Bundles' = Bundles
  BY <1>1, JournalSame DEF Committed, Bundles
<1>6. Promised'
  BY <1>1, <1>2, <1>3, <1>4, <1>5 DEF Promised
<1>7. Imported(IF Unfinished THEN prior.lists ELSE lists)' = Imported(IF Unfinished THEN prior.lists ELSE lists)
  BY <1>1, <1>2, <1>5 DEF Imported
<1>. QED  BY <1>2, <1>5, <1>6, <1>7 DEF Store!vars

(* Users do as they like: only the request and the plan are looked at. *)
LEMMA EditsRefine ==
  ASSUME ModesIInv, ModesIInv', Promised, EditLists \/ \E e \in Edits : Edit(e)
  PROVE  Promised' /\ ~Undisturbed
<1>1. disturbed' = TRUE /\ UNCHANGED <<asked, work>>
  BY DEF EditLists, Edit
<1>. QED  BY <1>1 DEF Promised, Undisturbed

-----------------------------------------------------------------------------
(* The journals that are committed. *)
LEMMA CommittedFinite ==
  ASSUME ModesTyped
  PROVE  IsFiniteSet(Committed)
<1>1. DOMAIN journal = 1 .. Len(journal) /\ Len(journal) \in Nat
  BY DEF ModesTyped
<1>2. IsFiniteSet(1 .. Len(journal))
  BY <1>1, FS_Interval
<1>3. Committed \in SUBSET (1 .. Len(journal))
  BY <1>1 DEF Committed
<1>. QED  BY <1>2, <1>3, FS_Subset

(* The journal is there: what the store shows is what was found. *)
LEMMA CreateJournalRefines ==
  ASSUME ModesIInv, ModesIInv', Promised, CreateJournal
  PROVE  Promised' /\ (Undisturbed => UNCHANGED Store!vars)
<1> DEFINE e == [m |-> asked.m, state |-> "planned", listed |-> FALSE,
                 existed |-> {d \in DOMAIN asked.m.docs : prior.modes[asked.m.mode][d] # "none"}]
<1>1. /\ work.at = "staged" /\ UNCHANGED <<disk, lists, asked, prior, disturbed>>
      /\ \/ journal' = Append(journal, e) /\ Goto("planned")
         \/ Die /\ UNCHANGED journal
  BY DEF CreateJournal, history
<1>2. ~Unfinished /\ ModesTyped /\ j \in Nat
  BY <1>1, Quiescent DEF Between
<1>3. CASE Die /\ UNCHANGED journal
  <2>1. work'.at = "off"
    BY <1>3, RestingOf, Moving DEF Die
  <2>2. Calm
    BY <1>1, <1>3, <2>1, JournalSame DEF Calm, Working, Applying
  <2>. QED  BY <1>1, <1>3, <2>2, CalmPromised, StoreSame DEF Bundles
<1>4. CASE journal' = Append(journal, e) /\ Goto("planned")
  <2>1. work'.at = "planned"
    BY <1>2, <1>4, GotoOf, Moving
  <2>2. e.state = "planned"
    OBVIOUS
  <2> HIDE DEF e
  <2>3. /\ DOMAIN journal = 1 .. j /\ DOMAIN journal' = 1 .. (j + 1) /\ j' = j + 1 /\ journal'[j + 1] = e
        /\ \A k \in 1 .. j : journal'[k] = journal[k]
    BY <1>2, <1>4 DEF ModesTyped, j
  <2>4. Unfinished' /\ entry' = e
    BY <1>2, <2>2, <2>3 DEF Unfinished, entry
  <2>5. Committed' = Committed
    <3>1. \A k \in 1 .. (j + 1) : k \in 1 .. j \/ k = j + 1
      BY <1>2
    <3>2. 1 .. j \subseteq 1 .. (j + 1)
      BY <1>2
    <3>. QED  BY <2>2, <2>3, <3>1, <3>2 DEF Committed
  <2>6. ~disturbed => lists = prior.lists /\ Bundles = prior.modes
    BY <1>1 DEF Promised, ModesIInv, Found
  <2>7. \A l \in lists : l.by # j + 1
    BY <1>2 DEF ModesIInv, Listed
  <2>8. Promised'
    <3>1. ~disturbed' => {l \in lists' : l.by # j'} = prior'.lists
      BY <1>1, <2>3, <2>6, <2>7
    <3>2. (asked' # NoRequest => MadeFrom(asked'.saw, asked'.m)) /\ Permitted(asked'.saw, asked'.m)
      BY <1>1 DEF Promised, Working
    <3>. QED  BY <2>1, <3>1, <3>2 DEF Promised
  <2>9. Undisturbed => UNCHANGED Store!vars
    <3>1. SUFFICES ASSUME ~disturbed PROVE UNCHANGED Store!vars
      BY DEF Undisturbed
    <3>2. (IF Unfinished THEN prior.modes ELSE Bundles)' = IF Unfinished THEN prior.modes ELSE Bundles
      BY <1>1, <1>2, <2>4, <2>6, <3>1
    <3>3. (IF Unfinished THEN prior.lists ELSE lists)' = IF Unfinished THEN prior.lists ELSE lists
      BY <1>1, <1>2, <2>4, <2>6, <3>1
    <3>. QED  BY <2>5, <3>2, <3>3 DEF Store!vars, Imported
  <2>. QED  BY <2>8, <2>9
<1>. QED  BY <1>1, <1>3, <1>4

(* A rolled back journal is closed: everything is as it was found. *)
LEMMA CloseJournalRefines ==
  ASSUME ModesIInv, ModesIInv', Promised, CloseJournal
  PROVE  Promised' /\ (Undisturbed => UNCHANGED Store!vars)
<1>1. /\ work.at = "rolled" /\ UNCHANGED <<disk, lists, prior, disturbed>> /\ asked' = NoRequest
      /\ \/ Move("rolled_back") /\ work' = Resting(CASE ~work.live -> "clean" [] work.fatal -> "off" [] OTHER -> "idle")
         \/ work' = Resting(IF work.live THEN "off" ELSE "refused") /\ UNCHANGED journal
  BY DEF CloseJournal, Call, history
<1>2. Unfinished /\ j > 0 /\ ModesTyped /\ j \in Nat
  BY <1>1, Opened, Inside DEF RollingBack
<1>3. CASE work' = Resting(IF work.live THEN "off" ELSE "refused") /\ UNCHANGED journal
  <2>1. work'.at \in {"off", "refused"}
    BY <1>3, RestingOf, Moving
  <2>2. Calm
    BY <1>1, <1>3, <2>1, JournalSame DEF Calm, Working, Applying
  <2>. QED  BY <1>1, <1>2, <1>3, <2>2, CalmPromised, StoreSame
<1>4. CASE Move("rolled_back") /\ work' = Resting(CASE ~work.live -> "clean" [] work.fatal -> "off" [] OTHER -> "idle")
  <2>1. work'.at \in {"clean", "off", "idle"}
    BY <1>4, RestingOf, Moving
  <2>2. /\ journal' \in Seq(Entries) /\ j' = j /\ entry'.state = "rolled_back" /\ entry'.m = entry.m
        /\ \A k \in 1 .. j : k # j => journal'[k] = journal[k]
    BY <1>2, <1>4, Moved DEF States
  <2>3. ~Unfinished'
    BY <2>2 DEF Unfinished
  <2>4. Promised'
    BY <1>1, <2>1, <2>3 DEF Promised, Working, Applying
  <2>5. Committed' = Committed
    <3>1. DOMAIN journal = 1 .. j /\ DOMAIN journal' = 1 .. j
      BY <1>2, <2>2 DEF j, ModesTyped
    <3>2. entry.state # "committed"
      BY <1>2 DEF Unfinished
    <3>3. \A k \in 1 .. j : journal'[k].state = "committed" <=> journal[k].state = "committed"
      BY <2>2, <3>2 DEF entry
    <3>. QED  BY <3>1, <3>3 DEF Committed
  <2>6. ASSUME ~disturbed PROVE Bundles' = prior.modes /\ lists' = prior.lists
    <3>1. prior.of = j
      BY <1>2 DEF ModesIInv, Documents
    <3>2. Bundles' = prior'.modes
      BY <1>1, <1>2, <2>2, <2>6, <3>1 DEF ModesIInv, ClosedAs
    <3>3. \A l \in lists : l.by # j
      BY <1>1 DEF ModesIInv, Listed
    <3>4. {l \in lists : l.by # j} = prior.lists
      BY <1>2, <2>6 DEF Promised
    <3>5. lists = prior.lists
      BY <3>3, <3>4
    <3>. QED  BY <1>1, <3>2, <3>5
  <2>7. Undisturbed => UNCHANGED Store!vars
    <3>1. SUFFICES ASSUME ~disturbed PROVE UNCHANGED Store!vars
      BY DEF Undisturbed
    <3>2. (IF Unfinished THEN prior.modes ELSE Bundles)' = IF Unfinished THEN prior.modes ELSE Bundles
      BY <1>2, <2>3, <2>6, <3>1
    <3>3. (IF Unfinished THEN prior.lists ELSE lists)' = IF Unfinished THEN prior.lists ELSE lists
      BY <1>2, <2>3, <2>6, <3>1
    <3>. QED  BY <2>5, <3>2, <3>3 DEF Store!vars, Imported
  <2>. QED  BY <2>4, <2>7
<1>. QED  BY <1>1, <1>3, <1>4

(* A rollback that failed ends the promise of its mutation. *)
LEMMA MarkFailedRefines ==
  ASSUME ModesIInv, ModesIInv', Promised, MarkFailed
  PROVE  Promised' /\ ~Undisturbed
<1>1. /\ work.at = "mark_failed" /\ UNCHANGED <<asked, lists, prior, disturbed>> /\ Die
      /\ Move("failed") \/ UNCHANGED journal
  BY DEF MarkFailed, Within, Call, history
<1>2. Unfinished /\ j > 0 /\ ModesTyped
  BY <1>1, Opened DEF RollingBack
<1>3. work'.at = "off"
  BY <1>1, RestingOf, Moving DEF Die
<1>4. j' = j /\ entry'.m = entry.m
  BY <1>1, <1>2, Moved, JournalSame DEF States
<1>5. Calm
  BY <1>1, <1>2, <1>3, <1>4 DEF Calm, Working, Applying
<1>. QED  BY <1>1, <1>5, CalmPromised DEF Undisturbed

-----------------------------------------------------------------------------
(* The documents of the store are those of the coordinator. *)
LEMMA StoreIs ==
  /\ Store!Mutations = Mutations
  /\ \A b, m : /\ Store!MadeFrom(b, m) <=> MadeFrom(b, m)
               /\ Store!Permitted(b, m) <=> Permitted(b, m)
               /\ Store!Result(b, m) = Result(b, m)
<1>1. Store!Mutations = Mutations
  BY DEF Store!Mutations, Mutations, Store!create_mode, create_mode, Store!delete_mode, delete_mode, Store!put_manifest,
     put_manifest, Store!create_soundboard, create_soundboard, Store!put_soundboard, put_soundboard, Store!delete_soundboard,
     delete_soundboard, Store!create_preset, create_preset, Store!update_preset, update_preset, Store!delete_preset,
     delete_preset, Store!build_mutation, build_mutation, Store!Mutation, Mutation, Store!NoBundle, NoBundle, Store!Docs, Docs,
     Store!Manifests, Manifests, Store!Contents, Contents
<1>2. \A b, m : Store!Result(b, m) = Result(b, m)
  BY DEF Store!Result, Result, Store!Docs, Docs
<1>3. \A b, m : Store!MadeFrom(b, m) <=> MadeFrom(b, m)
  BY DEF Store!MadeFrom, MadeFrom
<1>4. \A b, m : Store!Permitted(b, m) <=> Permitted(b, m)
  BY <1>2 DEF Store!Permitted, Permitted
<1>. QED  BY <1>1, <1>2, <1>3, <1>4

(* The commit of the journal is the step of the store. *)
LEMMA CommitRefines ==
  ASSUME ModesIInv, ModesIInv', Promised, Commit
  PROVE  Promised' /\ [Undisturbed => Store!Next]_(Store!vars)
<1>1. /\ work.at = "commit" /\ UNCHANGED <<asked, lists, prior, disturbed>>
      /\ \/ Move("committed") /\ Goto("publish")
         \/ work' = [work EXCEPT !.at = "roll", !.fatal = TRUE] /\ UNCHANGED journal
  BY DEF Commit, Within, Call, history
<1>2. /\ Unfinished /\ j > 0 /\ ModesTyped /\ j \in Nat /\ work \in Works /\ entry.m \in Mutations /\ mode \in Modes
      /\ prior.modes[mode] \in Bundle /\ prior.modes \in [Modes -> Bundle]
  BY <1>1, Opened, Inside DEF Applying, ModesTyped
<1>3. CASE work' = [work EXCEPT !.at = "roll", !.fatal = TRUE] /\ UNCHANGED journal
  <2>1. work'.at = "roll"
    BY <1>2, <1>3 DEF Works
  <2>2. Calm
    BY <1>1, <1>3, <2>1, JournalSame DEF Calm, Working, Applying
  <2>. QED  BY <1>1, <1>2, <1>3, <2>2, CalmPromised, StoreSame
<1>4. CASE Move("committed") /\ Goto("publish")
  <2>1. work'.at = "publish"
    BY <1>2, <1>4, GotoOf, Moving
  <2>2. /\ journal' \in Seq(Entries) /\ j' = j /\ entry'.state = "committed" /\ entry'.m = entry.m /\ mode' = mode
        /\ \A k \in 1 .. j : k # j => journal'[k] = journal[k]
    BY <1>2, <1>4, Moved DEF States
  <2>3. ~Unfinished'
    BY <2>2 DEF Unfinished
  <2>4. Calm
    BY <1>1, <1>2, <2>1, <2>2, <2>3 DEF Calm, Working, Applying
  <2>5. Cardinality(Committed') = Cardinality(Committed) + 1
    <3>1. DOMAIN journal = 1 .. j /\ DOMAIN journal' = 1 .. j /\ j \in 1 .. j
      BY <1>2, <2>2 DEF j, ModesTyped
    <3>2. entry.state # "committed"
      BY <1>2 DEF Unfinished
    <3>3. j \notin Committed
      BY <3>2 DEF Committed, entry
    <3>4. \A k \in 1 .. j : journal'[k].state = "committed" <=> journal[k].state = "committed" \/ k = j
      BY <2>2 DEF entry
    <3>5. Committed' = Committed \union {j}
      BY <3>1, <3>4 DEF Committed
    <3>. QED  BY <1>2, <3>3, <3>5, CommittedFinite, FS_AddElement
  <2>6. ASSUME Undisturbed PROVE Store!Next
    <3>1. ~disturbed /\ mode \notin unread
      BY <1>1, <2>6 DEF Undisturbed
    <3>2. asked # NoRequest /\ asked.m = entry.m /\ asked.gen = snapshot.gen /\ snapshot.gen > 0
      BY <1>1 DEF ModesIInv, SawIt, Applying, ModesTyped, Requests
    <3>3. asked.saw = snapshot.modes[mode] /\ snapshot.modes[mode] = prior.modes[mode]
      BY <1>1, <3>1, <3>2 DEF ModesIInv, SawIt, Shown, UnderWay, Applying, mode
    <3>4. MadeFrom(prior.modes[mode], entry.m) /\ Permitted(prior.modes[mode], entry.m)
      BY <1>1, <3>2, <3>3 DEF Promised, Working, Applying
    <3>5. prior.of = j
      BY <1>2 DEF ModesIInv, Documents
    <3>6. Bundles' = [prior.modes EXCEPT ![mode] = Result(prior.modes[mode], entry.m)]
      <4>1. Bundles' = [prior'.modes EXCEPT ![mode'] = Result(prior'.modes[mode'], entry'.m)]
        BY <1>1, <1>2, <2>2, <3>1, <3>5 DEF ModesIInv, ClosedAs
      <4>. QED  BY <1>1, <2>2, <4>1
    <3>7. /\ lists = prior.lists \union (IF entry.m.list THEN {NewList} ELSE {})
          /\ entry.m.list => \A l \in prior.lists : ~(l.mode = mode /\ l.name = "imported")
      BY <1>1, <3>1 DEF Promised
    <3>8. NewList.mode = mode /\ NewList.name = "imported"
      BY DEF NewList
    <3> DEFINE before == {l.mode : l \in Imported(prior.lists)}
               after == {l.mode : l \in Imported(lists)}
    <3>9. entry.m.list => mode \notin before
      BY <3>7 DEF Imported
    <3>10. after = IF entry.m.list THEN before \union {mode} ELSE before
      BY <3>7, <3>8 DEF Imported
    <3>11. /\ (IF Unfinished THEN prior.modes ELSE Bundles) = prior.modes
           /\ (IF Unfinished THEN prior.modes ELSE Bundles)' = Bundles'
           /\ {l.mode : l \in Imported(IF Unfinished THEN prior.lists ELSE lists)} = before
           /\ {l.mode : l \in Imported(IF Unfinished THEN prior.lists ELSE lists)}' = after
      BY <1>1, <1>2, <2>3 DEF Imported
    <3> HIDE DEF before, after
    <3>12. PICK m \in Mutations : m = entry.m
      BY <1>2
    <3>13. m.mode = mode
      BY <3>12 DEF mode
    <3>14. Store!Mutate(m)
      BY <3>4, <3>6, <3>9, <3>10, <3>11, <3>12, <3>13, StoreIs DEF Store!Mutate
    <3>15. m \in Store!Mutations
      BY StoreIs
    <3>. QED  BY <2>5, <3>14, <3>15 DEF Store!Next
  <2>. QED  BY <2>4, <2>6, CalmPromised
<1>. QED  BY <1>1, <1>3, <1>4

(* The first state. *)
LEMMA StoreStarts == ASSUME Init PROVE Promised /\ Store!Init
<1>1. /\ journal = <<>> /\ lists = {} /\ asked = NoRequest /\ work = Resting("off")
      /\ disk = [m \in Modes |-> [dir |-> FirstDisk[m] # NoBundle, docs |-> FirstDisk[m], marker |-> 0]]
  BY DEF Init
<1>2. ~Unfinished /\ Committed = {}
  BY <1>1 DEF Unfinished, j, Committed
<1>3. work.at = "off"
  BY <1>1, RestingOf, Moving
<1>4. Promised
  BY <1>1, <1>2, <1>3 DEF Promised, Working, Applying
<1>5. Bundles \in [Modes -> [Store!Docs -> Store!Values]]
  <2>1. Store!Docs = Docs /\ Store!Values = Values
    BY DEF Store!Docs, Docs, Store!Values, Values, Store!Manifests, Manifests, Store!Contents, Contents
  <2>2. \A m \in Modes : disk[m].docs = FirstDisk[m] /\ FirstDisk[m] \in [Docs -> Values]
    BY <1>1, ModeMutationAssumption
  <2>. QED  BY <2>1, <2>2 DEF Bundles
<1>6. {l.mode : l \in Imported(lists)} = {} /\ Cardinality(Committed) = 0
  BY <1>1, <1>2, FS_EmptySet DEF Imported
<1>. QED  BY <1>2, <1>4, <1>5, <1>6 DEF Store!Init

(* Every step. *)
LEMMA StoreSteps ==
  ASSUME ModesIInv, ModesIInv', Promised, [Next]_vars
  PROVE  Promised' /\ [Undisturbed => Store!Next]_(Store!vars)
<1>1. CASE UNCHANGED vars
  <2>1. UNCHANGED <<disk, journal, lists, asked, work, prior, disturbed>>
    BY <1>1 DEF vars
  <2>2. Calm
    BY <2>1, JournalSame DEF Calm
  <2>. QED  BY <2>1, <2>2, CalmPromised, StoreSame DEF Bundles
<1>2. CASE Coordinator
  <2>1. Inner \/ Outer \/ Prepare \/ CreateJournal \/ StartApplying \/ ApplyImport \/ Commit \/ StartRollback
        \/ RollBackImport \/ CloseJournal \/ MarkFailed
    BY <1>2 DEF Coordinator, Inner, Outer
  <2>2. CASE Inner \/ Outer
    BY <2>2, InnerRefines, OuterRefines
  <2>3. CASE Prepare \/ StartApplying \/ ApplyImport \/ StartRollback \/ RollBackImport
    BY <2>3, PrepareRefines, StartApplyingRefines, ApplyImportRefines, StartRollbackRefines, RollBackImportRefines
  <2>4. CASE CreateJournal \/ CloseJournal
    BY <2>4, CreateJournalRefines, CloseJournalRefines
  <2>5. CASE MarkFailed
    BY <2>5, MarkFailedRefines
  <2>6. CASE Commit
    BY <2>6, CommitRefines
  <2>. QED  BY <2>1, <2>2, <2>3, <2>4, <2>5, <2>6
<1>3. CASE Start \/ Crash
  BY <1>3, StartRefines
<1>4. CASE PerformReload
  BY <1>4, OuterRefines DEF Outer
<1>5. CASE \E m \in Mutations : Ask(m)
  BY <1>5, AskRefines
<1>6. CASE EditLists \/ \E e \in Edits : Edit(e)
  BY <1>6, EditsRefine
<1>. QED  BY <1>1, <1>2, <1>3, <1>4, <1>5, <1>6 DEF Next

(* For every set of modes, documents, mutations and edits by hand, and any *)
(* number of mutations, failed calls and deaths of the process: the        *)
(* coordinator implements ModeStore. What the directory and the imported   *)
(* playlists will be, once the newest journal is closed, changes in one    *)
(* step, the commit of that journal, by a mutation that the documents of   *)
(* that moment permit and as a whole; no other step of the coordinator, of *)
(* a rollback or of a recovery changes it (perform_mutation,               *)
(* rollback_mode_mutation, recover_mode_mutations). A mutation is exempt   *)
(* from the moment a user edits something under it, if its mode was edited *)
(* and not read since, if its rollback fails and is marked so, or from the *)
(* moment a link is made whose candidate is not removed                    *)
(* (mode_mutation.rs:845).                                                 *)
THEOREM MutationsAreAtomic == Spec => ModesPromised
<1>1. Init => ModesIInv /\ Promised /\ Store!Init
  BY ModesInit, StoreStarts
<1>2. ModesIInv /\ Promised /\ [Next]_vars => (ModesIInv /\ Promised)'
  BY ModesNext, StoreSteps
<1>3. ModesIInv /\ Promised /\ [Next]_vars => [Undisturbed => Store!Next]_(Store!vars)
  BY ModesNext, StoreSteps
<1>. QED  BY <1>1, <1>2, <1>3, PTL DEF Spec, ModesPromised

-----------------------------------------------------------------------------
(***************************************************************************)
(* The commands that name something of the catalogs.                       *)
(***************************************************************************)

(* Both copies of the mode catalog agree, but for one that is being loaded. *)
ModesAgree ==
  /\ snap \in [gen : Nat, modes : CatalogModeCatalogs]
  /\ actor.gen \in Nat
  /\ \/ loading = <<>> /\ actor.gen = snap.gen /\ actor.modes = snap.modes
     \/ loading = <<[gen |-> snap.gen + 1, modes |-> actor.modes]>>
        /\ actor.gen = snap.gen + 1 /\ actor.modes \in CatalogModeCatalogs

(* No generation is ahead of the index, and an id is used once. *)
IndexKept ==
  /\ {libGen, status, actor.lib} \subseteq Nat
  /\ status <= libGen /\ actor.lib <= libGen
  /\ catalogRows \cap fresh = {} /\ actor.tracks \cap fresh = {}
  /\ CatalogPlaylist \cap fresh = {}

(* Records and functions of no particular range. *)
Shaped(k) == DOMAIN k = {"pc", "req", "attempt", "mode", "modes", "lib", "cmd", "said"}
CatalogShaped ==
  /\ DOMAIN actor = {"lib", "gen", "tracks", "modes"}
  /\ DOMAIN client = CatalogClients
  /\ \A c \in CatalogClients : Shaped(client[c])

(* A mode catalog a request holds is that of its generation. *)
HoldsModes(k) ==
  /\ k.modes \in [gen : Nat, modes : CatalogModeCatalogs]
  /\ k.modes.gen <= snap.gen
  /\ k.modes.gen = snap.gen => k.modes = snap

AskedTracks(k) == IF k.req.kind = "folder" THEN Folder ELSE CatalogPlaylist

(* The tracks a request has read lack no track it will be asked for: those *)
(* of its generation, or, of a playlist, none.                             *)
Covers(k, ts) ==
  /\ k.req.kind = "folder" =>
       /\ k.lib \in Nat /\ k.lib <= libGen
       /\ libGen = k.lib => catalogRows \cap Folder \subseteq ts
       /\ actor.lib <= k.lib => actor.tracks \cap catalogRows \cap Folder \subseteq ts
  /\ k.req.kind = "playlist" => catalogRows \cap CatalogPlaylist \subseteq ts

(* What a request holds at each of its steps. *)
Prepared(k) ==
  /\ k.lib \in Nat
  /\ k.pc \in {"idle", "begin", "modes", "tracks", "stamp", "submit"}
  /\ k.pc # "idle" => k.said = "nothing" /\ k.req.kind \in CatalogKinds
  /\ k.pc = "modes" => k.req.kind \notin {"folder", "playlist"}
  /\ k.pc \in {"tracks", "stamp"} => k.req.kind \in {"folder", "playlist", "cue"}
  /\ k.pc \in {"tracks", "stamp"} /\ k.req.kind = "cue" => HoldsModes(k)
  /\ k.pc = "tracks" /\ k.req.kind = "folder" => k.lib <= libGen
  /\ k.pc = "submit" => HoldsModes(k) /\ k.cmd # <<>>
  /\ k.pc \in {"stamp", "submit"} =>
       \E ts : /\ k.req.kind \in {"folder", "playlist"} =>
                    k.cmd = IF ts # {} THEN <<[kind |-> "tracks", tracks |-> ts]>> ELSE <<>>
               /\ k.req.kind = "cue" => k.cmd = Resolution(k.req, k.mode, k.modes.modes, ts)
               /\ k.req.kind \notin {"folder", "playlist", "cue"} =>
                    k.cmd = Resolution(k.req, k.mode, k.modes.modes, {})
               /\ Covers(k, ts)

CatalogIInv ==
  /\ ModesAgree /\ IndexKept /\ CatalogShaped
  /\ \A c \in CatalogClients : Prepared(client[c])

(* The first state: both catalogs are the first one and every client is idle. *)
LEMMA CatalogInitInv == CatalogInit => CatalogIInv
<1>. SUFFICES ASSUME CatalogInit PROVE CatalogIInv
  OBVIOUS
<1>1. ModesAgree /\ IndexKept
  BY CatalogCommandsAssumption DEF CatalogInit, ModesAgree, IndexKept
<1>2. CatalogShaped
  BY DEF CatalogInit, CatalogShaped, Shaped, CatalogIdle
<1>3. \A c \in CatalogClients : Prepared(client[c])
  BY DEF CatalogInit, CatalogIdle, Prepared
<1>. QED  BY <1>1, <1>2, <1>3 DEF CatalogIInv

(* A step of one client that leaves the owners alone. *)
LEMMA ClientMoves ==
  ASSUME CatalogIInv, UNCHANGED <<catalogLibrary, catalogModes, actor>>,
         NEW c \in CatalogClients, NEW k, client' = [client EXCEPT ![c] = k],
         Shaped(k), Prepared(k)
  PROVE  CatalogIInv'
<1>1. \A d \in CatalogClients : client'[d] = IF d = c THEN k ELSE client[d]
  BY DEF CatalogIInv, CatalogShaped
<1>2. ModesAgree' /\ IndexKept'
  BY DEF CatalogIInv, ModesAgree, IndexKept, catalogLibrary, catalogModes
<1>3. CatalogShaped'
  BY <1>1 DEF CatalogIInv, CatalogShaped
<1>4. ASSUME NEW d \in CatalogClients PROVE Prepared(client[d])'
  <2>1. Prepared(client'[d])
    BY <1>1 DEF CatalogIInv
  <2>. QED  BY <2>1 DEF Prepared, HoldsModes, Covers, catalogLibrary, catalogModes
<1>. QED  BY <1>2, <1>3, <1>4 DEF CatalogIInv

(* An answer, and another attempt. *)
LEMMA Answers ==
  ASSUME CatalogIInv, NEW c \in CatalogClients,
         client[c].pc # "idle"
  PROVE  /\ \A said : Say(c, said) =>
               \E k : Shaped(k) /\ Prepared(k) /\ client' = [client EXCEPT ![c] = k]
         /\ Again(c) =>
               \E k : Shaped(k) /\ Prepared(k) /\ client' = [client EXCEPT ![c] = k]
<1>1. ASSUME NEW said, Say(c, said)
      PROVE  \E k : Shaped(k) /\ Prepared(k) /\ client' = [client EXCEPT ![c] = k]
  <2> DEFINE k == [CatalogIdle EXCEPT !.said = said,
                                      !.req = IF Persistent THEN client[c].req ELSE NoReq]
  <2>1. Shaped(k) /\ Prepared(k)
    BY DEF Shaped, Prepared, CatalogIdle
  <2>. QED  BY <1>1, <2>1 DEF Say
<1>2. ASSUME Again(c), client[c].attempt # Attempts
      PROVE  \E k : Shaped(k) /\ Prepared(k) /\ client' = [client EXCEPT ![c] = k]
  <2> DEFINE k == [CatalogIdle EXCEPT !.pc = "begin", !.attempt = client[c].attempt + 1,
                                      !.req = client[c].req]
  <2>1. client[c].req.kind \in CatalogKinds
    BY DEF CatalogIInv, Prepared
  <2>2. Shaped(k) /\ Prepared(k)
    BY <2>1 DEF Shaped, Prepared, CatalogIdle
  <2>. QED  BY <1>2, <2>2 DEF Again
<1>. QED  BY <1>1, <1>2 DEF Again

(* What a client does alone. *)
LEMMA ClientInv ==
  ASSUME CatalogIInv, NEW c \in CatalogClients, CatalogAsk(c) \/ ClientStep(c)
  PROVE  CatalogIInv'
<1> DEFINE k == client[c]
           Becomes(n) == Shaped(n) /\ Prepared(n) /\ client' = [client EXCEPT ![c] = n]
<1>0. Shaped(k) /\ Prepared(k) /\ DOMAIN client = CatalogClients
      /\ UNCHANGED <<catalogLibrary, catalogModes, actor>>
  BY DEF CatalogIInv, CatalogShaped, CatalogAsk, ClientStep, CatalogBegin, ReadModes, ReadTracks, Stamp, CatalogSubmit
<1>. SUFFICES \E n : Becomes(n)
  BY <1>0, ClientMoves
<1>1. CASE CatalogAsk(c)
  <2>1. PICK r \in CatalogRequests : client' = [client EXCEPT ![c] =
            [CatalogIdle EXCEPT !.pc = "begin", !.attempt = 1, !.req = r]]
    BY <1>1 DEF CatalogAsk
  <2> DEFINE n == [CatalogIdle EXCEPT !.pc = "begin", !.attempt = 1, !.req = r]
  <2>2. Shaped(n) /\ Prepared(n)
    BY CatalogCommandsAssumption DEF Shaped, Prepared, CatalogIdle
  <2>. QED  BY <2>1, <2>2
<1>2. CASE CatalogBegin(c)
  <2> DEFINE n == [k EXCEPT !.mode = play.mode, !.lib = status,
                   !.pc = IF k.req.kind \in {"folder", "playlist"} THEN "tracks" ELSE "modes"]
  <2>1. client' = [client EXCEPT ![c] = n]
    BY <1>0, <1>2 DEF CatalogBegin, Shaped
  <2>2. Shaped(n)
    BY <1>0 DEF Shaped
  <2>3. status \in Nat /\ status <= libGen
    BY DEF CatalogIInv, IndexKept
  <2>4. Prepared(n)
    BY <1>0, <1>2, <2>3 DEF Prepared, Shaped, CatalogBegin, CatalogKinds
  <2>. QED  BY <2>1, <2>2, <2>4
<1>3. CASE ReadModes(c)
  <2> DEFINE x == Resolution(k.req, k.mode, snap.modes, {})
             cue == k.req.kind = "cue"
             n == [k EXCEPT !.modes = snap, !.lib = status, !.cmd = x,
                            !.pc = IF cue THEN "tracks" ELSE "submit"]
  <2>1. CASE x = <<>> /\ ~cue
    BY <1>3, <2>1, Answers DEF ReadModes
  <2>2. CASE ~(x = <<>> /\ ~cue)
    <3>1. client' = [client EXCEPT ![c] = n]
      BY <1>0, <1>3, <2>2 DEF ReadModes, Shaped
    <3>. HIDE DEF x
    <3>2. Shaped(n)
      BY <1>0 DEF Shaped
    <3>3. snap \in [gen : Nat, modes : CatalogModeCatalogs] /\ status \in Nat
      BY DEF CatalogIInv, IndexKept, ModesAgree
    <3>4. /\ n.pc = IF cue THEN "tracks" ELSE "submit"
          /\ n.req = k.req /\ n.mode = k.mode /\ n.modes = snap /\ n.lib = status /\ n.cmd = x /\ n.said = k.said
      BY <1>0 DEF Shaped
    <3>. HIDE DEF n
    <3>5. k.pc = "modes" /\ k.req.kind \in CatalogKinds \ {"folder", "playlist"} /\ k.said = "nothing"
      BY <1>0, <1>3 DEF Prepared, ReadModes
    <3>6. HoldsModes(n)
      BY <3>3, <3>4 DEF HoldsModes
    <3>7. Covers(n, {})
      BY <3>4, <3>5 DEF Covers
    <3>8. ~cue => x # <<>> /\ n.cmd = Resolution(n.req, n.mode, n.modes.modes, {})
      BY <2>2, <3>4 DEF x
    <3>9. Prepared(n)
      BY <3>3, <3>4, <3>5, <3>6, <3>7, <3>8 DEF Prepared
    <3>. QED  BY <3>1, <3>2, <3>9
  <2>. QED  BY <2>1, <2>2
<1>4. CASE ReadTracks(c)
  <2> DEFINE ts == catalogRows \cap AskedTracks(k)
             x == Resolution(k.req, k.mode, k.modes.modes, ts)
             n == [k EXCEPT !.cmd = x, !.pc = "stamp"]
  <2>1. client' = [client EXCEPT ![c] = n]
    BY <1>0, <1>4 DEF ReadTracks, Shaped, AskedTracks
  <2>2. k.pc = "tracks" /\ k.req.kind \in {"folder", "playlist", "cue"} /\ k.said = "nothing"
    BY <1>0, <1>4 DEF Prepared, ReadTracks
  <2>3. k.req.kind \in {"folder", "playlist"} =>
          x = IF ts # {} THEN <<[kind |-> "tracks", tracks |-> ts]>> ELSE <<>>
    BY DEF Resolution
  <2>4. Covers(n, ts)
    BY <1>0, <2>2 DEF Covers, AskedTracks, Prepared, Shaped
  <2>. HIDE DEF x, ts
  <2>5. /\ n.pc = "stamp" /\ n.req = k.req /\ n.mode = k.mode /\ n.modes = k.modes /\ n.lib = k.lib
        /\ n.cmd = x /\ n.said = k.said
    BY <1>0 DEF Shaped
  <2>6. Shaped(n)
    BY <1>0 DEF Shaped
  <2>. HIDE DEF n
  <2>7. n.req.kind = "cue" => HoldsModes(n) /\ x = Resolution(n.req, n.mode, n.modes.modes, ts)
    BY <1>0, <2>2, <2>5 DEF Prepared, HoldsModes, x
  <2>8. Prepared(n)
    BY <1>0, <2>2, <2>3, <2>4, <2>5, <2>7 DEF Prepared, CatalogKinds
  <2>. QED  BY <2>1, <2>6, <2>8
<1>5. CASE Stamp(c)
  <2>0. k.pc = "stamp" /\ k.req.kind \in {"folder", "playlist", "cue"} /\ k.said = "nothing"
    BY <1>0, <1>5 DEF Prepared, Stamp
  <2> DEFINE n == [k EXCEPT !.pc = "submit", !.lib = status,
                            !.modes = IF k.req.kind = "cue" THEN @ ELSE snap]
  <2>1. CASE k.req.kind = "folder" /\ k.lib # status
    BY <1>5, <2>0, <2>1, Answers DEF Stamp
  <2>2. CASE ~(k.req.kind = "folder" /\ k.lib # status) /\ k.cmd = <<>>
    BY <1>5, <2>0, <2>2, Answers DEF Stamp
  <2>3. CASE ~(k.req.kind = "folder" /\ k.lib # status) /\ k.cmd # <<>>
    <3>1. client' = [client EXCEPT ![c] = n]
      BY <1>0, <1>5, <2>3 DEF Stamp, Shaped
    <3>2. Shaped(n)
      BY <1>0 DEF Shaped
    <3>3. /\ n.pc = "submit" /\ n.req = k.req /\ n.mode = k.mode /\ n.lib = status /\ n.cmd = k.cmd /\ n.said = k.said
          /\ n.modes = IF k.req.kind = "cue" THEN k.modes ELSE snap
      BY <1>0 DEF Shaped
    <3>. HIDE DEF n
    <3>4. snap \in [gen : Nat, modes : CatalogModeCatalogs] /\ status \in Nat
      BY DEF CatalogIInv, IndexKept, ModesAgree
    <3>5. HoldsModes(n)
      BY <1>0, <2>0, <3>3, <3>4 DEF HoldsModes, Prepared
    <3>6. Prepared(n)
      BY <1>0, <2>0, <2>3, <3>3, <3>4, <3>5 DEF Prepared, CatalogKinds, Covers
    <3>. QED  BY <3>1, <3>2, <3>6
  <2>. QED  BY <2>1, <2>2, <2>3
<1>6. CASE CatalogSubmit(c)
  <2>1. k.pc = "submit" /\ (Again(c) \/ Say(c, "missing") \/ Say(c, "applied"))
    BY <1>6 DEF CatalogSubmit
  <2>. QED  BY <2>1, Answers
<1>. QED  BY <1>1, <1>2, <1>3, <1>4, <1>5, <1>6 DEF ClientStep

(* What the owners do: requests hold what they held. *)
LEMMA OwnersInv ==
  ASSUME CatalogIInv,
         Owners \/ CommitOne \/ CommitInBatch \/ FailBatch \/ PublishModes
  PROVE  CatalogIInv'
<1>0. UNCHANGED client
  BY DEF Owners, CommitOne, CommitInBatch, FailBatch, PublishModes, PublishLibrary, ShowStatus, ShowModes
<1>1. ASSUME ModesAgree', IndexKept', DOMAIN actor' = DOMAIN actor,
             \A k : HoldsModes(k) => HoldsModes(k)',
             \A k, ts : Covers(k, ts) => Covers(k, ts)',
             libGen <= libGen', libGen' \in Nat
      PROVE  CatalogIInv'
  <2>1. CatalogShaped'
    BY <1>0, <1>1 DEF CatalogIInv, CatalogShaped
  <2>2. ASSUME NEW c \in CatalogClients PROVE Prepared(client[c])'
    <3>1. Prepared(client[c]) /\ libGen \in Nat
      BY DEF CatalogIInv, IndexKept
    <3> DEFINE k == client[c]
    <3>2. k' = k
      BY <1>0
    <3>. HIDE DEF k
    <3>3. Prepared(k)
      BY <3>1 DEF k
    <3>4. HoldsModes(k) => HoldsModes(k)'
      BY <1>1, <3>2
    <3>5. \A ts : Covers(k, ts) => Covers(k, ts)'
      BY <1>1, <3>2
    <3>6. ASSUME k.pc \in {"stamp", "submit"} PROVE Prepared(k)'
      <4>1. PICK ts : /\ k.req.kind \in {"folder", "playlist"} =>
                            k.cmd = IF ts # {} THEN <<[kind |-> "tracks", tracks |-> ts]>> ELSE <<>>
                      /\ k.req.kind = "cue" => k.cmd = Resolution(k.req, k.mode, k.modes.modes, ts)
                      /\ k.req.kind \notin {"folder", "playlist", "cue"} =>
                           k.cmd = Resolution(k.req, k.mode, k.modes.modes, {})
                      /\ Covers(k, ts)
        BY <3>3, <3>6 DEF Prepared
      <4>2. Covers(k, ts)'
        BY <3>5, <4>1
      <4>. QED  BY <3>2, <3>3, <3>4, <3>6, <4>1, <4>2 DEF Prepared
    <3>7. ASSUME k.pc \notin {"stamp", "submit"} PROVE Prepared(k)'
      BY <1>1, <3>1, <3>2, <3>3, <3>4, <3>7 DEF Prepared
    <3>8. Prepared(k)'
      BY <3>6, <3>7
    <3>. QED  BY <3>8 DEF k
  <2>. QED  BY <1>1, <2>1, <2>2 DEF CatalogIInv
<1>2. ModesAgree /\ IndexKept /\ DOMAIN actor = {"lib", "gen", "tracks", "modes"}
  BY DEF CatalogIInv, CatalogShaped
<1>3. ASSUME NEW next, CatalogCommit(next), UNCHANGED <<catalogModes, actor>>,
             status' = status \/ status' = libGen'
      PROVE  CatalogIInv'
  <2>1. PICK t \in catalogRows \cup fresh :
          /\ catalogRows' = IF t \in catalogRows THEN catalogRows \ {t} ELSE catalogRows \cup {t}
          /\ fresh' = fresh \ {t}
    BY <1>3 DEF CatalogCommit
  <2>2. libGen' = libGen + 1 /\ libGen \in Nat
    BY <1>2, <1>3 DEF CatalogCommit, IndexKept
  <2>3. ModesAgree'
    BY <1>2, <1>3 DEF ModesAgree, catalogModes
  <2>4. IndexKept'
    BY <1>2, <1>3, <2>1, <2>2 DEF IndexKept
  <2>5. \A k : HoldsModes(k) => HoldsModes(k)'
    BY <1>3 DEF HoldsModes, catalogModes
  <2>6. ASSUME NEW k, NEW ts, Covers(k, ts) PROVE Covers(k, ts)'
    <3>1. ASSUME k.req.kind = "folder"
          PROVE  /\ k.lib <= libGen' /\ libGen' # k.lib
                 /\ actor.lib <= k.lib => actor.tracks \cap catalogRows' \cap Folder \subseteq ts
      BY <1>2, <2>1, <2>2, <2>6, <3>1 DEF Covers, IndexKept
    <3>. QED  BY <1>2, <1>3, <2>1, <2>6, <3>1 DEF Covers, IndexKept
  <2>. QED  BY <1>1, <1>2, <1>3, <2>2, <2>3, <2>4, <2>5, <2>6
<1>4. CASE CommitOne \/ CommitInBatch
  BY <1>3, <1>4 DEF CommitOne, CommitInBatch
<1>5. CASE ShowStatus \/ FailBatch
  <2>1. UNCHANGED <<catalogRows, fresh, libGen, catalogModes, actor>> /\ status' \in {status, libGen}
    BY <1>5 DEF ShowStatus, FailBatch
  <2>2. ModesAgree' /\ IndexKept'
    BY <1>2, <2>1 DEF ModesAgree, IndexKept, catalogModes
  <2>3. \A k : HoldsModes(k) => HoldsModes(k)'
    BY <2>1 DEF HoldsModes, catalogModes
  <2>4. \A k, ts : Covers(k, ts) => Covers(k, ts)'
    BY <2>1 DEF Covers
  <2>5. libGen <= libGen' /\ libGen' \in Nat
    BY <1>2, <2>1 DEF IndexKept
  <2>. QED  BY <1>1, <2>1, <2>2, <2>3, <2>4, <2>5
<1>6. CASE PublishLibrary
  <2>1. /\ UNCHANGED <<catalogRows, fresh, libGen, status, catalogModes>>
        /\ actor' = [actor EXCEPT !.lib = libGen, !.tracks = catalogRows]
    BY <1>6 DEF PublishLibrary
  <2>2. /\ actor'.lib = libGen /\ actor'.tracks = catalogRows
        /\ actor'.gen = actor.gen /\ actor'.modes = actor.modes
        /\ DOMAIN actor' = DOMAIN actor
    BY <1>2, <2>1
  <2>3. ModesAgree'
    BY <1>2, <2>1, <2>2 DEF ModesAgree, catalogModes
  <2>4. IndexKept'
    BY <1>2, <2>1, <2>2 DEF IndexKept
  <2>5. \A k : HoldsModes(k) => HoldsModes(k)'
    BY <2>1 DEF HoldsModes, catalogModes
  <2>6. ASSUME NEW k, NEW ts, Covers(k, ts) PROVE Covers(k, ts)'
    BY <1>2, <2>1, <2>2, <2>6 DEF Covers, IndexKept
  <2>7. libGen <= libGen' /\ libGen' \in Nat
    BY <1>2, <2>1 DEF IndexKept
  <2>. QED  BY <1>1, <2>2, <2>3, <2>4, <2>5, <2>6, <2>7
<1>7. CASE PublishModes
  <2>1. PICK catalog \in CatalogModeCatalogs :
          /\ actor' = [actor EXCEPT !.gen = snap.gen + 1, !.modes = catalog]
          /\ loading' = <<[gen |-> snap.gen + 1, modes |-> catalog]>>
          /\ loading = <<>> /\ UNCHANGED <<catalogLibrary, snap>>
    BY <1>7 DEF PublishModes
  <2>2. /\ actor'.lib = actor.lib /\ actor'.tracks = actor.tracks
        /\ actor'.gen = snap.gen + 1 /\ actor'.modes = catalog
        /\ DOMAIN actor' = DOMAIN actor
    BY <1>2, <2>1
  <2>3. ModesAgree'
    BY <1>2, <2>1, <2>2 DEF ModesAgree
  <2>4. IndexKept'
    BY <1>2, <2>1, <2>2 DEF IndexKept, catalogLibrary
  <2>5. \A k : HoldsModes(k) => HoldsModes(k)'
    BY <2>1 DEF HoldsModes
  <2>6. \A k, ts : Covers(k, ts) => Covers(k, ts)'
    BY <2>1, <2>2 DEF Covers, catalogLibrary
  <2>7. libGen <= libGen' /\ libGen' \in Nat
    BY <1>2, <2>1 DEF IndexKept, catalogLibrary
  <2>. QED  BY <1>1, <2>2, <2>3, <2>4, <2>5, <2>6, <2>7
<1>8. CASE ShowModes
  <2>1. loading # <<>> /\ snap' = loading[1] /\ loading' = <<>> /\ UNCHANGED <<catalogLibrary, actor>>
    BY <1>8 DEF ShowModes
  <2>2. snap' = [gen |-> snap.gen + 1, modes |-> actor.modes] /\ actor.gen = snap.gen + 1
        /\ actor.modes \in CatalogModeCatalogs /\ snap.gen \in Nat
    BY <1>2, <2>1 DEF ModesAgree
  <2>3. ModesAgree'
    BY <2>1, <2>2 DEF ModesAgree
  <2>4. IndexKept'
    BY <1>2, <2>1 DEF IndexKept, catalogLibrary
  <2>5. \A k : HoldsModes(k) => HoldsModes(k)'
    BY <2>2 DEF HoldsModes
  <2>6. \A k, ts : Covers(k, ts) => Covers(k, ts)'
    BY <2>1 DEF Covers, catalogLibrary
  <2>7. libGen <= libGen' /\ libGen' \in Nat
    BY <1>2, <2>1 DEF IndexKept, catalogLibrary
  <2>. QED  BY <1>1, <2>1, <2>3, <2>4, <2>5, <2>6, <2>7
<1>. QED  BY <1>4, <1>5, <1>6, <1>7, <1>8 DEF Owners

(* Every step of the clients, of the owner and of the two catalogs keeps the invariant. *)
LEMMA CatalogNextInv == CatalogIInv /\ [CatalogNext]_catalogVars => CatalogIInv'
<1>. SUFFICES ASSUME CatalogIInv, [CatalogNext]_catalogVars PROVE CatalogIInv'
  OBVIOUS
<1>1. CASE UNCHANGED catalogVars
  <2>1. ModesAgree' /\ IndexKept' /\ CatalogShaped'
    BY <1>1 DEF catalogVars, CatalogIInv, ModesAgree, IndexKept, CatalogShaped
  <2>2. ASSUME NEW c \in CatalogClients PROVE Prepared(client[c])'
    BY <1>1 DEF catalogVars, CatalogIInv, Prepared, HoldsModes, Covers
  <2>. QED  BY <2>1, <2>2 DEF CatalogIInv
<1>2. CASE \E c \in CatalogClients : CatalogAsk(c) \/ ClientStep(c)
  BY <1>2, ClientInv
<1>3. CASE Owners \/ CommitOne \/ CommitInBatch \/ FailBatch \/ PublishModes
  BY <1>3, OwnersInv
<1>. QED  BY <1>1, <1>2, <1>3 DEF CatalogNext

(* The step that applies a command is the submission of a current one.     *)
LEMMA AppliedIsSubmitted ==
  ASSUME CatalogIInv, [CatalogNext]_catalogVars, NEW c \in CatalogClients,
         client[c].pc = "submit", client'[c].said = "applied"
  PROVE  CatalogCurrent(c) /\ Valid(client[c].cmd[1])
<1>0. client[c].said = "nothing" /\ DOMAIN client = CatalogClients
  BY DEF CatalogIInv, Prepared, CatalogShaped
<1>1. client' # client
  BY <1>0
<1>2. PICK d \in CatalogClients : CatalogAsk(d) \/ ClientStep(d)
  BY <1>1 DEF CatalogNext, catalogVars, Owners, CommitOne, CommitInBatch, FailBatch, PublishModes,
              PublishLibrary, ShowStatus, ShowModes
<1>3. d # c => client'[c] = client[c]
  BY <1>0, <1>2 DEF CatalogAsk, ClientStep, CatalogBegin, ReadModes, ReadTracks, Stamp, CatalogSubmit, Say, Again
<1>4. d = c
  BY <1>0, <1>3
<1>5. CatalogSubmit(c)
  BY <1>2, <1>4 DEF CatalogAsk, ClientStep, CatalogBegin, ReadModes, ReadTracks, Stamp
<1>6. ~Again(c) /\ ~Say(c, "missing")
  BY <1>0 DEF Again, Say, CatalogIdle
<1>. QED  BY <1>5, <1>6 DEF CatalogSubmit

(***************************************************************************)
(* A request that is applied does what it would do had it been resolved at *)
(* that moment, for every catalog, every number of clients and however     *)
(* often either owner has published since the request was read.            *)
(***************************************************************************)
THEOREM RequestsResolvedNow == CatalogSpec => ResolvedNow
<1> DEFINE Now(c) ==
      LET cmd == client[c].cmd[1]
          kind == client[c].req.kind
      IN  IF kind \in {"folder", "playlist"}
          THEN actor.tracks \cap catalogRows \cap (IF kind = "folder" THEN Folder ELSE CatalogPlaylist) \subseteq cmd.tracks
          ELSE <<cmd>> = Resolution(client[c].req, IF kind = "preset" THEN client[c].mode ELSE play.mode, actor.modes,
                                    IF kind = "cue" THEN cmd.tracks ELSE {})
<1>1. ASSUME CatalogIInv, [CatalogNext]_catalogVars, NEW c \in CatalogClients,
             client[c].pc = "submit", client'[c].said = "applied"
      PROVE  Now(c)
  <2> DEFINE k == client[c]
             cmd == k.cmd[1]
             kind == k.req.kind
  <2>0. ModesAgree /\ IndexKept
    BY <1>1 DEF CatalogIInv
  <2>1. Prepared(k) /\ HoldsModes(k) /\ k.cmd # <<>> /\ kind \in CatalogKinds
    BY <1>1 DEF CatalogIInv, Prepared
  <2>2. k.lib = actor.lib /\ k.modes.gen = actor.gen /\ Valid(cmd)
    BY <1>1, AppliedIsSubmitted DEF CatalogCurrent
  <2>3. k.modes.modes = actor.modes
    <3>. HIDE DEF k
    <3>. QED  BY <2>0, <2>1, <2>2 DEF HoldsModes, ModesAgree
  <2>4. PICK ts : /\ kind \in {"folder", "playlist"} =>
                       k.cmd = IF ts # {} THEN <<[kind |-> "tracks", tracks |-> ts]>> ELSE <<>>
                  /\ kind = "cue" => k.cmd = Resolution(k.req, k.mode, k.modes.modes, ts)
                  /\ kind \notin {"folder", "playlist", "cue"} =>
                       k.cmd = Resolution(k.req, k.mode, k.modes.modes, {})
                  /\ Covers(k, ts)
    BY <1>1, <2>1 DEF Prepared
  <2>5. CASE kind \in {"folder", "playlist"}
    <3>1. cmd.tracks = ts
      BY <2>1, <2>4, <2>5
    <3>2. actor.tracks \cap catalogRows \cap AskedTracks(k) \subseteq ts
      <4>. HIDE DEF k
      <4>. QED  BY <2>0, <2>2, <2>4, <2>5 DEF Covers, IndexKept, AskedTracks
    <3>. QED  BY <2>5, <3>1, <3>2 DEF AskedTracks
  <2>6. CASE kind = "cue"
    <3>1. k.cmd = <<[kind |-> "cue", id |-> k.req.id, mode |-> k.mode,
                     preset |-> ModeIn(actor.modes, k.mode).cues[k.req.id],
                     fade |-> FadeOf(ModeIn(actor.modes, k.mode), ModeIn(actor.modes, k.mode).cues[k.req.id]),
                     tracks |-> ts]>>
      BY <2>1, <2>3, <2>4, <2>6 DEF Resolution
    <3>2. cmd.tracks = ts /\ cmd.mode = k.mode /\ cmd.kind = "cue" /\ <<cmd>> = k.cmd
      BY <3>1
    <3>3. k.mode = play.mode
      BY <2>2, <3>2 DEF Valid
    <3>. QED  BY <2>3, <2>4, <2>6, <3>2, <3>3
  <2>7. CASE kind = "preset"
    <3>1. k.cmd = Resolution(k.req, k.mode, actor.modes, {})
      BY <2>3, <2>4, <2>7
    <3>2. k.cmd = <<cmd>>
      BY <2>1, <2>7, <3>1 DEF Resolution
    <3>. QED  BY <2>7, <3>1, <3>2
  <2>8. CASE kind \in {"mode", "track"}
    <3>1. k.cmd = Resolution(k.req, k.mode, actor.modes, {})
      BY <2>3, <2>4, <2>8
    <3>2. Resolution(k.req, k.mode, actor.modes, {}) = Resolution(k.req, play.mode, actor.modes, {})
      BY <2>8 DEF Resolution
    <3>3. k.cmd = <<cmd>>
      <4>1. CASE kind = "mode"
        BY <2>1, <3>1, <4>1 DEF Resolution
      <4>2. CASE kind = "track"
        BY <2>1, <3>1, <4>2 DEF Resolution
      <4>. QED  BY <2>8, <4>1, <4>2
    <3>. QED  BY <2>8, <3>1, <3>2, <3>3
  <2>9. CASE kind \in {"board", "sfx"}
    <3>1. k.cmd = Resolution(k.req, k.mode, actor.modes, {})
      BY <2>3, <2>4, <2>9
    <3>2. k.cmd = <<[kind |-> kind, id |-> k.req.id]>>
      BY <2>1, <2>9, <3>1 DEF Resolution
    <3>3. k.req.id \in ModeIn(actor.modes, play.mode).boards
      <4>1. cmd.kind \in {"board", "sfx"} /\ cmd.id = k.req.id
        BY <2>9, <3>2
      <4>. HIDE DEF cmd
      <4>. QED  BY <2>2, <4>1 DEF Valid
    <3>4. Resolution(k.req, play.mode, actor.modes, {}) = <<[kind |-> kind, id |-> k.req.id]>>
      BY <2>9, <3>3 DEF Resolution
    <3>. QED  BY <2>9, <3>2, <3>4
  <2>. QED  BY <2>1, <2>5, <2>6, <2>7, <2>8, <2>9 DEF CatalogKinds
<1>2. CatalogIInv /\ [CatalogNext]_catalogVars =>
        [\A c \in CatalogClients : client[c].pc = "submit" /\ client'[c].said = "applied" => Now(c)]_catalogVars
  BY <1>1
<1>. QED  BY <1>2, CatalogInitInv, CatalogNextInv, PTL DEF CatalogSpec, ResolvedNow

=============================================================================
