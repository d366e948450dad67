--------------------------- MODULE ModeDocuments ----------------------------
(***************************************************************************)
(* The documents of a mode, the mutations the handlers make of them, and   *)
(* what a mutation turns a mode into: the part of the mode coordinator     *)
(* that is a function of the catalog (music-server modes/write.rs and      *)
(* authoring, music-application modes.rs, music-media modes.rs).           *)
(*                                                                         *)
(* Of a mode's documents its manifest, one soundboard and one preset are   *)
(* kept; a cue is written, deleted and imported exactly as a preset.  A    *)
(* document is a value: the manifest "default" names the soundboard as     *)
(* default_soundboard, "plain" and "other" name none; "broken" is one that *)
(* does not parse, "none" one that is not there.                           *)
(***************************************************************************)
EXTENDS Naturals, Sequences

CONSTANTS
    Modes,
    Ops      \* kinds of mutation clients ask for

Docs == {"manifest", "board", "preset"}
Order == <<"manifest", "board", "preset">>
Manifests == {"plain", "other", "default"}
Contents == {"a", "b"}
Values == Manifests \union Contents \union {"none", "broken"}
NoBundle == [d \in Docs |-> "none"]

\* load_mode: the bundle is in the catalog, not in its errors.
Loads(b) ==
  /\ b.manifest # "none"
  /\ \A d \in Docs : b[d] # "broken"
  /\ b.manifest = "default" => b.board # "none"

-----------------------------------------------------------------------------
(* A mutation: the documents it writes ("none" for one it deletes),        *)
(* whether they are to be new, and whether it imports a playlist.          *)
Mutation(op, m, docs, create, list) ==
  [op |-> op, mode |-> m, docs |-> docs, create |-> create, list |-> list]

create_mode == {Mutation("create_mode", m, [manifest |-> "plain"], TRUE, FALSE) : m \in Modes}
delete_mode == {Mutation("delete_mode", m, NoBundle, FALSE, FALSE) : m \in Modes}
put_manifest ==
  {Mutation("put", m, [manifest |-> v], FALSE, FALSE) : m \in Modes, v \in Manifests}
create_soundboard ==
  {Mutation("put", m, [board |-> v], TRUE, FALSE) : m \in Modes, v \in Contents}
put_soundboard ==
  {Mutation("put", m, [board |-> v], FALSE, FALSE) : m \in Modes, v \in Contents}
delete_soundboard == {Mutation("delete", m, [board |-> "none"], FALSE, FALSE) : m \in Modes}
create_preset ==
  {Mutation("put", m, [preset |-> v], TRUE, FALSE) : m \in Modes, v \in Contents}
update_preset ==
  {Mutation("put", m, [preset |-> v], FALSE, FALSE) : m \in Modes, v \in Contents}
delete_preset == {Mutation("delete", m, [preset |-> "none"], FALSE, FALSE) : m \in Modes}

\* build_mutation: the manifest again, and the selected resources as new documents.
build_mutation ==
  {Mutation("import", m, [d \in {"manifest"} \union new |-> IF d = "manifest" THEN v ELSE "b"],
            TRUE, list) :
     m \in Modes, v \in Manifests, list \in BOOLEAN,
     new \in {{}, {"board"}, {"board", "preset"}}}

Mutations ==
  {x \in create_mode \union delete_mode \union put_manifest \union create_soundboard
           \union put_soundboard \union delete_soundboard \union create_preset
           \union update_preset \union delete_preset \union build_mutation : x.op \in Ops}

\* The handlers change a manifest they read: none of them touches default_soundboard.
MadeFrom(b, m) ==
  m.op \in {"put", "import"} /\ "manifest" \in DOMAIN m.docs
    => (m.docs["manifest"] = "default") <=> (b.manifest = "default")

Result(b, m) == [d \in Docs |-> IF d \in DOMAIN m.docs THEN m.docs[d] ELSE b[d]]

\* apply_catalog_mutation: b is the mode's bundle in the catalog, NoBundle when it has none.
Permitted(b, m) ==
  LET there == b.manifest # "none"
      others == DOMAIN m.docs \ {"manifest"}
      valid == Result(b, m).manifest = "default" => Result(b, m).board # "none"
  IN  CASE m.op = "create_mode" -> ~there
        [] m.op = "delete_mode" -> there
        [] m.op = "put"    -> there /\ valid /\ \A d \in others : m.create <=> b[d] = "none"
        [] m.op = "delete" -> there /\ valid /\ \A d \in others : b[d] # "none"
        [] m.op = "import" -> there /\ valid /\ \A d \in others : b[d] = "none"
=============================================================================
