----------------------------- MODULE ModeStore ------------------------------
(***************************************************************************)
(* What the mode coordinator promises of the modes directory and of the    *)
(* playlists an import creates: a mutation happens at once and as a whole, *)
(* or not at all.                                                          *)
(***************************************************************************)
EXTENDS ModeDocuments

VARIABLES
    modes,  \* [mode -> its documents]
    lists,  \* modes that have the imported playlist
    done    \* mutations made so far

Init ==
  /\ modes \in [Modes -> [Docs -> Values]]
  /\ lists = {}
  /\ done = 0

Mutate(m) ==
  /\ MadeFrom(modes[m.mode], m) /\ Permitted(modes[m.mode], m)
  /\ m.list => m.mode \notin lists
  /\ modes' = [modes EXCEPT ![m.mode] = Result(modes[m.mode], m)]
  /\ lists' = IF m.list THEN lists \union {m.mode} ELSE lists

Next == done' = done + 1 /\ \E m \in Mutations : Mutate(m)

vars == <<modes, lists, done>>
Spec == Init /\ [][Next]_vars
=============================================================================
