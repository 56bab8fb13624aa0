----------------------------- MODULE MCScanCache -----------------------------
(***************************************************************************)
(* Small instances of ScanCache: two files that may come to hold the same  *)
(* bytes, and the builds and rule sets that scan the tree in turn.         *)
(***************************************************************************)
EXTENDS ScanCache, TLC

CONSTANTS tool, lib,  \* files: an extensionless script, and a file with an extension
          c1, c2,     \* contents: c1 starts with a Python shebang line
          python

MCFiles == {tool, lib}
MCContents == {c1, c2}
MCMayHold == (tool :> {c1, c2}) @@ (lib :> {c1})
MCLangOf == (tool :> (c1 :> python @@ c2 :> Unknown)) @@ (lib :> [c \in MCContents |-> python])

Build(f, e, r, s) == [format |-> f, engine |-> e, rules |-> r, schema |-> s]

\* A rule edit, a schema change during development, and both at once.
MCMetas == {Build(1, 1, 1, 1), Build(1, 1, 2, 1), Build(1, 1, 2, 2)}

\* The same engine version with a new rule set and a new schema at once.
MCMetasTwoAxes == {Build(1, 1, 1, 1), Build(1, 1, 2, 2)}

\* One build, run with and without --enable-graphs.
MCMetasOne == {Build(1, 1, 1, 1)}
==============================================================================
