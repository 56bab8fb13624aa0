------------------------------ MODULE MCPipeline ------------------------------
(***************************************************************************)
(* A project with a source file, one its own directory ignores, a test, a  *)
(* lockfile, a logo, a seed file under static/, a script deeper down there *)
(* that is no data, and a vendored directory; up to two SAST workers, and  *)
(* three scanners.                                                         *)
(***************************************************************************)
EXTENDS Pipeline, TLC

CONSTANTS root, src, static, deep, vendored,
          app, gen, tests, lock, logo, seed, script, lib,
          w1, w2

MCDirs == {root, src, static, deep, vendored}
MCRegulars == {app, gen, tests, lock, logo, seed, script, lib}
MCChildren ==
  (root :> <<lock, logo, src, static, vendored>>) @@ (src :> <<app, gen, tests>>)
    @@ (static :> <<deep, seed>>) @@ (deep :> <<script>>) @@ (vendored :> <<lib>>)
MCIgnores == [d \in MCDirs |-> IF d = src THEN {gen, lock} ELSE {}]
MCWorkers == {w1, w2}
MCScanners == <<"sast", "secrets", "sca">>
MCWants ==
  [s \in ToSet(MCScanners) |-> IF s = "sca" THEN {lock} ELSE {app, gen, tests, lock, seed, script}]
==============================================================================
