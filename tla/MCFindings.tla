------------------------------ MODULE MCFindings ------------------------------
(***************************************************************************)
(* Two files.  A credential on one line that two detectors and two SAST    *)
(* rules see, a taint with two sinks, one of them in the hardening tier,   *)
(* and a manifest with two advisories.                                     *)
(***************************************************************************)
EXTENDS Findings

CONSTANTS app, manifest, password, apikey, hardcoded, pair, traversal, command, advisory,
          fpA, fpB, fpC, fpD, path

Finding(r, k, f, l, c, p, t, v) ==
  [rule |-> r, kind |-> k, file |-> f, line |-> l, col |-> c, fingerprint |-> p, tier |-> t,
   sourceVar |-> v]

SecretA == Finding(password, "secret", app, 9, 1, fpA, "security", NoVar)
SecretB == Finding(apikey, "secret", app, 9, 4, fpB, "security", NoVar)
SastA == Finding(hardcoded, "sast", app, 9, 1, fpC, "security", NoVar)
SastB == Finding(pair, "sast", app, 9, 2, fpD, "security", NoVar)
Sink1 == Finding(traversal, "sast", app, 3, 1, fpA, "security", path)
Sink2 == Finding(command, "sast", app, 4, 1, fpB, "security", path)
Sink3 == Finding(command, "sast", app, 5, 1, fpC, "hardening", path)
Sink4 == Finding(command, "sast", app, 6, 1, fpD, "hardening", NoVar)
AdvisoryA == Finding(advisory, "sca", manifest, 0, 0, fpA, "security", NoVar)
AdvisoryB == Finding(advisory, "sca", manifest, 0, 0, fpB, "security", NoVar)

\* What each scanner may return: nothing, one fact, one fact twice, two rules on
\* one line, and sinks of one source with and without the others.
MCBatches ==
  [s \in Scanners |->
     CASE s = "sast"    -> {<<>>, <<SastA>>, <<SastA, SastB, SastA>>, <<Sink1, Sink2, SastB>>,
                            <<Sink1, Sink2, Sink3>>, <<Sink1, Sink3, Sink4>>, <<Sink1, Sink1>>}
       [] s = "secrets" -> {<<>>, <<SecretA>>, <<SecretA, SecretB>>, <<SecretB, SecretA, SecretB>>}
       [] s = "sca"     -> {<<>>, <<AdvisoryA, AdvisoryB>>, <<AdvisoryA, AdvisoryA>>}]

\* .zs-allow.yaml drops one rule, the portal's admin one fingerprint of one file.
MCAllowed(f) == f.rule = traversal
MCExempted(f) == f.fingerprint = fpB /\ f.file = app
==============================================================================
