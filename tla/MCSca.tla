--------------------------------- MODULE MCSca ---------------------------------
(***************************************************************************)
(* A web project with a lockfile next to its package.json, and a Maven     *)
(* module with a NuGet lockfile that does not parse.  The first lockfile   *)
(* names one package twice, once on top and once below another; OSV lists  *)
(* three advisories for it, on two pages; the Maven package shares one.    *)
(***************************************************************************)
EXTENDS Sca, TLC

CONSTANTS lock, pkg, pom, bad, web, java, f1, f2, main

V(n) == <<Num(n)>>
E(p, v, form, place) == [package |-> p, version |-> v, form |-> form, place |-> place]

MCManifests == {lock, pkg, pom, bad}
MCBase == (lock :> "package-lock.json") @@ (pkg :> "package.json") @@ (pom :> "pom.xml")
            @@ (bad :> "packages.lock.json")
MCDir == (lock :> web) @@ (pkg :> web) @@ (pom :> java) @@ (bad :> java)
MCAsset == [f \in MCManifests |-> FALSE]
MCWellFormed == [f \in MCManifests |-> f # bad]
MCEntries ==
  (lock :> <<E("a", V(2), "exact", "top"), E("a", V(2), "exact", "nested")>>)
    @@ (pkg :> <<E("a", V(1), "range", "top")>>)
    @@ (pom :> <<E("b", V(1), "property", "top"), E("c", V(1), "range", "managed")>>)
    @@ (bad :> <<E("a", V(1), "exact", "top")>>)
MCWalked == <<lock, pkg, pom, bad>>

MCIds == {1, 2, 3, 5}
MCGhsa == {2}
MCCanonical == [p \in {"a", "b", "c"} |-> p]
MCPages == (<<"a", V(2)>> :> << <<1, 2>>, <<3>> >>) @@ (<<"b", V(1)>> :> << <<2>> >>)

Range1 == << [git |-> FALSE, events |-> << [introduced |-> V(0), fixed |-> NoVersion, last |-> NoVersion],
                                            [introduced |-> NoVersion, fixed |-> V(3), last |-> NoVersion] >>] >>
Body(id, rating, aliases, withdrawn) ==
  [id |-> id, label |-> rating, aliases |-> aliases, withdrawn |-> withdrawn,
   severity |-> IF rating = "none" THEN {[v3 |-> TRUE, score |-> 975000]} ELSE {},
   affected |-> << [package |-> "a", ranges |-> Range1, severity |-> {}] >>]
Body5 == 5 :> Body(5, "low", {}, FALSE)

\* 1, 2 and 3 are one vulnerability, since all three name 5 or since the last
\* links the other two; or 1 has no ID of its own and 3 is withdrawn.
MCBodies ==
  {(1 :> Body(1, "low", {5}, FALSE)) @@ (2 :> Body(2, "moderate", {5}, FALSE))
     @@ (3 :> Body(3, "none", {5}, FALSE)) @@ Body5,
   (1 :> Body(1, "low", {}, FALSE)) @@ (2 :> Body(2, "critical", {}, FALSE))
     @@ (3 :> Body(3, "none", {1, 2}, FALSE)) @@ Body5,
   (1 :> Body(NoId, "low", {}, FALSE)) @@ (2 :> Body(2, "low", {}, FALSE))
     @@ (3 :> Body(3, "high", {1}, TRUE)) @@ Body5}
MCFetchers == {f1, f2}
==============================================================================
