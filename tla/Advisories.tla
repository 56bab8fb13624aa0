------------------------------- MODULE Advisories -------------------------------
(***************************************************************************)
(* What the OSV client makes of an advisory's body: its severity, the      *)
(* affected range, and the one advisory a group of aliases is merged into. *)
(*                                                                         *)
(* Advisory IDs are naturals, in their lexicographic order.                *)
(***************************************************************************)
EXTENDS Versions

CONSTANTS
  Ids,        \* the IDs OSV lists, and the ones bodies name as aliases
  Ghsa,       \* the ones that start with GHSA-
  Canonical   \* Canonical[p]: p as normalizePackageName folds it

ASSUME IdsAssumption == Ids \subseteq Nat /\ Ghsa \subseteq Ids

NoId == -1

\* What decoding the body asked for as id leaves of it, as far as its types go:
\* its own ID is that one, or missing.
IsABody(body, id) ==
  body.id \in {id, NoId} /\ body.aliases \subseteq Ids /\ AreAffected(body.affected)

NoName == "none"
Min2(S) == CHOOSE n \in S : \A k \in S : n <= k

SeverityRank ==
  [critical |-> 5, high |-> 4, medium |-> 3, low |-> 2, info |-> 1, none |-> 0]
ConfidenceRank == [high |-> 3, medium |-> 2, low |-> 1, none |-> 0]
Severities == DOMAIN SeverityRank
Confidences == DOMAIN ConfidenceRank

\* roundUp1, from hundred-thousandths to tenths.
RoundUp(n) == IF n % 10000 = 0 THEN n \div 10000 ELSE n \div 10000 + 1

\* severityFromScore, of a score in tenths.
SeverityFromScore(score) ==
  IF score >= 90 THEN "critical"
  ELSE IF score >= 70 THEN "high"
  ELSE IF score >= 40 THEN "medium"
  ELSE IF score > 0 THEN "low" ELSE "info"

\* parseSeverity: the curated label, else the best CVSS v3 vector, else medium.
\* vector.score is the sum roundUp1 is given, Malformed for an invalid vector.
Malformed == -1
ParseSeverity(body) ==
  LET vectors == body.severity \cup UNION {a.severity : a \in ToSet(body.affected)}
      scores == {RoundUp(v.score) : v \in {v \in vectors : v.v3 /\ v.score # Malformed}}
      Best == CHOOSE s \in scores : \A t \in scores : t <= s
  IN  IF body.label = "critical" THEN [severity |-> "critical", confidence |-> "high"]
      ELSE IF body.label = "high" THEN [severity |-> "high", confidence |-> "high"]
      ELSE IF body.label = "moderate" THEN [severity |-> "medium", confidence |-> "medium"]
      ELSE IF body.label = "low" THEN [severity |-> "low", confidence |-> "low"]
      ELSE IF scores # {} THEN [severity |-> SeverityFromScore(Best), confidence |-> "medium"]
      ELSE [severity |-> "medium", confidence |-> IF vectors # {} THEN "medium" ELSE "low"]

\* The entries of a body that are for the dependency's own package.
OwnPackage(body, dep) ==
  {a \in DOMAIN body.affected : \/ body.affected[a].package = NoName
                                \/ Canonical[body.affected[a].package] = Canonical[dep.package]}

\* hydrateVuln and the adv.ID == "" of Match: a withdrawn advisory is skipped,
\* and so is one whose body has no ID.
Skipped(body) == body.withdrawn \/ body.id = NoId

\* hydrateVuln: one advisory of one dependency, from its body.
Hydrated(body, dep) ==
  LET rated == ParseSeverity(body) IN
  [dep |-> dep, id |-> body.id, ids |-> {body.id} \cup body.aliases, unavailable |-> FALSE,
   severity |-> rated.severity, confidence |-> rated.confidence,
   range |-> ExtractRange(body.affected, OwnPackage(body, dep), dep.version)]

\* The advisory Match reports when the body could not be fetched.
WithoutDetails(id, dep) ==
  [dep |-> dep, id |-> id, ids |-> {id}, unavailable |-> TRUE,
   severity |-> "high", confidence |-> "low", range |-> NoRange]

\* representativeID: a GHSA when OSV listed one, else the smallest.
RepresentativeId(listed) ==
  IF listed \cap Ghsa # {} THEN Min2(listed \cap Ghsa) ELSE Min2(listed)

\* The member a group takes its rating from: the highest severity, and among
\* those the highest confidence.
WorstMember(members) ==
  CHOOSE m \in members : \A n \in members :
    \/ SeverityRank[n.severity] < SeverityRank[m.severity]
    \/ /\ n.severity = m.severity
       /\ ConfidenceRank[n.confidence] <= ConfidenceRank[m.confidence]

\* mergeGroup, of the members of all with an index in S: rated as its worst
\* member; the range is the representative's, else the first there is.
MergeGroup(all, S) ==
  LET members == {all[k] : k \in S}
      rep == RepresentativeId({m.id : m \in members})
      ranged == {k \in S : all[k].range # NoRange}
      own == {k \in ranged : all[k].id = rep}
  IN  [dep |-> all[Min2(S)].dep, id |-> rep,
       ids |-> UNION {m.ids : m \in members},
       unavailable |-> \A m \in members : m.unavailable,
       severity |-> WorstMember(members).severity,
       confidence |-> WorstMember(members).confidence,
       range |-> IF ranged = {} THEN NoRange
                 ELSE all[Min2(IF own # {} THEN own ELSE ranged)].range]
==============================================================================
