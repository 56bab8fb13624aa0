-------------------------------- MODULE Findings --------------------------------
(***************************************************************************)
(* What becomes of the findings: the scanners' batches arrive at the       *)
(* collector in any order, duplicates are merged, tiers and the allowlist  *)
(* drop some, taint chains are marked, and the admin's exemptions are set  *)
(* apart.                                                                  *)
(*                                                                         *)
(* A finding is the record of what these steps look at:                    *)
(* [rule, kind, file, line, col, fingerprint, tier, sourceVar].            *)
(***************************************************************************)
EXTENDS Lists

CONSTANTS
  Scanners,     \* the enabled scanners
  Batches,      \* Batches[s]: the lists of findings scanner s may return
  Credentials,  \* credentialRuleIDs
  Shown,        \* the tiers of the report: the security tier, or all of them
  NoVar,        \* the finding depends on no taint
  Allowed(_),   \* AllowList.Suppressed
  Exempted(_),  \* the portal's exemptions match fingerprint and file
  NoChain       \* a finding that is in no chain

\* The findings of any batch of a scanner, and of them all.
Of(s) == UNION {{b[i] : i \in DOMAIN b} : b \in Batches[s]}
Given == UNION {Of(s) : s \in Scanners}

ASSUME BatchesAssumption == \A s \in Scanners : Batches[s] \subseteq Seq(Given)

VARIABLES
  batch,    \* batch[s]: what s returns in this run
  waiting,  \* the scanners whose batch has not arrived
  arrived,  \* collector.findings
  step,     \* "collect", "dedup", "tier", "allow", "chain", "exempt" or "done"
  next,     \* the finding the loop of Deduplicate has come to
  seen,     \* seen[k]: the row of the finding with key k
  rows,     \* the findings kept, each [f, also, chain]
  exempted, \* the rows an exemption took out of the count
  tierExcluded, suppressed

vars == <<batch, waiting, arrived, step, next, seen, rows, exempted, tierExcluded, suppressed>>

\* also: the other rules that reported the same fact, "also_reported_by".
Row(f) == [f |-> f, also |-> {}, chain |-> NoChain]

Init ==
  /\ batch \in {b \in [Scanners -> UNION {Batches[s] : s \in Scanners}] :
                  \A s \in Scanners : b[s] \in Batches[s]}
  /\ waiting = Scanners
  /\ arrived = <<>>
  /\ step = "collect"
  /\ next = 1
  /\ seen = [k \in {} |-> 0]
  /\ rows = <<>> /\ exempted = <<>>
  /\ tierExcluded = 0 /\ suppressed = 0

\* collector.Add, under its lock; a scanner's findings stay in their order.
Add(s) ==
  /\ step = "collect" /\ s \in waiting
  /\ waiting' = waiting \ {s}
  /\ arrived' = arrived \o batch[s]
  /\ UNCHANGED <<batch, step, next, seen, rows, exempted, tierExcluded, suppressed>>

\* Every scanner has returned.
CollectAll ==
  /\ step = "collect" /\ waiting = {}
  /\ step' = "dedup"
  /\ UNCHANGED <<batch, waiting, arrived, next, seen, rows, exempted, tierExcluded, suppressed>>

------------------------------------------------------------------------------
(* Deduplicate, one finding at a time *)

\* What makes two findings the same: for a dependency its fingerprint and
\* manifest, for a credential the line, whatever rule or column saw it, and for
\* the others the rule and the exact place.
Key(f) ==
  CASE f.kind = "sca" -> <<"sca", f.fingerprint, f.file>>
    [] f.kind # "sca" /\ f.rule \in Credentials -> <<"credential", f.file, f.line>>
    [] OTHER -> <<f.rule, f.file, f.line, f.col>>

\* Each scanner's findings are of its own kind (builder.go), and of the others no
\* two report one fact: "rule-ID namespaces are otherwise disjoint"
\* (deduplicator.go).
ASSUME KindsAssumption == \A s \in Scanners : \A f \in Of(s) : f.kind = "sast" <=> s = "sast"
ASSUME OwnFactsAssumption ==
  \A s, t \in Scanners \ {"sast"} : \A f \in Of(s), g \in Of(t) : Key(f) = Key(g) => s = t

\* Mutant of Preferred: first come, first kept.
PreferredNever(f, kept) == FALSE
\* A finding with an AST behind it replaces one without.
Preferred(f, kept) == f.kind = "sast" /\ kept.kind # "sast"

\* mergeDuplicate: the dropped finding's rule is noted in the row that is kept.
Merge(row, dropped) ==
  IF row.f.rule = dropped.rule THEN row ELSE [row EXCEPT !.also = @ \cup {dropped.rule}]

KeepNew(f) ==
  /\ Key(f) \notin DOMAIN seen
  /\ seen' = [k \in DOMAIN seen \cup {Key(f)} |-> IF k = Key(f) THEN Len(rows) + 1 ELSE seen[k]]
  /\ rows' = Append(rows, Row(f))

\* Mutant of MergeSeen: the duplicate is noted in the row that was added last.
MergeLast(f) ==
  /\ Key(f) \in DOMAIN seen
  /\ LET i == seen[Key(f)] IN
       rows' = IF Preferred(f, rows[i].f)
               THEN [rows EXCEPT ![i] = Merge(Row(f), @.f)]
               ELSE [rows EXCEPT ![Len(rows)] = Merge(@, f)]
  /\ UNCHANGED seen

\* A preferred duplicate takes the place of the row, with a list of its own.
MergeSeen(f) ==
  /\ Key(f) \in DOMAIN seen
  /\ LET i == seen[Key(f)] IN
       rows' = IF Preferred(f, rows[i].f)
               THEN [rows EXCEPT ![i] = Merge(Row(f), @.f)]
               ELSE [rows EXCEPT ![i] = Merge(@, f)]
  /\ UNCHANGED seen

Dedup ==
  /\ step = "dedup" /\ next <= Len(arrived)
  /\ KeepNew(arrived[next]) \/ MergeSeen(arrived[next])
  /\ next' = next + 1
  /\ UNCHANGED <<batch, waiting, arrived, step, exempted, tierExcluded, suppressed>>

DedupEnds ==
  /\ step = "dedup" /\ next > Len(arrived)
  /\ step' = "tier"
  /\ UNCHANGED <<batch, waiting, arrived, next, seen, rows, exempted, tierExcluded, suppressed>>

------------------------------------------------------------------------------
(* The filters, and the chains *)

InShownTier(row) == row.f.tier \in Shown
Counts(row) == ~Allowed(row.f)
IsExempted(row) == Exempted(row.f)
IsReported(row) == ~Exempted(row.f)

\* What the loop of a filter leaves of the rows.
RowsThat(Pass(_)) == Picked(rows, {i \in DOMAIN rows : Pass(rows[i])})

\* Mutant of ExcludeTiers: one is counted for each rule.
ExcludeTiersByRule ==
  /\ step = "tier"
  /\ rows' = RowsThat(InShownTier)
  /\ tierExcluded' = Cardinality({rows[i].f.rule : i \in {j \in DOMAIN rows : ~InShownTier(rows[j])}})
  /\ step' = "allow"
  /\ UNCHANGED <<batch, waiting, arrived, next, seen, exempted, suppressed>>
ExcludeTiers ==
  /\ step = "tier"
  /\ rows' = RowsThat(InShownTier)
  /\ tierExcluded' = Len(rows) - Len(rows')
  /\ step' = "allow"
  /\ UNCHANGED <<batch, waiting, arrived, next, seen, exempted, suppressed>>

Suppress ==
  /\ step = "allow"
  /\ rows' = RowsThat(Counts)
  /\ suppressed' = Len(rows) - Len(rows')
  /\ step' = "chain"
  /\ UNCHANGED <<batch, waiting, arrived, next, seen, exempted, tierExcluded>>

Tainted(f) == f.kind = "sast" /\ f.sourceVar # NoVar
Linked(f, g) == Tainted(f) /\ Tainted(g) /\ f.file = g.file /\ f.sourceVar = g.sourceVar

\* Mutant of Chained: chains are drawn before anything is filtered.
ChainedEarly(row) ==
  LET links == {i \in DOMAIN arrived : Linked(arrived[i], row.f)} IN
    IF Cardinality(links) < 2 THEN row
    ELSE [row EXCEPT !.chain = [size |-> Cardinality(links), rules |-> {arrived[i].rule : i \in links}]]
\* Mutant of Chained: a finding alone with its source is marked too.
ChainedAlone(row) ==
  LET links == {i \in DOMAIN rows : Linked(rows[i].f, row.f)} IN
    IF Cardinality(links) < 1 THEN row
    ELSE [row EXCEPT !.chain = [size |-> Cardinality(links), rules |-> {rows[i].f.rule : i \in links}]]
\* Two or more findings of a file with one tainted source are a chain.
Chained(row) ==
  LET links == {i \in DOMAIN rows : Linked(rows[i].f, row.f)} IN
    IF Cardinality(links) < 2 THEN row
    ELSE [row EXCEPT !.chain = [size |-> Cardinality(links), rules |-> {rows[i].f.rule : i \in links}]]

Correlate ==
  /\ step = "chain"
  /\ rows' = [i \in DOMAIN rows |-> Chained(rows[i])]
  /\ step' = "exempt"
  /\ UNCHANGED <<batch, waiting, arrived, next, seen, exempted, tierExcluded, suppressed>>

\* applyExemptions: an exempted finding is reported, and not counted.
Exempt ==
  /\ step = "exempt"
  /\ exempted' = RowsThat(IsExempted)
  /\ rows' = RowsThat(IsReported)
  /\ step' = "done"
  /\ UNCHANGED <<batch, waiting, arrived, next, seen, tierExcluded, suppressed>>

Next ==
  \/ \E s \in Scanners : Add(s)
  \/ CollectAll
  \/ Dedup \/ DedupEnds
  \/ ExcludeTiers \/ Suppress
  \/ Correlate \/ Exempt

Spec == Init /\ [][Next]_vars

------------------------------------------------------------------------------
(* Properties *)

ReportRows ==
  [f : Given, also : SUBSET {g.rule : g \in Given},
   chain : {NoChain} \cup [size : Nat \ {0, 1}, rules : SUBSET {g.rule : g \in Given}]]

FindingsTypeOK ==
  /\ batch \in [Scanners -> Seq(Given)] /\ waiting \subseteq Scanners
  /\ arrived \in Seq(Given)
  /\ step \in {"collect", "dedup", "tier", "allow", "chain", "exempt", "done"}
  /\ next \in 1..Len(arrived) + 1
  /\ rows \in Seq(ReportRows) /\ exempted \in Seq(ReportRows)
  /\ tierExcluded \in Nat /\ suppressed \in Nat

\* The findings Deduplicate has looked at.
Read == {arrived[i] : i \in 1..next - 1}

SeenIsTheRow ==
  /\ DOMAIN seen = {Key(f) : f \in Read}
  /\ \A k \in DOMAIN seen : seen[k] \in DOMAIN rows /\ Key(rows[seen[k]].f) = k
  /\ \A i \in DOMAIN rows : rows[i].f \in Read /\ seen[Key(rows[i].f)] = i

\* The rule list of a row is genuine: each rule on it reported that very fact,
\* and is not the row's own.
AlsoIsGenuine ==
  \A i \in DOMAIN rows : \A r \in rows[i].also :
    /\ r # rows[i].f.rule
    /\ \E f \in Read : f.rule = r /\ Key(f) = Key(rows[i].f)

\* Deduplicate has, at every point of its loop, one row for each fact it was
\* told of and no other, and notes a duplicate in the row it duplicates.
OneRowPerFact == step = "dedup" => SeenIsTheRow /\ AlsoIsGenuine

\* The finding the user sees of a fact does not depend on which scanner was
\* faster ("first one in was a coin toss", deduplicator.go): it is the first one
\* the SAST scanner has, or else the first one of the scanner that has one.
Reporters(k) == {s \in Scanners : \E i \in DOMAIN batch[s] : Key(batch[s][i]) = k}
FirstOf(s, k) ==
  batch[s][CHOOSE i \in DOMAIN batch[s] :
             Key(batch[s][i]) = k /\ \A j \in 1..i - 1 : Key(batch[s][j]) # k]
Representative(k) ==
  IF "sast" \in Reporters(k) THEN FirstOf("sast", k)
                             ELSE FirstOf(CHOOSE s \in Reporters(k) : TRUE, k)
RepresentativeIsStable ==
  step \notin {"collect", "dedup"} => \A i \in DOMAIN rows : rows[i].f = Representative(Key(rows[i].f))

\* Nothing is hidden silently (core/finding.go): each fact is reported, exempted,
\* or counted among the excluded or the suppressed.
EveryFactIsAccounted ==
  step = "done" =>
    Len(rows) + Len(exempted) + tierExcluded + suppressed
      = Cardinality({Key(arrived[i]) : i \in DOMAIN arrived})

\* A chain has exactly the linked findings that the report shows: none that a
\* filter dropped, and none left out.
ChainOf(list, f) ==
  LET links == {j \in DOMAIN list : Linked(list[j].f, f)} IN
    IF Cardinality(links) < 2 THEN NoChain
    ELSE [size |-> Cardinality(links), rules |-> {list[j].f.rule : j \in links}]
ChainsAreComplete ==
  step = "done" =>
    LET shown == rows \o exempted IN
      \A i \in DOMAIN shown : shown[i].chain = ChainOf(shown, shown[i].f)

\* mergeDuplicate's comment: "the dropped finding's provenance survives in the
\* kept one".
ProvenanceSurvives ==
  step = "dedup" =>
    \A f \in Read : \E i \in DOMAIN rows :
      Key(rows[i].f) = Key(f) /\ f.rule \in {rows[i].f.rule} \cup rows[i].also
==============================================================================
