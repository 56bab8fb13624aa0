---------------------------------- MODULE Sca ----------------------------------
(***************************************************************************)
(* SCAScanner.Scan: read the manifests, remember what they name, ask OSV   *)
(* about it, and turn the advisories into findings; what a failing query   *)
(* makes of the scan is up to the configuration.                           *)
(***************************************************************************)
EXTENDS Osv

CONSTANTS
  Walked,   \* the files the walker found, in its order
  OnError   \* sca.on_error: the settings a scan may run with

ASSUME ScaAssumption == OnError \subseteq {"warn", "fail"}

NotRun == "not run"

VARIABLES
  onError,    \* SCAScanner.onError
  at,         \* "idle", "reading", "matching" or "done"
  nextFile,   \* the manifest to read next
  readDeps,   \* what has been read of them
  diags,      \* the diagnostics: what about, and why
  inventory,  \* SCAScanner.inventory
  findings,   \* the findings returned
  result      \* "none", "ok" or "error"

scanVars == <<onError, at, nextFile, readDeps, diags, inventory, findings, result>>
scaVars == <<scanVars, osvVars>>

Files == SelectSeq(Walked, Accepts)

Init ==
  /\ OsvInit
  /\ onError \in OnError
  /\ at = "idle" /\ nextFile = 1 /\ readDeps = <<>> /\ diags = {}
  /\ inventory = NotRun /\ findings = <<>> /\ result = "none"

StartScan ==
  /\ at = "idle" /\ at' = "reading"
  /\ UNCHANGED <<onError, nextFile, readDeps, diags, inventory, findings, result, osvVars>>

Reading(f) == at = "reading" /\ nextFile <= Len(Files) /\ f = Files[nextFile]

SkipManifest(f) ==
  /\ Reading(f) /\ Superseded(f, ToSet(Files))
  /\ nextFile' = nextFile + 1
  /\ UNCHANGED <<onError, at, readDeps, diags, inventory, findings, result, osvVars>>

\* A manifest may not be readable, or not parse: a diagnostic, and the next.
ReadManifest(f) ==
  /\ Reading(f) /\ ~Superseded(f, ToSet(Files))
  /\ \/ diags' = diags \cup {<<f, "unreadable">>} /\ UNCHANGED readDeps
     \/ /\ diags' = IF ParseFails(f) THEN diags \cup {<<f, "unparsed">>} ELSE diags
        /\ \E ds \in Parsed(f) : readDeps' = readDeps \o ds
  /\ nextFile' = nextFile + 1
  /\ UNCHANGED <<onError, at, inventory, findings, result, osvVars>>

\* The inventory is kept whatever becomes of the query; with nothing in it there
\* is none.
TakeInventory ==
  /\ at = "reading" /\ nextFile > Len(Files)
  /\ inventory' = Deduplicated(readDeps)
  /\ IF inventory' = <<>>
     THEN at' = "done" /\ result' = "ok" /\ UNCHANGED osvVars
     ELSE at' = "matching" /\ StartMatch(inventory') /\ UNCHANGED result
  /\ UNCHANGED <<onError, nextFile, readDeps, diags, findings>>

\* BuildDependencyFinding.
Finding(adv) ==
  [rule |-> "ZS-SCA-001", dep |-> adv.dep, primary |-> adv.id, ids |-> adv.ids,
   fingerprint |-> <<adv.dep.ecosystem, adv.dep.package, adv.id>>,
   severity |-> adv.severity, confidence |-> adv.confidence, range |-> adv.range]

ReportMatched ==
  /\ at = "matching" /\ outcome = "ok"
  /\ at' = "done" /\ result' = "ok"
  /\ findings' = [n \in DOMAIN matched |-> Finding(matched[n])]
  /\ UNCHANGED <<onError, nextFile, readDeps, diags, inventory, osvVars>>

\* Match failed: the whole result is an error, or a warning and no findings.
ReportFailure ==
  /\ at = "matching" /\ outcome = "error"
  /\ at' = "done"
  /\ IF onError = "fail" THEN result' = "error" /\ UNCHANGED diags
     ELSE result' = "ok" /\ diags' = diags \cup {<<"osv", "skipped">>}
  /\ UNCHANGED <<onError, nextFile, readDeps, inventory, findings, osvVars>>

ScanStep ==
  \/ StartScan
  \/ \E f \in Manifests : SkipManifest(f) \/ ReadManifest(f)
  \/ TakeInventory
  \/ ReportMatched
  \/ ReportFailure

Next ==
  \/ ScanStep
  \/ (OsvStep \/ ExpireDeadline) /\ UNCHANGED scanVars

Spec == Init /\ [][Next]_scaVars /\ OsvFairness /\ WF_scaVars(ScanStep)

------------------------------------------------------------------------------
(* Properties *)

Phases == {"idle", "batch", "page", "results", "prefetch", "hydrate", "merge", "done"}
Postures == {"idle", "ready", "took", "ask", "backoff", "got", "failed", "gone"}
Ratings == [dep : ToSet(deps), id : Ids, ids : SUBSET Ids, unavailable : BOOLEAN,
            severity : Severities \ {"none"}, confidence : Confidences \ {"none"},
            range : [from : AllVersions, below : AllVersions, upTo : AllVersions]]

\* Types of the scan's state: a caller's request never waits in the pool, an
\* attempt is one of MaxAttempts, and every advisory resolved is well formed.
ScaTypeOK ==
  /\ phase \in Phases /\ expired \in BOOLEAN /\ outcome \in {"none", "ok", "error"}
  /\ body \in Bodies
  /\ chunk \in Nat /\ turn \in Nat /\ page \in Nat /\ emitted \in Nat
  /\ request \in [Fetchers \cup {Caller} -> [at : Postures, id : Ids \cup {NoId}, tries : 0..MaxAttempts]]
  /\ Main.at \notin {"ready", "took", "gone"}
  /\ queue \in Seq(Ids) /\ cached \subseteq Ids /\ asked \subseteq Ids
  /\ served \in [Ids -> Nat]
  /\ \A a \in ToSet(advs) \cup ToSet(matched) : a \in Ratings
  /\ onError \in OnError /\ at \in {"idle", "reading", "matching", "done"}
  /\ nextFile \in Nat /\ result \in {"none", "ok", "error"}

\* The IDs OSV lists for a dependency, over all pages.
ListedIds(d) == UNION {ToSet(Listing(d)[n]) : n \in DOMAIN Listing(d)}

\* Was the advisory resolved, for this dependency, without its body?  (A later
\* pair may have had more luck with the same body.)
Unresolved(d, id) == \E n \in DOMAIN advs : advs[n].dep = d /\ advs[n].id = id /\ advs[n].unavailable

\* A scan that did not fail and was not skipped has reported every advisory OSV
\* lists for every dependency it read: under exactly one finding of that
\* dependency, rated no lower than the body says, and no lower than high when
\* the body could not be fetched ("a dropped advisory reads exactly like a clean
\* dependency").  Only a body that says it is withdrawn, or that has no ID of its
\* own, excuses its advisory.
NoAdvisoryIsLost ==
  at = "done" /\ result = "ok" /\ <<"osv", "skipped">> \notin diags =>
    \A d \in ToSet(inventory) : \A id \in ListedIds(d) :
      LET covering == {n \in DOMAIN findings : findings[n].dep = d /\ id \in findings[n].ids}
          least == IF Unresolved(d, id) THEN "high" ELSE ParseSeverity(body[id]).severity
      IN  \/ Skipped(body[id]) /\ ~Unresolved(d, id)
          \/ /\ Cardinality(covering) = 1
             /\ \A n \in covering : SeverityRank[findings[n].severity] >= SeverityRank[least]

\* mergeAliases links advisories "when any of their IDs overlap", through any
\* chain of aliases: what it returns for one dependency never names an ID twice.
GroupsShareNoId ==
  \A m, n \in DOMAIN matched :
    m # n /\ matched[m].dep = matched[n].dep => matched[m].ids \cap matched[n].ids = {}

\* However many dependencies an advisory hits, and however its fetches race,
\* fail and are retried, its body is served to the scan at most once.
BodyServedOnce == \A id \in Ids : served[id] <= 1

\* A deadline never truncates a verdict: when Match returns advisories, each
\* body was asked for while there was time, those without details included.
EveryBodyWasAsked ==
  outcome = "ok" => {p.id : p \in ToSet(pairs)} \subseteq asked

\* A scan that begins ends: with the deadline expired in the middle of the
\* prefetch, with the network failing, with nothing to ask.
ScanEnds == (at = "reading") ~> (at = "done")
==============================================================================
