# A TLA+ model of the ZeroStrike engine

ZeroStrike scans a source tree for weaknesses (`zerostrike scan`) and can hand the
result to a portal (`zerostrike upload`). This directory holds TLA+ modules for the parts
of it whose difficulty is in control: what is cached and when it is trusted, who waits for
whom, what a deadline cuts short, what is merged and what is sent, and in which order. TLC
checks the modules on small instances; TLAPS proves, for every instance, each safety and
refinement property the passing runs check, but for one of the rule engine (section 5). Paths below are relative to `src/`.

```
tlc -config ScanCache.cfg MCScanCache      # a run: every .cfg, see "The runs"
tlapm ScanCacheProofs.tla                  # a proof: every *Proofs module
```

## 1. The system

| part | state | operations | calls or is called by |
|---|---|---|---|
| commands `scan`, `upload` (`cmd/zerostrike`) | flags, deadline, exit code | register, run, judge, render, upload, exit | pipeline, portal client, reports |
| portal client (`internal/portal`) | the request in flight | CreateScan, UploadJSON, UploadHTML, UpdateStatus over `doRequest` | the portal, over HTTP |
| pipeline (`internal/pipeline`) | collected files, results, diagnostics | New (rules, cache), Run | walker, scanners, findings |
| walker (`internal/walker`) | the two channels, recursion | Walk | file system; the pipeline drains it |
| SAST scanner (`internal/scanner/sast`) | queue, workers, result channel | Scan, processFile | caches, parsers, analyzer, engine |
| cache (`internal/cache`) | `meta.json`, `findings/`, `ir/` on disk | Open, Get, GetFindings, PutRecord, GetIR, SetIR | SAST workers; later scans |
| findings (`internal/findings`) | collector, merged rows | Add, Deduplicate, Correlate, Suppressed | pipeline, commands |
| SCA scanner, OSV client (`internal/scanner/sca`) | inventory; advisories fetched so far, requests in flight | Scan, Match, prefetch, hydrate, mergeAliases | OSV over HTTP |
| secrets scanner (`internal/scanner/secrets`) | findings; per file, the lines already judged | Scan: dotenv and compose passes, line detectors | pipeline, `suppress` |
| rule engine (`internal/engine`) | one index of rules, shared by all workers | BuildIndex, Match | SAST workers |
| taint, graphs, symbol table (`internal/analyzer`, `graph`, `symboltable`) | per-file verdicts, edges, scopes | Analyze, NewCFG, NewDFG, Resolve | rule engine |
| `suppress` | none | Suppressed | SAST, secrets |
| framework scanner | none | Scan, one check per kind of configuration file | pipeline |
| parsers, detector, IR, rules, reports | none between calls | pure functions of their input | the above |
| benchmark tool (`cmd/zerostrike-bench`) | none | scores a report against a manifest | not part of a scan |

Where it is hard, and what makes each part correct:

* **cache** — outlives the binary, the rules and the flags that filled it; it may be cut
  short between any two disk operations, and every I/O error is swallowed. *Correct* if a
  scan with the cache reports what a scan without it would, if `meta.json` never vouches
  for another build's entries, and if a rule edit does not cost a re-parse. The first two
  fail in the cases of section 6, so what is checked and proved says how far they hold.
* **pipeline, walker, SAST pool** — five kinds of goroutines, five channels, one
  deadline that stops some of them and not others, errors dropped when a channel is full.
  *Correct* if Run always returns, leaves nobody blocked, processes each file once, and
  before the deadline loses no file without a diagnostic, but for those that it could not
  read.
* **commands and portal** — requests are lost, answered late, retried, or applied after
  the client gave up; the deadline passes anywhere. *Correct* if no report hides a gap, the
  user has every report that was sent, a failed upload shows in the exit code, one command
  is one scan on the portal, and a verdict there is final.
* **findings** — results come in any order from scanners that report the same fact.
  *Correct* if there is one row for each fact, the row does not depend on the order, and
  every fact that does not reach the report is counted.
* **SCA scanner and OSV client** — a list of advisories comes page by page in the middle of a
  batch, a pool fetches bodies under a deadline, what it fails to fetch is asked for again
  pair by pair, and aliases tie advisories together through chains. Everything that goes
  missing here reads like a clean dependency. *Correct* if a scan that reports success has
  every advisory OSV lists, once, rated no lower than its body says, unless the body is withdrawn
  or has no ID.
* **rule engine, taint, graphs** — workers share one index; a verdict depends on the order of
  assignments, on branches and on the last definition of a name; folding decides that an
  argument cannot vary. *Correct* if each rule is reported wherever it fits and once, a
  strong taint and every path come from a real source, the graph lets through no definition
  that cannot arrive, and nothing that varies is folded to a constant.
* **secrets, suppression** — two passes look at the same line, comments silence their
  surroundings. *Correct* if no credential falls between the passes, no placeholder is taken
  for one, and a comment silences its own line and the next and nothing else.

PROJECT.json lists all parts with their status, and the hazards of this code at the lines
where they bite.

## 2. The modules

| module | models | shape |
|---|---|---|
| `FreshScan` | a SAST pass without a disk: it remembers nothing, or what its own engine and rules found, or what any build did | abstract specification of `ScanCache` |
| `ScanCache` | `cache.Open`, the disk caches, `processFile`, kills and I/O errors | many scans in sequence, workers of one scan interleaved |
| `Walker` | `fsWalker` | part of `Pipeline` |
| `SastPool` | `SASTScanner.Scan` with its queue, workers, closer and gatherer | part of `Pipeline` |
| `FileBatch` | a call of Scan seen from outside | abstract specification of `SastPool` |
| `Pipeline` | `ScanPipeline.Run`, EXTENDS `Walker` and `SastPool` | composition |
| `RunPromise` | what Run promises its caller | abstract specification of `Pipeline`; *used* by `ScanCommand` |
| `PortalClient` | `doRequest` and, as an external actor, the portal | part of `ScanCommand` |
| `ScanCommand` | both commands, EXTENDS `PortalClient`, INSTANCE `RunPromise` | composition |
| `Findings` | collector, Deduplicate, filters, chains, exemptions | one run's findings, from batches to report |
| `Sca` | `SCAScanner.Scan`, EXTENDS `Osv` | one scan, from the manifests to the findings |
| `Osv` | `osvClient.Match`, `doRequest`, the prefetch pool, `mergeAliases`; EXTENDS `Inventory` | the caller and its fetchers interleaved, with a deadline |
| `Inventory`, `Advisories`, `Versions` | the parsers of manifests and `deduplicateDeps`; severities, ranges and merged advisories; `compareVersions` and `extractRanges` | operators |
| `Lists` | the loops that append some elements of a slice to another one | operators |
| `Secrets` | `SecretsScanner.Scan`, EXTENDS `Suppress` and `Detectors` | one scan, file by file and line by line |
| `Suppress`, `Detectors` | `suppress.Suppressed`; the detector table and what a plausible value is | operators |
| `Matching` | `processFile` past the caches, `BuildIndex`, `Match`, `BuildFinding`, `scanEmbeddedScripts`; EXTENDS `Callees`, `Taint` and `Suppress` | workers that share an index; what a pattern asks of a node is given (`Fits`, `TaintedBy`) |
| `Callees` | the callee of a call, as written and through the imports | operators |
| `Filters` | `matchNode`, every filter, constant folding and path shapes; EXTENDS `Callees` | operators |
| `RuleEngine` | `Matching` and `Filters` together | composition: `Fits` is `MatchNode`, `TaintedBy` is `TaintedIdentifier` |
| `Taint`, `FlowGraph`, `Symbols`, `Tree` | `Analyze`, `Propagate` and summaries; `NewCFG` and reaching definitions; scopes and resolution; the tree all of them walk | operators |
| `MC...` | the instances TLC checks | |
| `ScanCacheProofs`, `ScanCommandProofs`, `PipelineProofs` (also of `SastPool` and `Walker`), `FindingsProofs`, `ScaProofs`, `SecretsProofs`, `MatchingProofs` (also of `Taint` and `FlowGraph`) | theorems about the module each is named after | |
| `ListsProofs` | lemmas about `Lists`, sequences and counting that the others share | |

The three abstract specifications chain the modules: a worker's `processFile` is one step
in `SastPool`, `ScanCache` shows how what this step yields differs from what a cold run yields
(`FreshScan`), and `Matching` models the cold run itself; Scan is one call in `Pipeline` (`FileBatch`); Run is one call in
`ScanCommand` (`RunPromise`). `ScanCommand` uses nothing of `Pipeline` but `RunPromise`.

### How a module's state corresponds to the code

* `ScanCache`: `meta`, `recs`, `irs` are the files under `<root>/.zerostrike/cache`;
  `source` the files being scanned; `config` the `Meta` and flags of the running process;
  `wiping` the removals Open's switch decided on; `work[f]` the local variables and program
  counter of the `processFile(f)` call. A disk operation is an action. `os.RemoveAll` is
  one action per entry, in any order, as it promises none. A finding is the record of what
  it is a function of (bytes, language, engine, rules, graph flag), so that a stale one
  *differs* from a fresh one. History variable: `strays`, the buckets that may hold entries
  `meta.json` does not name, because Open wrote it without looking at them.
* `Pipeline`, `Walker`, `SastPool`: `entries`, `errs`, `queue`, `results`, `ch` are the
  channels; `walking`, `worker[w]`, `scan[s]`, `main` the program counters of the
  goroutines. A scanner's findings are the set of files it looked at; `told` pairs
  a scanner with a file that a diagnostic says it did not look at. A file of `Breakable` fails
  in the walk, one of `Fleeting` may fail when a scanner opens it. History variable: `failed`
  (walk errors met).
* `ScanCommand`, `PortalClient`: `pc` is the place in `scanCmd`/`uploadCmd`; `call` the
  call of `doRequest`; `wire` the requests the portal has not served, given up or not;
  `scans` the portal. A report is what Run's result amounts to: `Whole`, `Told` (a
  diagnostic tells what is missing), `Unread` (what no diagnostic tells of could not be read)
  or `Gap`. History variable: `broke`.
* `Findings`: `arrived` is `collector.findings`; `next`, `seen`, `rows` are the loop
  variable, `seen` and `out` of Deduplicate; `rows` is then what `all` is in Run and
  `result.Findings` in the command. `Allowed` and `Exempted` are constant operators: what a
  pattern matches is data.

* `Sca`, `Osv`: `request[r]` is the call of `doRequest` that goroutine r is in (attempt,
  backoff, answer), `queue` the IDs not yet sent to `work`, `pairs` the (dependency, ID) pairs
  listed so far, `cached` the keys of `osvClient.advisories`; `turn`, `page`, `chunk` are the
  loop variables of Match; `label` and `owner` are the union-find of `mergeAliases`, a group
  being named by its last member instead of its root. `Pages` and `Bodies` are what OSV would
  answer; *whether* it answers, in time and readably, is up to the network. A version is its
  runs of digits and letters, so that comparing is modelled by what it does. History
  variables: `served`, `asked`.
* `Secrets`: `pass`, `fileNum`, `lineNum` are the place in Scan, `handled` is its map of
  judged lines. A line is what the code tells apart in it: its words, what each detector's
  pattern captures, the entry a structured parser reads there. The 30 rows of the detector
  table are in the model with their flags.
* `Matching`: a tree is the sequence of its nodes in the order of `ir.Walk`; `index` holds
  the three buckets of `RuleIndex`, `worker[w]` the place in `processFile` with the verdicts
  of the analysis and the matches so far. A regular expression is the set of texts it
  matches, a dotted name the sequence of its segments.

Definitions called "Mutant of ..." are plausible bugs of the definition below them. They
are not part of any specification; replacing the definition by its mutant makes TLC violate
the property the mutant is listed with in PROJECT.json, which shows that the property
depends on that code.

## 3. The runs

| run | checks | instance |
|---|---|---|
| `ScanCache.cfg` | `TypeOK`, `OnlyFreshReports`, `CacheMatchesMeta`, `CachedIsCold` (refines `FreshScan`), `RuleEditKeepsIR`, `ScanEnds` | two files that may share bytes, one of them with an extension-less name whose language depends on its bytes; three builds: a rule edit, a schema change, and both at once |
| `Pipeline.cfg` | `PipelineTypeOK`, `EachFileOnce`, `SendsAreFree`, `WalkFindsTheTree`, `RunKeepsItsPromise` (refines `RunPromise`), `WorkersAreOneCall` (refines `FileBatch`), `RunEnds`, `NobodyIsLeftBehind` | 8 files in 5 directories, 3 breakable paths, 2 files that may be gone when a scanner opens them, channels of capacity 1, one or two workers, three scanners |
| `ScanCommand.cfg` | `CommandTypeOK`, `NoSilentGap`, `LocalReportFirst`, `UploadIsNotMasked`, `TwinsNeedA5xx`, `VerdictIsFinal`, `CommandEnds` | both commands, with and without a portal, every kind of portal failure |
| `Findings.cfg` | `FindingsTypeOK`, `OneRowPerFact`, `RepresentativeIsStable`, `EveryFactIsAccounted`, `ChainsAreComplete` | three scanners with up to three findings each |
| `Sca.cfg` | `ScaTypeOK`, `NoAdvisoryIsLost`, `GroupsShareNoId`, `BodyServedOnce`, `EveryBodyWasAsked`, `ScanEnds` | four manifests, three advisories on two pages, two fetchers, two attempts, the deadline anywhere |
| `Secrets.cfg` | `MarkersAreLocal`, `CredentialsAreReported` | a file of two lines and its twin without comments, as a dotenv, compose, broken compose and program file |
| `Matching.cfg` | `MatchIsExhaustive`, `StrongHasSource`, `ReachingIsSound`, `PathsAreChains`, `FoldedArgumentsAreFixed` | two workers over programs put together from five statements and five shapes, a showcase of what the filters look at, and a page with scripts; 20 rules |
| `ScanCacheTwoAxes.cfg`, `ScanCacheGraphs.cfg`, `ScanCommandPending.cfg`, `FindingsProvenance.cfg`, `MatchingPatterns.cfg` | one statement of a doc or comment each, which the code does not keep | see section 6 |

### Bounds, and why they are enough

* *Cache.* A stale answer needs an entry, a build that wrote it and one that reads it. From
  one of the three builds to another only the rules change, only the schema, or both, which
  leaves stray trees; a wipe of the whole root, complete or cut short, comes with an
  unreadable `meta.json`. Two files are the least that share an AST entry. The number of
  scans is not bounded. Other engines and layouts, files of two languages with the same bytes
  and scans with and without `--enable-graphs` together are too many states for this run: the
  theorems of section 4 hold for any builds, languages and flags (a changed engine or layout
  wipes both buckets, `TargetsSuffice`), and `ScanCacheGraphs` has the flag.
* *Pipeline.* Capacity 1 for 64 and 16 makes the channels full early: the walker waits for
  its consumer, and a second walk error is dropped. The tree has every kind of entry the
  filters tell apart, and each inherited flag is inherited over two levels. Two workers are
  the least that compete; one makes Run serial. `Breakable` has the root's file and two
  directories, in every combination; of the two files that may be gone later both are SAST's
  and secrets' to read, and one is also SCA's, which tells of it. The fan-out treats the
  framework scanner as it does secrets, so three scanners stand for four.
* *Command.* `attempt` ends at 2 in the code itself, so nothing is bounded; all reachable
  states are checked.
* *Findings.* Merging is decided pairwise; three reports of one fact are the least for
  which the order of merging matters. The batches have each kind of pair: the same rule
  twice, two rules of one scanner, a SAST and a secrets rule, a taint with one, two and
  three sinks, of which filters drop one.

* *Dependencies.* Two fetchers are the least that race for one ID, two attempts the least
  that have a backoff, two pages the least that can be cut short in the middle of a result,
  and a batch size of 2 with three dependencies makes two batches. One advisory hits two
  dependencies. Of the four manifests one is superseded by a lockfile and one does not
  parse. The three sets of bodies link three advisories through an ID that none of them is
  listed under, link two of them by a later third, and withdraw one beside another that has no
  ID of its own. 185 444 states.
* *Secrets.* Suppression and the hand-over between the passes look at two adjacent lines;
  the eleven samples have each kind of value, context and entry, in every pair, under every
  pair of five comments. 266 200 states.
* *Matching.* Two statements in a branch, a loop, a try or a function are the least for
  which one definition overwrites, joins or escapes another; what comes before and after is
  fixed. Rules of every bucket, and a filter of every kind at least once, in `MCRules`.
  29 839 states, up to the exchange of the two workers.

`CHECK_DEADLOCK FALSE` is set throughout: a process that has ended stops, and the cache
model is a system at rest when nobody scans. That nothing *blocks* is `RunEnds`,
`NobodyIsLeftBehind`, `ScanEnds` and `CommandEnds`.

### Fairness

Weak fairness of each goroutine, and of nothing else: the Go scheduler eventually runs a
goroutine that can run, and file operations, the parsers and the rule engine return.
Requests end because `http.Client` has a timeout of 60 s (`internal/portal/client.go:34`), which is
fairness of `Http`, whose `GiveUp` is always possible while a request is out. Those to OSV
have one of 30 s (`internal/scanner/sca/osv.go:58`) and their backoff a timer, which is
fairness of `RequestStep`: it gives an answer, a refusal or a failure. No fairness
is assumed of the portal, of the deadline, of the person who starts scans, or of failures.
In `CommandFairSpec` one assumption is a result: that Run returns is `RunEnds`.

## 4. What is proved

All theorems hold for every value of the constants that satisfies the ASSUMEs of the module.

**Cache** (`ScanCacheProofs`). `TypeCorrect`, `Freshness`
(`OnlyFreshReports`), `MetaVouches` (`CacheMatchesMeta`), `RuleEdits` (`RuleEditKeepsIR`)
and `CachedScanIsCold` (`ScanCache` implements `FreshScan`). None of the properties is
inductive. `CacheInv` adds what each moment relies on:

* `OpenIsSound` — *while Open runs*, whatever it is not going to remove already belongs to
  the new meta, or is in a bucket it does not look at (`Unvouched`). This is the table's
  correctness, the lemma `TargetsSuffice`.
* `ScanIsSound` — *while a scan writes*, it does so under its own meta, and a bucket that is
  not among the `strays` belongs to it.
* `DiskIsSound` — *between scans*, whatever is on disk was made by some build of the very
  bytes it is stored for, in a language of a file that may hold them.
* `WorkIsSound` — *inside processFile*, a hit still has its record, and a tree in hand was
  parsed from these bytes, by this build unless the trees are strays.

Nothing is assumed of the builds, flags, languages or failures beyond the values being
distinct (`CacheConstants`): upgrades along several axes, toggled graphs, equal bytes in
two languages, cut wipes and lost reads are all in the model, and the theorems say what a
report can then be. `Freshness` has three tiers, which `FreshScan` spells out. A scan without
the cache reports exactly what a cold run does. A scan with it reports what a cold run with
this engine and these rules does, except that `--enable-graphs` may have been set otherwise,
that the tree may be that of another file with the same bytes, and that findings may be lost
to a second read that fails. A scan that found `strays` reports findings of
these bytes that *some* build made, or what it takes such a build's record for. A bucket
becomes stray in two ways only: Open found no `meta.json` beside it, or the rules and the
schema changed at once; it stops being one with the next wipe of the bucket. That the two
lower tiers do occur is what `ScanCacheGraphs` and `ScanCacheTwoAxes` show.

**Commands** (`ScanCommandProofs`). The five safety properties and `VerdictIsFinal`, from
one invariant. Its core: wherever a request on the wire comes from, if it carries a report
then it is the report the user has (`WireInv`), and a status call exists only if there is
none; hence the two kinds of requests that set a status never belong to the same command,
and no order of delivery can turn a verdict round. `UploadInv` follows an upload from the
2xx answer to the exit code; `TwinInv` counts creations, prepared, on their way and served.
Assumed: the markers are distinct values. In particular nothing is assumed of `Faults`.

**Findings** (`FindingsProofs`). All five properties of the run, for any scanners, batches,
order of arrival, tier, allowlist and exemptions.

* `RowsAreFacts` (`OneRowPerFact`): at every point of Deduplicate's loop there is exactly one
  row for each fact read so far, `seen` points to it, and each rule in its list reported that
  fact. `SeenIsTheRow` is needed for `AlsoIsGenuine`: a duplicate noted through a wrong index
  would name a rule that never reported the row's fact.
* `RepresentativesAreStable` (`RepresentativeIsStable`), through `RowsAreBest`: the row of a
  fact shows its first SAST report so far, or else its first report, and
  `ArrivedIsBatches`: what arrived is the batches one after the other, so which report
  comes first among one scanner's does not depend on the others. Assumed:
  `KindsAssumption` (only SAST reports SAST findings) and `OwnFactsAssumption` (no two other
  scanners report one fact), both true of today's rules, neither enforced.
* `FactsAreAccounted` (`EveryFactIsAccounted`), through `Accounted`: rows, exempted rows and
  the two counters always add up to the number of facts.
* `ChainsAreWhole` (`ChainsAreComplete`), through `ChainsAreDrawn`: the exemption, which
  comes last, splits the rows in two lists and joins them again in another order (lemma
  `Rearranged`), so it may not change what a chain is computed from.
* `FindingsTypeCorrect` (`FindingsTypeOK`).

**Worker pool** (`PipelineProofs`). `FilesAreProcessedOnce` and `ResultsNeverWait` say of
`PoolSpec(Files)`, the pool under any caller that hands it distinct files of `Files` at most
once, that no file is in two places and that a send never waits. `OnePlace` says that a file
is in the queue, with one worker, in the result channel or with the caller; `Room` that what
is queued, held and sent fits the result channel: a worker's own file is part of that sum,
so its send never waits. Assumed: finitely many workers.

**Run** (`PipelineProofs`), for any directory tree, filters, unreadable paths, channel
capacities, scanners and number of workers.

* `WalksFindTheTree` (`WalkFindsTheTree`), through `WalkIsSound`: whatever is on the walker's
  stack, in the channel and in the list is a path of the tree with the flags it inherits,
  each once, and whatever is to be found and is not yet listed is below an entry of the
  stack. That every path is below the root, whose walk starts it, rests on
  `TreeAssumption`: what ReadDir lists is a tree. Its lemmas take a least counterexample,
  as there is no induction over the tree.
* `RunUsesThePool`: a step of Run is a step of `PoolSpec(Regulars)`, so the two theorems of
  the pool hold of Run: `RunProcessesOnce` (`EachFileOnce`), `RunNeverBlocksWorkers`
  (`SendsAreFree`).
* `WorkersImplementOneCall` (`WorkersAreOneCall`): pool and workers refine `FileBatch`.
* `RunKeepsPromise` (`RunKeepsItsPromise`): Run refines `RunPromise`, which is all that
  `ScanCommand` takes of it. `RunIsSound` follows each scanner's answer from its return over
  the channel to the caller: of what it was given, each file is found, told of, or could not
  be read, or the deadline has passed (lemma `Accounts`); and as many were heard as the fan-out has received, so that none is missing at the end.
* `PipelineTypeCorrect` (`PipelineTypeOK`), the capacities of the channels included.

**Dependencies** (`ScaProofs`). `DedupIsExact`:
`deduplicateDeps` keeps exactly the first dependency of each key, for lists of any length.
`ComparisonIsTotal`, `ComparisonIsTransitive`, `RangesAreConvex`: `compareVersions` is a
total order up to the runs of a version, whatever mixes of numbers, tags and lengths it is
given, hence an interval of affected versions has no holes. `BracketingIsDisplayed`: whatever
the events of the ranges and their order, the range shown is of one of the package's intervals,
and the first that brackets the version if any does. Of Match:

* `VerdictsAreComplete` (`EveryBodyWasAsked`), through `AskedInv`: while there is time, an
  ID is still queued, in the hands of a fetcher, or was asked for; so when the pool is empty
  and the deadline has not passed, nothing is left over.
* `BodiesAreServedOnce` (`BodyServedOnce`), through `PoolInv`: an ID that has not been served
  is in one place only, the queue or one goroutine's request. It needs `ListInv`, that what
  was queued are the distinct IDs listed so far.
* `GroupsAreDisjoint` (`GroupsShareNoId`), through `GroupInv`: each ID's owner is in the same
  group as every other advisory with that ID, and what has been emitted is a whole group.
  The second half is needed because groups keep growing until the first one is emitted.

Of the scan as a whole, `AdvisoriesAreReported` (`NoAdvisoryIsLost`). An advisory is handed on
four times, and each hand-over has its invariant: `QueryInv`, OSV's pages to pairs (the
dependencies gone through have all their pages among the pairs, the one at hand its first
ones); `RatingInv`, pairs to advisories (each pair gone through has an advisory, rated as the
body says or high for want of one, unless it is withdrawn or has no ID); `CoverInv`, advisories to
groups (each advisory gone through is in a group rated no lower); `ReportInv`, groups to
findings. That the covering finding is the *only* one is `GroupInv` again.

`ScaTypeCorrect` (`ScaTypeOK`) needs, beyond these, when a request may be under way:
`PostureInv` (one that waits to try again has an attempt left, the caller's is never in the
pool) and `CallerInv` (the caller has none between two queries or while the pool works), and
`AdvisoryInv`, the form of what is resolved and merged.

Assumed: `OsvAssumption` (finitely many fetchers, the caller not one of them, at least one
attempt, batches that are not empty, each listing at least one page, and bodies that are what
decoding a body yields, under the ID it was asked for or none: `IsABody`), `EntriesAssumption` (a manifest's entries are a list) and
that IDs are naturals, which stands for their order as strings.

**Secrets** (`SecretsProofs`). `AnnotationsStayLocal` (`MarkersAreLocal`) and
`CredentialsAreNotLost` (`CredentialsAreReported`), for any files, lines, values and
annotations. The invariant, `PassInv`, says what the three passes come to: `OfFile` is
what a file has to report, defined of its text alone; whatever is found is in `OfFile` of its
file, a file gone through and not passed over has all of it, and of the file at hand
`SoFar` is reported and `JudgedSoFar` remembered as judged. The second is needed because
the line detectors read it: without it a line judged by neither pass could be left out. From
`OfFile` both theorems follow without another induction: a file and its twin without
comments have the same to report but for what is silenced (`TwinsSeeTheSame`), and nothing is
silenced on a line without a marker (`SilencersAreMarked`). Assumed: slices are slices and
the detectors that match a line are the table's (`SecretsAssumption`), and a twin is read by the
same passes and differs in its comments only (`TwinAssumption`, which is what a twin is).

**Rule engine and taint** (`MatchingProofs`), for any rules, files, trees and number of
workers, and whatever a pattern asks of a node (`Fits` and `TaintedBy` are constant
operators, as the patterns of `Filters` are recursive). Four of the five properties of the
run:

* `WalksMissNothing` (`MatchIsExhaustive`). The property says only what a walk has reported
  when it is over, so it is not inductive. `WalksInv` says it of every node: what a worker has
  reported is what is due of the nodes before the next one, its verdicts are those on the
  tree of its unit, and the index is the one that was built. The last conjunct is what the
  others rest on, since all workers read that index. `CandidatesOnce` is the lemma about the
  index: the buckets that a node's kind, its callee as written and through the imports, and
  their last segments lead to have each live rule that could match the node, and have it
  once, although a rule may stand in one of them for two reasons. `DueGrows` and
  `VisitMatches` are the step: one node more, with a once-per-file rule counted where it
  stands first.
* `StrongTaintHasASource` (`StrongHasSource`). The walk over the assignments is a recursive
  function, so the argument is a least counterexample over its steps (`WalkUnfolds`,
  `AssignUnfolds`). What each step keeps, `Kept`, is stated for an arbitrary set of names
  that is closed under the file's assignments: a name that is tainted and not weak is in
  every such set. A name may lose its taint and get it back, a parameter's weakness is handed
  on by whatever refers to it, and a summary may taint without any name.
* `PathsLeadToNames` (`PathsAreChains`), from the same `Kept`: a path that is not empty ends at
  the last assignment so far that binds the name, and each of its steps refers to a name that
  the step before assigns. It holds whatever definitions the graph lets through: the graph
  only decides whether there is a path.
* `TheGraphIsSound` (`ReachingIsSound`). `Settled` and `LiveAt` repeat a step until it changes
  nothing. `IterationsAre` shows that such a function exists for any step, `IterationsEnd`
  that it ends where some bounded measure grows: here how much the sets hold. `SettledIsLeast`
  follows: the sweeps keep within every family of sets that they would leave alone
  (`LeftAlone`). `Carried` is such a family (`CarriedIsClosed`), made of what control passes,
  so nothing settles that control does not carry. That each edge stays in it,
  `ControlFollows`, is where the graph's shape counts: a block is of one node and is no
  statement (`OneOwner`, `BlocksAreNoStatements`), so to leave a loop's body is to come from
  the loop; and where control leaves a statement, it goes where the whole of it does
  (`ExitsAre`), through any depth of branches, because the last statement of a block has that
  around it (`AroundTheLast`) and a return or an if with an else is no exit.

Assumed: `RulesAssumption` (a rule that names a callee names at least one segment of it) and
`ContentsAssumption` (a file's units are trees, `IsATree`: subtrees nest, a node's parent is
the nearest node around it, a single assigned name is not empty; and a file in a known
language has a unit). TLC evaluates both on the
instance.

## 5. Only model-checked

* Liveness (`RunEnds`, `NobodyIsLeftBehind`, `ScanEnds` of the cache and of `Sca`,
  `CommandEnds`): out of the prover's reach, as are fairness and ENABLED.
* `FoldedArgumentsAreFixed` is a statement about Python programs, not about every tree: it
  takes each identifier below an argument for one that is read, so a variable that shares its
  name with a method (`p.parent`) or with a part of a callee would refute it; and it is about
  names that stand alone between the commas of a left-hand side, the others being
  `UnpackedNamesVary` (section 6). A theorem would
  first need what the grammar lets an attribute and a call consist of, which is not modelled.
  Constant folding (`ConstPath`, `ConstNames`) and `Varying` are RECURSIVE operators besides,
  which take the SMT prover away. So is `MatchNode`: what a pattern says of a node is checked by
  TLC, and that a walk asks it of every node is proved.
* What the constants stand for: the assumptions named in section 4 are evaluated by TLC on each
  instance, and are otherwise statements about the data (a tree, a table, a decoded body).

## 6. Where the code differs from what is said of it

These have a violation run each; PROJECT.json quotes the sentence and its line.

1. `ScanCacheTwoAxes` — Open stops at the first mismatch. With rules *and* schema changed
   it wipes `findings/` only, writes the new meta, and the next look-up takes trees of the
   old schema for trees of the new one.
2. `ScanCacheGraphs` — `--enable-graphs` is not part of `Meta`; a hit returns findings
   without paths.
3. `ScanCommandPending` — the status call after a timeout is made with the expired context,
   so the scan stays pending.
4. `FindingsProvenance` — a SAST finding that takes over a row drops the rules the row had
   already noted; which, depends on the order of arrival.
5. `MatchingPatterns` — the text of a left-hand side is cut at its commas, so `(a, b) = ...`
   and `a, *b = ...` do not bind the names next to a bracket or a star; one that had a constant
   value before is folded to it, and the rule that asks for a varying argument is silent.

Four more are in the model, and what is checked and proved makes room for each of them and for
nothing else:

* A removal of the whole cache root that is cut short behind `meta.json`
  (`internal/cache/meta.go:103`) leaves entries that the next Open takes for a first run's and
  vouches for, whatever build they are of (against `meta.go:53-55`, "under-invalidating (serving
  stale results) is worse"). They are `strays`, for which `CacheMatchesMeta` does not hold and
  `OnlyFreshReports` promises less.
* A hit is read twice, and a second read that fails is taken for a file without findings; no
  diagnostic says so (`internal/cache/diskcache.go:151-155`, `internal/scanner/sast/sast.go:155-158`,
  against `diskcache.go:86-87`, "only cost it a re-scan"). `FreshScan` lets a scan with a cache,
  and no other, lose the findings of a file this way.
* The AST cache is keyed by the bytes alone (`internal/cache/diskastcache.go:42`), so a file may be
  matched over the tree of another file with the same bytes in another language. `FreshScan`
  allows the languages of the files that may hold the bytes, `LanguagesOf`.
* The findings of an inline script are appended without asking `suppress.Suppressed`
  (`internal/scanner/sast/sast.go:268`), so an annotation on the flagged line of a page is
  honoured in the page and not in its scripts. `EndUnit` does the same.

Met while modelling, without a run, because no sentence of the repository promises more:

* A file that can be walked and not be read is passed over without a word by SAST
  (`internal/scanner/sast/sast.go:133-136`), secrets (`internal/scanner/secrets/scanner.go:316-318`)
  and framework (`internal/scanner/framework/scanner.go:80-82`); SCA leaves a diagnostic.
  `RunPromise` has this as `Unread`.
* An advisory whose body has no ID is skipped like a withdrawn one
  (`internal/scanner/sca/osv.go:168`), which `NoAdvisoryIsLost` excuses.
* The walker's interface calls its errors non-fatal; Run fails on the first one
  (`internal/pipeline/scanner.go:243`).
* A failed or timed-out scan exits with 1 (`cmd/zerostrike/scan.go:266`), which the README
  reserves for findings.
* A registered scan whose *rendering* fails stays pending (`cmd/zerostrike/scan.go:350`).
* A pnpm-lock.yaml that does not decode is an empty manifest without a diagnostic
  (`internal/scanner/sca/lockfile.go:390`), and a key with peer dependencies is split at the
  wrong `@` (`:397`), so OSV is asked about a version it has never seen.
* Which of a package's two entries in a package-lock.json is kept, the direct or the
  transitive one, depends on the order of a Go map (`:300`, `:614`).
* A path is extended with the last path recorded for a name, even where another definition
  is the one that reaches (`internal/analyzer/taint/taint.go:238`): its steps follow from one
  another (`PathsAreChains`), but need not be the steps the program takes.
* There is no edge from a block to its first statement, so definitions before a branch do
  not enter it; nor is there one from the last statement of a loop's body back to the loop. The
  graph leaves paths out and never invents one, and `ReachingIsSound` claims no more: that no
  edge is missing is no property of this project, because it is not true. The `if` case takes for granted that there is a block (`internal/graph/graph.go:106`).
* The line detectors look at the first match on a line only (`internal/scanner/secrets/scanner.go:356`).

## 7. Not modelled, and the plan

Left out for good: the source parsers (tree-sitter grammars through cgo) and the syntax of
manifests, the layouts of reports, YAML decoding of rules, git metadata, the benchmark tool.
They keep no state, and their correctness is about text.

Abstractions to keep in mind. One scan process at a time uses a cache. The command is not
killed. What the walk finds is a tree that does not change meanwhile, but for files that can no
longer be read.
Globs, sizes, extensions and roles are constants. The stability of representatives assumes
what holds of today's rule IDs: of the scanners other than SAST only one reports
credentials. The portal and OSV are external: only what the client sees of them is assumed.
In `Sca`, advisory IDs are naturals in their lexicographic order, a CVSS vector is its
score, and ecosystems differ only in the names `Canonical` folds. In `Secrets`, a regular
expression is what it captures and entropy a flag. In `Matching`, patterns are sets of
texts, so the normalisation of names inside a pattern is not modelled; the depth at which
constant folding stops (12) is left out, those of path shapes (8 and 3) are kept; the
programs of the instance have no `elif`; the rendering of callees and the filters of the
JavaScript family are left out, as are the tainted value of a keyword argument
(`internal/engine/jsfamily.go:475`) and the arguments that are objects resolved through a name
(`internal/engine/engine.go:402-410`); and `rebaseIR` only moves lines. `BuildConfigFinding` belongs
to the framework scanner and is missing.

What is next, in order:

1. `ScanCache` with a second process, which may wipe or replace what the first reads, and the
   rules read twice at start (loaded, then hashed).
2. The JavaScript family in `Filters`: the rendering of callees and its own filters.
3. The framework scanner, as one more producer with per-file checks.
