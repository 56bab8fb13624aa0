------------------------------ MODULE ScanCache ------------------------------
(***************************************************************************)
(* The on-disk cache of one scan root (<root>/.zerostrike/cache) and the   *)
(* SAST scans that use it, one after another: cache.Open with its          *)
(* wipe-on-mismatch table, the finding cache, the AST cache, and           *)
(* processFile, whose workers run on different files at once.              *)
(*                                                                         *)
(* Between scans anything may change: the binary, its IR schema, the rule  *)
(* set, the flags, the files.  A scan may be killed between any two disk   *)
(* operations, and any read, write or removal may fail.                    *)
(*                                                                         *)
(* On disk:  findings/<sha256(path)>.json    recs[f]                       *)
(*           ir/<sha256(content)>.bin        irs[c]                        *)
(*           meta.json                       meta                          *)
(***************************************************************************)
CONSTANTS
  Files, Contents, MayHold, Languages, LangOf, Metas, GraphModes,
  Unknown, NoContent, NoScan, Nothing, Failed,
  NoMeta,           \* meta.json does not exist
  Corrupt,          \* meta.json exists and cannot be parsed
  NoRecord, NoIR,   \* no such file
  Garbage           \* what a reader of another layout makes of cached bytes

\* A Meta and the flags a scan runs with; --enable-graphs is not in Meta.
Configs == [meta : Metas, graphs : GraphModes]

\* The markers are no values of the sets they mark the absence of.
ASSUME CacheConstants ==
  /\ MayHold \in [Files -> SUBSET Contents]
  /\ LangOf \in [Files -> [Contents -> Languages]]
  /\ Metas \cap {NoMeta, Corrupt} = {} /\ NoMeta # Corrupt
  /\ NoContent \notin Contents /\ NoScan \notin Configs
  /\ Garbage \notin {Nothing, Failed}

VARIABLES
  source,   \* the files under the scan root
  meta, recs, irs,
  config,   \* the running scan's Meta and flags, or NoScan
  phase,    \* "idle", "open" (in cache.Open) or "scan"
  wiping,   \* what Open decided to remove
  cached,   \* FALSE when the scan runs on the Noop caches
  work,     \* work[f]: where processFile is with f
  strays    \* history: the buckets that may hold what meta.json does not name

disk == <<meta, recs, irs>>
vars == <<source, meta, recs, irs, config, phase, wiping, cached, work, strays>>

------------------------------------------------------------------------------
(* Values *)

\* The IR is stamped with the binary that parsed it, and findings with
\* everything they are a function of (see FreshScan).
IRs ==
  [content : Contents, lang : Languages,
   format : {m.format : m \in Metas}, engine : {m.engine : m \in Metas},
   schema : {m.schema : m \in Metas}]

Findings ==
  [content : Contents, lang : Languages,
   engine  : {m.engine : m \in Metas}, rules : {m.rules : m \in Metas},
   graphs  : GraphModes]

ASSUME NoTree == NoIR \notin IRs

Outputs == Findings \cup {Garbage, Nothing, Failed}
Buckets == {"findings", "ir"}

\* diskCacheRecord: the Entry's hash and the findings, in one file.
Records ==
  [sha : Contents, findings : Outputs, format : {m.format : m \in Metas}]

WorkItems ==
  [at : {"todo", "lookup", "hit", "miss", "store", "match", "done"},
   content : Contents \cup {NoContent},
   ir : IRs \cup {NoIR},
   out : Outputs]

Waiting == [at |-> "todo", content |-> NoContent, ir |-> NoIR, out |-> Nothing]

\* The builder's result for content c in language l.
Parsed(c, l, m) ==
  [content |-> c, lang |-> l, format |-> m.format, engine |-> m.engine, schema |-> m.schema]

\* Analyze + Match + BuildFinding over an IR.  An IR another schema or another
\* builder wrote does not mean what this engine takes it to mean.
Matched(ir, k) ==
  IF <<ir.format, ir.engine, ir.schema>> = <<k.meta.format, k.meta.engine, k.meta.schema>>
  THEN [content |-> ir.content, lang |-> ir.lang,
        engine |-> k.meta.engine, rules |-> k.meta.rules, graphs |-> k.graphs]
  ELSE Garbage

\* The findings in a record, as a reader of cache layout fmt decodes them.
Decoded(rec, fmt) == IF rec.format = fmt THEN rec.findings ELSE Garbage

------------------------------------------------------------------------------
(* cache.Open *)

\* Mutants of Targets: a rule edit wipes ir/ as well, and the schema is looked
\* at before the rules.
TargetsWipeTooMuch(prev, m) ==
  IF prev = NoMeta THEN {}
  ELSE IF prev = Corrupt THEN {"meta", "findings", "ir"}
  ELSE IF prev.format # m.format THEN {"meta", "findings", "ir"}
  ELSE IF prev # m THEN {"findings", "ir"}
  ELSE {}
TargetsSchemaFirst(prev, m) ==
  IF prev = NoMeta THEN {}
  ELSE IF prev = Corrupt THEN {"meta", "findings", "ir"}
  ELSE IF prev.format # m.format THEN {"meta", "findings", "ir"}
  ELSE IF prev.engine # m.engine THEN {"findings", "ir"}
  ELSE IF prev.schema # m.schema THEN {"ir"}
  ELSE IF prev.rules # m.rules THEN {"findings"}
  ELSE {}

\* Open's severity table: the first mismatch decides, the later ones are not
\* looked at.  A missing meta.json is a first run, a corrupt one wipes all.
Targets(prev, m) ==
  IF prev = NoMeta THEN {}
  ELSE IF prev = Corrupt THEN {"meta", "findings", "ir"}
  ELSE IF prev.format # m.format THEN {"meta", "findings", "ir"}
  ELSE IF prev.engine # m.engine THEN {"findings", "ir"}
  ELSE IF prev.rules # m.rules THEN {"findings"}
  ELSE IF prev.schema # m.schema THEN {"ir"}
  ELSE {}

\* readPriorMeta: a meta.json that cannot be read is taken for a corrupt one.
PriorMetas == IF meta \in Metas THEN {meta, Corrupt} ELSE {meta}

\* pipeline.New opens the cache: it reads meta.json and decides.
OpenCache(k) ==
  /\ phase = "idle"
  /\ phase' = "open"
  /\ config' = k
  /\ \E prev \in PriorMetas : wiping' = Targets(prev, k.meta)
  /\ UNCHANGED <<source, disk, cached, work, strays>>

\* --no-cache: the scan runs on NoopCache and NoopASTCache.
SkipCache(k) ==
  /\ phase = "idle"
  /\ phase' = "scan"
  /\ config' = k
  /\ UNCHANGED <<source, disk, wiping, cached, work, strays>>

\* os.RemoveAll unlinks one file at a time, in no particular order.
RemoveMeta ==
  /\ phase = "open" /\ "meta" \in wiping /\ meta # NoMeta
  /\ meta' = NoMeta
  /\ UNCHANGED <<source, recs, irs, config, phase, wiping, cached, work, strays>>

RemoveRecord(f) ==
  /\ phase = "open" /\ "findings" \in wiping /\ recs[f] # NoRecord
  /\ recs' = [recs EXCEPT ![f] = NoRecord]
  /\ UNCHANGED <<source, meta, irs, config, phase, wiping, cached, work, strays>>

RemoveIR(c) ==
  /\ phase = "open" /\ "ir" \in wiping /\ irs[c] # NoIR
  /\ irs' = [irs EXCEPT ![c] = NoIR]
  /\ UNCHANGED <<source, meta, recs, config, phase, wiping, cached, work, strays>>

Wiped ==
  /\ "meta" \in wiping => meta = NoMeta
  /\ "findings" \in wiping => \A f \in Files : recs[f] = NoRecord
  /\ "ir" \in wiping => \A c \in Contents : irs[c] = NoIR

\* What the new meta.json is going to vouch for unseen: with no meta.json to
\* compare with, all that is there; and behind a rule edit, which ends the
\* comparison, trees of another schema.
Unvouched ==
  IF meta = NoMeta THEN Buckets
  ELSE IF /\ meta \in Metas
          /\ meta.format = config.meta.format /\ meta.engine = config.meta.engine
          /\ meta.rules # config.meta.rules /\ meta.schema # config.meta.schema
       THEN {"ir"}
  ELSE {}

Held ==
  {b \in Buckets :
     \/ b = "findings" /\ \E f \in Files : recs[f] # NoRecord
     \/ b = "ir" /\ \E c \in Contents : irs[c] # NoIR}

\* The buckets of strays once meta.json says config.meta.  What is matched over
\* a stray tree is stored as a finding.
Adopted ==
  LET kept == (strays \cup Unvouched) \cap Held
  IN  IF "ir" \in kept THEN Buckets ELSE kept

\* Mutant of WriteMeta: the new meta.json is written before the wipe is over.
WriteMetaEarly ==
  /\ phase = "open"
  /\ meta' = config.meta
  /\ IF Wiped THEN phase' = "scan" /\ wiping' = {} /\ cached' \in BOOLEAN /\ strays' = Adopted
              ELSE UNCHANGED <<phase, wiping, cached, strays>>
  /\ UNCHANGED <<source, recs, irs, config, work>>

\* Once everything is removed, meta.json is renamed into place; creating the
\* directories after that may still fail, which leaves the Noop caches.
WriteMeta ==
  /\ phase = "open"
  /\ Wiped
  /\ meta' = config.meta
  /\ cached' \in BOOLEAN
  /\ phase' = "scan"
  /\ wiping' = {}
  /\ strays' = Adopted
  /\ UNCHANGED <<source, recs, irs, config, work>>

\* MkdirAll, RemoveAll or the write fails: Open returns the error and openCache
\* falls back to the Noop caches.  A removal of the whole root that stops half
\* way may have taken meta.json and left the rest, which the next Open takes
\* for a first run.
OpenFails ==
  /\ phase = "open"
  /\ phase' = "scan"
  /\ wiping' = {}
  /\ UNCHANGED <<source, disk, config, cached, work, strays>>

------------------------------------------------------------------------------
(* SASTScanner.processFile, for the one worker that took f off the queue *)

Goto(f, step) == work' = [work EXCEPT ![f].at = step]
Yield(f, o) == work' = [work EXCEPT ![f].at = "done", ![f].ir = NoIR, ![f].out = o]

\* detector.Detect looks at the path's extension, then at the shebang line.
Language(f) == LangOf[f][work[f].content]

ReadFile(f) ==
  /\ phase = "scan" /\ work[f].at = "todo"
  /\ work' = [work EXCEPT ![f].at = "lookup", ![f].content = source[f]]
  /\ UNCHANGED <<source, disk, config, phase, wiping, cached, strays>>

\* os.ReadFile fails: no findings and no diagnostic.
ReadFileFails(f) ==
  /\ phase = "scan" /\ work[f].at = "todo"
  /\ Yield(f, Nothing)
  /\ UNCHANGED <<source, disk, config, phase, wiping, cached, strays>>

\* Mutant of IsHit: any record for the path is a hit.
IsHitByPath(f) == cached /\ recs[f] # NoRecord
\* The Entry's hash against the hash of the bytes that were read.
IsHit(f) == cached /\ recs[f] # NoRecord /\ recs[f].sha = work[f].content

\* Mutant of Get: a path that was never recorded is not a miss.
GetHitOnly(f) ==
  /\ phase = "scan" /\ work[f].at = "lookup"
  /\ recs[f] # NoRecord
  /\ \/ Goto(f, "miss")
     \/ IsHit(f) /\ Goto(f, "hit")
  /\ UNCHANGED <<source, disk, config, phase, wiping, cached, strays>>

\* findingCache.Get(path); a record that cannot be read is a miss as well.
Get(f) ==
  /\ phase = "scan" /\ work[f].at = "lookup"
  /\ \/ Goto(f, "miss")
     \/ IsHit(f) /\ Goto(f, "hit")
  /\ UNCHANGED <<source, disk, config, phase, wiping, cached, strays>>

\* findingCache.GetFindings(path) reads the record again.  A second read that
\* fails, or does not parse, is (nil, nil), and processFile returns it as the
\* file's findings.
GetFindings(f) ==
  /\ phase = "scan" /\ work[f].at = "hit"
  /\ \/ Yield(f, Nothing)
     \/ recs[f] # NoRecord /\ Yield(f, Decoded(recs[f], config.meta.format))
  /\ UNCHANGED <<source, disk, config, phase, wiping, cached, strays>>

DetectUnknown(f) ==
  /\ phase = "scan" /\ work[f].at = "miss" /\ Language(f) = Unknown
  /\ Yield(f, Nothing)
  /\ UNCHANGED <<source, disk, config, phase, wiping, cached, strays>>

HasIR(f) == cached /\ irs[work[f].content] # NoIR

\* astCache.GetIR, keyed by the content alone.
GetIR(f) ==
  /\ phase = "scan" /\ work[f].at = "miss" /\ Language(f) # Unknown
  /\ HasIR(f)
  /\ work' = [work EXCEPT ![f].at = "match", ![f].ir = irs[work[f].content]]
  /\ UNCHANGED <<source, disk, config, phase, wiping, cached, strays>>

\* There is no blob, it cannot be read, or decodeCachedIR does not rebuild it.
BuildIR(f) ==
  /\ phase = "scan" /\ work[f].at = "miss" /\ Language(f) # Unknown
  /\ work' = [work EXCEPT ![f].at = "store",
                          ![f].ir = Parsed(work[f].content, Language(f), config.meta)]
  /\ UNCHANGED <<source, disk, config, phase, wiping, cached, strays>>

\* The builder, the analyzer or the engine returns an error: a diagnostic, no
\* findings, and nothing written to the finding cache.
Fails(f) ==
  /\ phase = "scan"
  /\ \/ work[f].at = "miss" /\ Language(f) # Unknown
     \/ work[f].at = "match"
  /\ Yield(f, Failed)
  /\ UNCHANGED <<source, disk, config, phase, wiping, cached, strays>>

\* astCache.SetIR; its error is ignored and the Noop cache drops the blob.
SetIR(f) ==
  /\ phase = "scan" /\ work[f].at = "store"
  /\ \/ UNCHANGED irs
     \/ cached /\ irs' = [irs EXCEPT ![work[f].content] = work[f].ir]
  /\ Goto(f, "match")
  /\ UNCHANGED <<source, meta, recs, config, phase, wiping, cached, strays>>

\* Mutant of RecordFor: the record is stored without its hash.
RecordForNobody(f, o) == [sha |-> NoContent, findings |-> o, format |-> config.meta.format]
RecordFor(f, o) == [sha |-> work[f].content, findings |-> o, format |-> config.meta.format]

\* Analyze, Match and BuildFinding, then findingCache.PutRecord: one atomic
\* rename, whose error is ignored.
MatchAndPut(f) ==
  /\ phase = "scan" /\ work[f].at = "match"
  /\ LET o == Matched(work[f].ir, config) IN
       /\ \/ UNCHANGED recs
          \/ cached /\ recs' = [recs EXCEPT ![f] = RecordFor(f, o)]
       /\ Yield(f, o)
  /\ UNCHANGED <<source, meta, irs, config, phase, wiping, cached, strays>>

------------------------------------------------------------------------------
(* The scan ends, is killed, or the world changes under it *)

Idle ==
  /\ phase' = "idle"
  /\ config' = NoScan
  /\ wiping' = {}
  /\ cached' = FALSE
  /\ work' = [f \in Files |-> Waiting]
  /\ UNCHANGED <<source, disk, strays>>

Finish ==
  /\ phase = "scan" /\ \A f \in Files : work[f].at = "done"
  /\ Idle

\* Past the deadline each worker stops at its next file, so nothing is left
\* half done; a killed process stops anywhere.
Interrupted == phase # "idle" /\ Idle

Edit(f) ==
  /\ \E c \in MayHold[f] : source' = [source EXCEPT ![f] = c]
  /\ UNCHANGED <<disk, config, phase, wiping, cached, work, strays>>

\* An out-of-band edit of meta.json.  One made while Open runs is overwritten,
\* or is one made after Open was cut short.
SpoilMeta ==
  /\ phase # "open"
  /\ meta \in Metas
  /\ meta' = Corrupt
  /\ UNCHANGED <<source, recs, irs, config, phase, wiping, cached, work, strays>>

Init ==
  /\ source \in {s \in [Files -> Contents] : \A f \in Files : s[f] \in MayHold[f]}
  /\ meta = NoMeta
  /\ recs = [f \in Files |-> NoRecord]
  /\ irs = [c \in Contents |-> NoIR]
  /\ config = NoScan
  /\ phase = "idle"
  /\ wiping = {}
  /\ cached = FALSE
  /\ work = [f \in Files |-> Waiting]
  /\ strays = {}

OpenStep ==
  \/ RemoveMeta
  \/ \E f \in Files : RemoveRecord(f)
  \/ \E c \in Contents : RemoveIR(c)
  \/ WriteMeta
  \/ OpenFails

WorkStep(f) ==
  \/ ReadFile(f) \/ ReadFileFails(f)
  \/ Get(f) \/ GetFindings(f)
  \/ DetectUnknown(f)
  \/ GetIR(f) \/ BuildIR(f) \/ SetIR(f)
  \/ MatchAndPut(f) \/ Fails(f)

Next ==
  \/ \E k \in Configs : OpenCache(k) \/ SkipCache(k)
  \/ OpenStep
  \/ \E f \in Files : WorkStep(f)
  \/ Finish
  \/ Interrupted
  \/ \E f \in Files : Edit(f)
  \/ SpoilMeta

Spec == Init /\ [][Next]_vars

\* The Go scheduler runs every goroutine that can run: Open, each worker and
\* the collector make progress.  Nothing obliges a scan to be started.
FairSpec ==
  /\ Spec
  /\ WF_vars(OpenStep)
  /\ \A f \in Files : WF_vars(WorkStep(f))
  /\ WF_vars(Finish)

------------------------------------------------------------------------------
(* Properties *)

TypeOK ==
  /\ source \in [Files -> Contents]
  /\ meta \in Metas \cup {NoMeta, Corrupt}
  /\ recs \in [Files -> Records \cup {NoRecord}]
  /\ irs \in [Contents -> IRs \cup {NoIR}]
  /\ config \in Configs \cup {NoScan}
  /\ phase \in {"idle", "open", "scan"}
  /\ wiping \in SUBSET {"meta", "findings", "ir"}
  /\ cached \in BOOLEAN
  /\ work \in [Files -> WorkItems]
  /\ strays \in SUBSET Buckets

\* The abstract scan this one implements: hide the disk, and a file counts as
\* reported once its worker is done with it.
TaskOf(f) ==
  [at |-> CASE work[f].at = "todo" -> "todo"
            [] work[f].at = "done" -> "done"
            [] OTHER               -> "read",
   content |-> work[f].content,
   out |-> IF work[f].at = "done" THEN work[f].out ELSE Nothing]

Memory == IF ~cached THEN "none" ELSE IF strays = {} THEN "own" ELSE "foreign"

Cold == INSTANCE FreshScan WITH task <- [f \in Files |-> TaskOf(f)], memory <- Memory

\* A scan with the cache is one that FreshScan allows, step for step, wherever
\* this scan and the ones before it were cut short and whatever failed: without
\* strays it reports what a cold scan would under this engine and these rules
\* (meta.go, "serving stale results is worse"), or less; with strays, still
\* only what some build found in the very bytes that were read.
CachedIsCold == Cold!Spec

Reported(f) == work[f].at = "done" /\ work[f].out \notin {Nothing, Failed}

\* The same as an invariant of the findings handed to the pipeline: a hit, or a
\* match over a cached tree, whoever stored it and when, is an outcome FreshScan
\* allows for the bytes that were read.
FreshAt(f) == Reported(f) => work[f].out \in Cold!Outcomes(f, work[f].content)
OnlyFreshReports == \A f \in Files : FreshAt(f)

\* Findings are those of this engine and rule set (README.md, "Cache failures
\* degrade to a slower scan, never a wrong one", and "changing any of them
\* invalidates the whole cache automatically").
NeverAWrongOne ==
  \A f \in Files : Reported(f) => work[f].out \in Cold!Served(work[f].content, {config.meta})

\* --enable-graphs changes what a finding carries, so a scan run with it must
\* report findings computed with it (README.md, "attaches an exact
\* source->sink path to a finding when --enable-graphs is set").
GraphsHonoured ==
  \A f \in Files : Reported(f) /\ work[f].out # Garbage => work[f].out.graphs = config.graphs

\* What the cache holds belongs to meta m.  A tree may be that of another file
\* with the same bytes, and so in that file's language.
RecordOf(f, m) ==
  /\ recs[f].format = m.format
  /\ recs[f].findings \in Cold!Served(recs[f].sha, {m})
RecordsOf(m) == \A f \in Files : recs[f] # NoRecord => RecordOf(f, m)

TreesOf(c, m) == {Parsed(c, l, m) : l \in Cold!LanguagesOf(c)}
IRsOf(m) == \A c \in Contents : irs[c] # NoIR => irs[c] \in TreesOf(c, m)

\* meta.json vouches for nothing that another engine, rule set, schema or layout
\* wrote, wherever Open, its removals or a scan were cut short, but for what was
\* adopted without a meta.json or left behind a rule edit: and then until the
\* next wipe of the bucket.
CacheMatchesMeta ==
  meta \in Metas => /\ "findings" \in strays \/ RecordsOf(meta)
                    /\ "ir" \in strays \/ IRsOf(meta)

ReadsTreesDifferently(m, n) ==
  m.format # n.format \/ m.engine # n.engine \/ m.schema # n.schema

\* Open removes a parsed tree only when the engine, the schema or the layout
\* changed, or with the whole root because meta.json could not be read: a rule
\* edit never costs a re-parse (meta.go, "ir/ stays valid").
RuleEditKeepsIR ==
  [][\A c \in Contents :
       irs[c] # NoIR /\ irs'[c] = NoIR /\ meta \in Metas =>
         "meta" \in wiping \/ ReadsTreesDifferently(meta, config.meta)]_vars

\* A scan that starts ends, whatever fails inside it.
ScanEnds == phase # "idle" ~> phase = "idle"

\* Why it holds.  While Open runs, whatever it is not going to remove already
\* belongs to the new meta, or is about to be adopted; a scan that writes does
\* so under its own meta; a worker holds a tree of its own build, or a record
\* that is still there; and whatever is stored was made of the bytes it is
\* stored for.
OpenIsSound ==
  /\ phase # "open" => wiping = {}
  /\ phase = "open" =>
       /\ "findings" \in wiping \cup strays \cup Unvouched \/ RecordsOf(config.meta)
       /\ "ir" \in wiping \cup strays \cup Unvouched \/ IRsOf(config.meta)
       /\ "meta" \in wiping => Buckets \subseteq wiping
       /\ meta \in Metas /\ "ir" \in wiping =>
            "meta" \in wiping \/ ReadsTreesDifferently(meta, config.meta)

ScanIsSound ==
  cached => /\ phase = "scan"
            /\ meta \in {config.meta, Corrupt}
            /\ "findings" \in strays \/ RecordsOf(config.meta)
            /\ "ir" \in strays \/ IRsOf(config.meta)

DiskIsSound ==
  /\ \A f \in Files : recs[f] # NoRecord =>
       /\ recs[f].sha \in MayHold[f] /\ LangOf[f][recs[f].sha] # Unknown
       /\ recs[f].findings \in Cold!Served(recs[f].sha, Metas) \cup {Garbage}
  /\ \A c \in Contents : irs[c] # NoIR => \E m \in Metas : irs[c] \in TreesOf(c, m)
  /\ "ir" \in strays => "findings" \in strays

SoundAt(f) ==
  /\ work[f].at # "todo" => phase = "scan"
  /\ work[f].at = "todo" => work[f].content = NoContent
  /\ work[f].at \notin {"todo", "done"} => work[f].content \in MayHold[f]
  /\ work[f].at = "hit" => IsHit(f)
  /\ work[f].at \in {"store", "match"} => Language(f) # Unknown
  /\ work[f].at = "store" \/ (work[f].at = "match" /\ ~cached) =>
       work[f].ir = Parsed(work[f].content, Language(f), config.meta)
  /\ work[f].at = "match" =>
       /\ \E m \in Metas : work[f].ir \in TreesOf(work[f].content, m)
       /\ "ir" \in strays \/ work[f].ir \in TreesOf(work[f].content, config.meta)
WorkIsSound == \A f \in Files : SoundAt(f)

CacheInv ==
  /\ \A f \in Files : source[f] \in MayHold[f]
  /\ phase = "idle" <=> config = NoScan
  /\ config # NoScan => config \in Configs
  /\ CacheMatchesMeta
  /\ OpenIsSound
  /\ ScanIsSound
  /\ DiskIsSound
  /\ WorkIsSound
  /\ OnlyFreshReports
==============================================================================
