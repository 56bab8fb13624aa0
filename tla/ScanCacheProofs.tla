--------------------------- MODULE ScanCacheProofs ---------------------------
(***************************************************************************)
(* What the runs of MCScanCache check for two files and three builds, for  *)
(* any number of files, contents, languages, engines, rule sets, schemas,  *)
(* layouts and graph flags, with no hypothesis on which of them change     *)
(* together.                                                               *)
(***************************************************************************)
EXTENDS ScanCache, TLAPS

Inv == TypeOK /\ CacheInv

(* Values *)

\* A file's own tree is one of the trees of its bytes.
LEMMA OwnTree ==
  ASSUME NEW f \in Files, NEW c \in MayHold[f], LangOf[f][c] # Unknown, NEW m
  PROVE  Parsed(c, LangOf[f][c], m) \in TreesOf(c, m)
BY DEF TreesOf, Cold!LanguagesOf

\* A tree parsed by a build that scans is a tree.
LEMMA TreesType ==
  ASSUME NEW c \in Contents, NEW m \in Metas, NEW t \in TreesOf(c, m)
  PROVE  t \in IRs
<1>1. PICK l \in Cold!LanguagesOf(c) : t = Parsed(c, l, m)
  BY DEF TreesOf
<1>2. l \in Languages
  BY CacheConstants DEF Cold!LanguagesOf
<1>3. QED BY <1>1, <1>2 DEF Parsed, IRs

\* Matching a tree yields findings or garbage.
LEMMA MatchedType ==
  ASSUME NEW ir \in IRs, NEW k \in Configs
  PROVE  Matched(ir, k) \in Outputs
BY DEF Matched, IRs, Configs, Outputs, Findings

\* Matching a tree of one's own build is what a cold run does.
LEMMA MatchedIsFresh ==
  ASSUME NEW c, NEW l, NEW k
  PROVE  Matched(Parsed(c, l, k.meta), k) = Cold!Fresh(c, l, k)
BY DEF Matched, Parsed, Cold!Fresh

\* Over a tree of these bytes that the build itself parsed, perhaps for another
\* file, matching finds what the build serves.
LEMMA MatchedOwn ==
  ASSUME NEW c, NEW k \in Configs, NEW t \in TreesOf(c, k.meta)
  PROVE  Matched(t, k) \in Cold!Served(c, {k.meta})
<1>1. PICK l \in Cold!LanguagesOf(c) : t = Parsed(c, l, k.meta)
  BY DEF TreesOf
<1>2. k \in [meta : {k.meta}, graphs : GraphModes]
  BY DEF Configs
<1>3. QED BY <1>1, <1>2, MatchedIsFresh DEF Cold!Served

\* Over anybody's tree it finds nothing that is about other bytes.
LEMMA MatchedAny ==
  ASSUME NEW c, NEW k \in Configs, NEW m \in Metas, NEW t \in TreesOf(c, m)
  PROVE  Matched(t, k) \in Cold!Served(c, Metas) \cup {Garbage}
<1>1. PICK l \in Cold!LanguagesOf(c) : t = Parsed(c, l, m)
  BY DEF TreesOf
<1>2. Matched(t, k) = Garbage \/ Matched(t, k) = Cold!Fresh(c, l, k)
  BY <1>1 DEF Matched, Parsed, Cold!Fresh
<1>3. QED BY <1>1, <1>2 DEF Cold!Served, Configs

\* What one build serves is served by some build.
LEMMA ServedBySome ==
  ASSUME NEW c, NEW m \in Metas
  PROVE  Cold!Served(c, {m}) \subseteq Cold!Served(c, Metas)
BY DEF Cold!Served

\* Findings are told apart by their engine and rules, not by schema and layout.
LEMMA SameServed ==
  ASSUME NEW c, NEW m, NEW n, m.engine = n.engine, m.rules = n.rules
  PROVE  Cold!Served(c, {m}) = Cold!Served(c, {n})
<1>1. ASSUME NEW a, NEW b, a.engine = b.engine, a.rules = b.rules,
             NEW x \in Cold!Served(c, {a})
      PROVE  x \in Cold!Served(c, {b})
  <2>1. PICK l \in Cold!LanguagesOf(c), k \in [meta : {a}, graphs : GraphModes] :
               x = Cold!Fresh(c, l, k)
    BY <1>1 DEF Cold!Served
  <2> DEFINE h == [meta |-> b, graphs |-> k.graphs]
  <2>2. h \in [meta : {b}, graphs : GraphModes] /\ k.meta = a
    BY <2>1
  <2>3. x = Cold!Fresh(c, l, h)
    BY <1>1, <2>1, <2>2 DEF Cold!Fresh
  <2>4. QED BY <2>2, <2>3 DEF Cold!Served
<1>2. /\ \A x \in Cold!Served(c, {m}) : x \in Cold!Served(c, {n})
      /\ \A x \in Cold!Served(c, {n}) : x \in Cold!Served(c, {m})
  BY <1>1
<1>3. /\ Cold!Served(c, {m}) \subseteq Cold!Served(c, {n})
      /\ Cold!Served(c, {n}) \subseteq Cold!Served(c, {m})
  BY <1>2
<1>4. QED BY <1>3

\* An output that was served is no marker: it is a finding of a build that scans.
LEMMA ServedType ==
  ASSUME NEW c \in Contents, NEW x \in Cold!Served(c, Metas)
  PROVE  x \in Findings
<1>1. PICK l \in Cold!LanguagesOf(c), k \in [meta : Metas, graphs : GraphModes] :
             x = Cold!Fresh(c, l, k)
  BY DEF Cold!Served
<1>2. l \in Languages
  BY CacheConstants DEF Cold!LanguagesOf
<1>3. QED BY <1>1, <1>2 DEF Cold!Fresh, Findings

\* Open only ever removes meta.json, findings/ and ir/.
LEMMA TargetsAreTargets ==
  ASSUME NEW prev, NEW m PROVE Targets(prev, m) \in SUBSET {"meta", "findings", "ir"}
BY DEF Targets

\* Open's table removes enough, but for the trees behind a rule edit: whatever
\* else it leaves of the old meta's belongs to the new one.
LEMMA TargetsSuffice ==
  ASSUME NEW prev \in Metas, NEW m \in Metas
  PROVE  /\ "findings" \notin Targets(prev, m) /\ RecordsOf(prev) => RecordsOf(m)
         /\ "ir" \notin Targets(prev, m) /\ IRsOf(prev) =>
              \/ IRsOf(m)
              \/ /\ prev.format = m.format /\ prev.engine = m.engine
                 /\ prev.rules # m.rules /\ prev.schema # m.schema
         /\ "meta" \in Targets(prev, m) => Buckets \subseteq Targets(prev, m)
         /\ "ir" \in Targets(prev, m) =>
              "meta" \in Targets(prev, m) \/ ReadsTreesDifferently(prev, m)
<1>1. ASSUME "findings" \notin Targets(prev, m), RecordsOf(prev) PROVE RecordsOf(m)
  <2>1. prev.format = m.format /\ prev.engine = m.engine /\ prev.rules = m.rules
    BY <1>1, CacheConstants DEF Targets
  <2>2. QED BY <1>1, <2>1, SameServed DEF RecordsOf, RecordOf
<1>2. ASSUME "ir" \notin Targets(prev, m), IRsOf(prev)
      PROVE  \/ IRsOf(m)
             \/ /\ prev.format = m.format /\ prev.engine = m.engine
                /\ prev.rules # m.rules /\ prev.schema # m.schema
  <2>1. prev.format = m.format /\ prev.engine = m.engine
    BY <1>2, CacheConstants DEF Targets
  <2>2. prev.schema = m.schema \/ prev.rules # m.rules
    BY <1>2, <2>1, CacheConstants DEF Targets
  <2>3. QED BY <1>2, <2>1, <2>2 DEF IRsOf, TreesOf, Parsed
<1>3. "meta" \in Targets(prev, m) => Buckets \subseteq Targets(prev, m)
  BY DEF Targets, Buckets
<1>4. "ir" \in Targets(prev, m) => ReadsTreesDifferently(prev, m)
  BY CacheConstants DEF Targets, ReadsTreesDifferently
<1>5. QED BY <1>1, <1>2, <1>3, <1>4

(* Type correctness and the inductive invariant, one action at a time *)

\* The parts that speak of the disk, of what meta.json says of it and of Open.
DiskInv == CacheMatchesMeta /\ OpenIsSound /\ ScanIsSound /\ DiskIsSound

LEMMA InitInv == Init => Inv
<1> SUFFICES ASSUME Init PROVE Inv OBVIOUS
<1>1. TypeOK
  BY CacheConstants DEF Init, TypeOK, Waiting, WorkItems, Outputs
<1>2. CacheInv
  BY CacheConstants DEF Init, CacheInv, CacheMatchesMeta, OpenIsSound, ScanIsSound,
     DiskIsSound, WorkIsSound, SoundAt, OnlyFreshReports, FreshAt, Reported, Waiting
<1>3. QED BY <1>1, <1>2 DEF Inv

\* A step that touches neither the disk nor the scan's idea of it.
LEMMA SameDisk ==
  ASSUME Inv, UNCHANGED <<meta, recs, irs, config, phase, wiping, cached, strays>>
  PROVE  DiskInv'
BY DEF Inv, CacheInv, DiskInv, CacheMatchesMeta, OpenIsSound, ScanIsSound, DiskIsSound,
   RecordsOf, RecordOf, IRsOf, Unvouched

\* A step that touches no worker, nor what the workers go by.
LEMMA SameWork ==
  ASSUME Inv, UNCHANGED <<recs, config, phase, cached, work, strays>>
  PROVE  WorkIsSound' /\ OnlyFreshReports'
BY DEF Inv, CacheInv, WorkIsSound, SoundAt, OnlyFreshReports, FreshAt, Reported, IsHit,
   Language, Cold!Outcomes, Memory

\* While the cache is being opened no worker has begun, and whatever happens to
\* the disk and to the phase, none is disturbed.
LEMMA NobodyWorks ==
  ASSUME Inv, phase # "scan", UNCHANGED work
  PROVE  WorkIsSound' /\ OnlyFreshReports'
BY DEF Inv, CacheInv, WorkIsSound, SoundAt, OnlyFreshReports, FreshAt, Reported

LEMMA OpenCacheInv ==
  ASSUME Inv, NEW k \in Configs, OpenCache(k)
  PROVE  Inv'
<1>1. PICK prev \in PriorMetas : wiping' = Targets(prev, k.meta)
  BY DEF OpenCache
<1>2. /\ k.meta \in Metas /\ phase = "idle" /\ phase' = "open" /\ config' = k /\ ~cached
      /\ UNCHANGED <<source, meta, recs, irs, cached, work, strays>>
  BY DEF OpenCache, Configs, Inv, CacheInv, ScanIsSound, TypeOK, disk
<1>3. TypeOK'
  BY <1>1, <1>2, TargetsAreTargets DEF Inv, TypeOK
<1>4. OpenIsSound'
  <2>1. CASE prev = Corrupt
    BY <1>1, <1>2, <2>1, CacheConstants DEF OpenIsSound, Targets, Buckets
  <2>2. CASE prev = NoMeta /\ meta = NoMeta
    BY <1>1, <1>2, <2>2, CacheConstants DEF OpenIsSound, Targets, Buckets, Unvouched
  <2>3. CASE prev \in Metas /\ meta = prev
    <3>1. \/ "findings" \in strays \/ RecordsOf(prev)
      BY <2>3 DEF Inv, CacheInv, CacheMatchesMeta
    <3>2. \/ "ir" \in strays \/ IRsOf(prev)
      BY <2>3 DEF Inv, CacheInv, CacheMatchesMeta
    <3>3. "findings" \in wiping' \cup strays' \/ RecordsOf(k.meta)
      BY <1>1, <1>2, <2>3, <3>1, TargetsSuffice
    <3>4. "ir" \in wiping' \cup strays' \cup Unvouched' \/ IRsOf(k.meta)
      BY <1>1, <1>2, <2>3, <3>2, TargetsSuffice, CacheConstants DEF Unvouched
    <3>5. /\ RecordsOf(k.meta) => RecordsOf(config.meta)'
          /\ IRsOf(k.meta) => IRsOf(config.meta)'
      BY <1>2 DEF RecordsOf, RecordOf, IRsOf
    <3>6. /\ "meta" \in wiping' => Buckets \subseteq wiping'
          /\ "ir" \in wiping' => "meta" \in wiping' \/ ReadsTreesDifferently(prev, k.meta)
      BY <1>1, <1>2, <2>3, TargetsSuffice
    <3>7. QED
      BY <1>2, <2>3, <3>3, <3>4, <3>5, <3>6 DEF OpenIsSound
  <2>4. QED BY <1>1, <2>1, <2>2, <2>3 DEF PriorMetas, Inv, TypeOK
<1>5. CacheMatchesMeta' /\ ScanIsSound' /\ DiskIsSound'
  BY <1>2 DEF Inv, CacheInv, CacheMatchesMeta, ScanIsSound, DiskIsSound, RecordsOf, RecordOf, IRsOf
<1>6. WorkIsSound' /\ OnlyFreshReports'
  BY <1>2, NobodyWorks
<1>7. QED
  BY <1>2, <1>3, <1>4, <1>5, <1>6, CacheConstants DEF Inv, CacheInv

LEMMA SkipCacheInv ==
  ASSUME Inv, NEW k \in Configs, SkipCache(k)
  PROVE  Inv'
<1>1. /\ phase = "idle" /\ phase' = "scan" /\ config' = k /\ ~cached
      /\ UNCHANGED <<source, meta, recs, irs, wiping, cached, work, strays>>
  BY DEF SkipCache, disk, Inv, CacheInv, ScanIsSound
<1>2. TypeOK'
  BY <1>1 DEF Inv, TypeOK
<1>3. DiskInv'
  BY <1>1 DEF Inv, CacheInv, DiskInv, CacheMatchesMeta, OpenIsSound, ScanIsSound, DiskIsSound,
     RecordsOf, RecordOf, IRsOf
<1>4. WorkIsSound' /\ OnlyFreshReports'
  BY <1>1, NobodyWorks
<1>5. QED BY <1>1, <1>2, <1>3, <1>4, CacheConstants DEF Inv, CacheInv, DiskInv

LEMMA RemoveMetaInv ==
  ASSUME Inv, RemoveMeta
  PROVE  Inv'
<1>1. /\ phase = "open" /\ "meta" \in wiping /\ meta' = NoMeta /\ ~cached
      /\ UNCHANGED <<source, recs, irs, config, phase, wiping, cached, work, strays>>
  BY DEF RemoveMeta, Inv, CacheInv, ScanIsSound
<1>2. TypeOK'
  BY <1>1 DEF Inv, TypeOK
<1>3. Buckets \subseteq wiping
  BY <1>1 DEF Inv, CacheInv, OpenIsSound
<1>4. DiskInv'
  BY <1>1, <1>3, CacheConstants DEF Inv, CacheInv, DiskInv, CacheMatchesMeta, OpenIsSound,
     ScanIsSound, DiskIsSound, Buckets
<1>5. WorkIsSound' /\ OnlyFreshReports'
  BY <1>1, NobodyWorks
<1>6. QED BY <1>1, <1>2, <1>4, <1>5 DEF Inv, CacheInv, DiskInv

LEMMA RemoveRecordInv ==
  ASSUME Inv, NEW f \in Files, RemoveRecord(f)
  PROVE  Inv'
<1>1. /\ phase = "open" /\ "findings" \in wiping /\ ~cached
      /\ recs' = [recs EXCEPT ![f] = NoRecord]
      /\ UNCHANGED <<source, meta, irs, config, phase, wiping, cached, work, strays>>
  BY DEF RemoveRecord, Inv, CacheInv, ScanIsSound
<1>2. TypeOK'
  BY <1>1 DEF Inv, TypeOK
<1>3. \A g \in Files : recs'[g] # NoRecord => recs'[g] = recs[g]
  BY <1>1 DEF Inv, TypeOK
<1>4. \A m : /\ RecordsOf(m) => RecordsOf(m)'
             /\ IRsOf(m) => IRsOf(m)'
  BY <1>1, <1>3 DEF RecordsOf, RecordOf, IRsOf
<1>5. CacheMatchesMeta' /\ OpenIsSound' /\ ScanIsSound'
  BY <1>1, <1>4 DEF Inv, CacheInv, CacheMatchesMeta, OpenIsSound, ScanIsSound, Unvouched
<1>6. DiskIsSound'
  BY <1>1, <1>3 DEF Inv, CacheInv, DiskIsSound
<1>7. WorkIsSound' /\ OnlyFreshReports'
  BY <1>1, NobodyWorks
<1>8. QED BY <1>1, <1>2, <1>5, <1>6, <1>7 DEF Inv, CacheInv

LEMMA RemoveIRInv ==
  ASSUME Inv, NEW c \in Contents, RemoveIR(c)
  PROVE  Inv'
<1>1. /\ phase = "open" /\ "ir" \in wiping /\ ~cached
      /\ irs' = [irs EXCEPT ![c] = NoIR]
      /\ UNCHANGED <<source, meta, recs, config, phase, wiping, cached, work, strays>>
  BY DEF RemoveIR, Inv, CacheInv, ScanIsSound
<1>2. TypeOK'
  BY <1>1 DEF Inv, TypeOK
<1>3. \A d \in Contents : irs'[d] # NoIR => irs'[d] = irs[d]
  BY <1>1 DEF Inv, TypeOK
<1>4. \A m : /\ RecordsOf(m) => RecordsOf(m)'
             /\ IRsOf(m) => IRsOf(m)'
  BY <1>1, <1>3 DEF IRsOf, RecordsOf, RecordOf
<1>5. CacheMatchesMeta' /\ OpenIsSound' /\ ScanIsSound'
  BY <1>1, <1>4 DEF Inv, CacheInv, CacheMatchesMeta, OpenIsSound, ScanIsSound, Unvouched
<1>6. DiskIsSound'
  BY <1>1, <1>3 DEF Inv, CacheInv, DiskIsSound
<1>7. WorkIsSound' /\ OnlyFreshReports'
  BY <1>1, NobodyWorks
<1>8. QED BY <1>1, <1>2, <1>5, <1>6, <1>7 DEF Inv, CacheInv

\* Everything Open was going to remove is gone, and the rest was already the
\* new meta's, or is now noted as a stray.
LEMMA WriteMetaInv ==
  ASSUME Inv, WriteMeta
  PROVE  Inv'
<1>1. /\ phase = "open" /\ phase' = "scan" /\ Wiped /\ meta' = config.meta
      /\ cached' \in BOOLEAN /\ wiping' = {} /\ config # NoScan /\ config \in Configs
      /\ strays' = Adopted
      /\ UNCHANGED <<source, recs, irs, config, work>>
  BY DEF WriteMeta, Inv, CacheInv
<1>2. strays' \in SUBSET Buckets /\ ("ir" \in strays' => "findings" \in strays')
  BY <1>1 DEF Adopted, Held, Buckets
<1>3. TypeOK' /\ config.meta \in Metas
  BY <1>1, <1>2 DEF Inv, TypeOK, Configs
<1>4. "findings" \in strays' \/ RecordsOf(config.meta)
  <2>1. CASE "findings" \in Held
    <3>1. "findings" \notin wiping
      BY <1>1, <2>1 DEF Wiped, Held
    <3>2. "findings" \in strays \cup Unvouched \/ RecordsOf(config.meta)
      BY <1>1, <3>1 DEF Inv, CacheInv, OpenIsSound
    <3>3. QED BY <1>1, <2>1, <3>2 DEF Adopted, Buckets
  <2>2. CASE "findings" \notin Held
    BY <2>2 DEF Held, Buckets, RecordsOf
  <2>3. QED BY <2>1, <2>2
<1>5. "ir" \in strays' \/ IRsOf(config.meta)
  <2>1. CASE "ir" \in Held
    <3>1. "ir" \notin wiping
      BY <1>1, <2>1 DEF Wiped, Held
    <3>2. "ir" \in strays \cup Unvouched \/ IRsOf(config.meta)
      BY <1>1, <3>1 DEF Inv, CacheInv, OpenIsSound
    <3>3. QED BY <1>1, <2>1, <3>2 DEF Adopted, Buckets
  <2>2. CASE "ir" \notin Held
    BY <2>2 DEF Held, Buckets, IRsOf
  <2>3. QED BY <2>1, <2>2
<1>6. CacheMatchesMeta' /\ OpenIsSound' /\ ScanIsSound'
  BY <1>1, <1>3, <1>4, <1>5, CacheConstants DEF CacheMatchesMeta, OpenIsSound, ScanIsSound,
     RecordsOf, RecordOf, IRsOf
<1>7. DiskIsSound'
  BY <1>1, <1>2 DEF Inv, CacheInv, DiskIsSound
<1>8. WorkIsSound' /\ OnlyFreshReports'
  BY <1>1, NobodyWorks
<1>9. QED BY <1>1, <1>3, <1>6, <1>7, <1>8, CacheConstants DEF Inv, CacheInv

\* Wherever Open gives up, what meta.json says of the cache is still so: it
\* has not been written yet.
LEMMA OpenFailsInv ==
  ASSUME Inv, OpenFails
  PROVE  Inv'
<1>1. /\ phase = "open" /\ phase' = "scan" /\ wiping' = {} /\ ~cached
      /\ UNCHANGED <<source, meta, recs, irs, config, cached, work, strays>>
  BY DEF OpenFails, disk, Inv, CacheInv, ScanIsSound
<1>2. TypeOK'
  BY <1>1 DEF Inv, TypeOK
<1>3. DiskInv'
  BY <1>1 DEF Inv, CacheInv, DiskInv, CacheMatchesMeta, OpenIsSound, ScanIsSound, DiskIsSound,
     RecordsOf, RecordOf, IRsOf
<1>4. WorkIsSound' /\ OnlyFreshReports'
  BY <1>1, NobodyWorks
<1>5. QED BY <1>1, <1>2, <1>3, <1>4 DEF Inv, CacheInv, DiskInv

\* A step of one worker that leaves the disk alone need only look after its
\* own file.
LEMMA OneWorker ==
  ASSUME Inv, NEW f \in Files,
         UNCHANGED <<source, disk, config, phase, wiping, cached, strays>>,
         NEW w \in WorkItems, work' = [work EXCEPT ![f] = w],
         SoundAt(f)', FreshAt(f)'
  PROVE  Inv'
<1>1. TypeOK'
  BY DEF Inv, TypeOK, disk
<1>2. DiskInv'
  BY SameDisk DEF disk
<1>3. ASSUME NEW g \in Files PROVE SoundAt(g)' /\ FreshAt(g)'
  <2>1. CASE g = f BY <2>1
  <2>2. CASE g # f
    <3>1. work'[g] = work[g] BY <2>2 DEF Inv, TypeOK
    <3>2. SoundAt(g) /\ FreshAt(g)
      BY DEF Inv, CacheInv, WorkIsSound, OnlyFreshReports
    <3>3. SoundAt(g)'
      BY <3>1, <3>2 DEF SoundAt, IsHit, Language, disk
    <3>4. FreshAt(g)'
      BY <3>1, <3>2 DEF FreshAt, Reported, Cold!Outcomes, Memory, disk
    <3>5. QED BY <3>3, <3>4
  <2>3. QED BY <2>1, <2>2
<1>4. QED BY <1>1, <1>2, <1>3 DEF Inv, CacheInv, DiskInv, WorkIsSound, OnlyFreshReports, disk

\* What a worker in the middle of a file knows.
LEMMA AtWork ==
  ASSUME Inv, NEW f \in Files
  PROVE  /\ work[f] \in WorkItems
         /\ work[f].at \notin {"todo", "done"} =>
              /\ phase = "scan" /\ config \in Configs /\ config.meta \in Metas
              /\ work[f].content \in MayHold[f]
              /\ work[f].content \in Contents
              /\ Language(f) \in Languages
         /\ SoundAt(f)
BY CacheConstants DEF Inv, TypeOK, CacheInv, WorkIsSound, SoundAt, Configs, Language

LEMMA ReadFileInv ==
  ASSUME Inv, NEW f \in Files, ReadFile(f)
  PROVE  Inv'
<1> DEFINE w == [work[f] EXCEPT !.at = "lookup", !.content = source[f]]
<1>0. source[f] \in Contents /\ work \in [Files -> WorkItems]
  BY DEF Inv, TypeOK
<1>1. w \in WorkItems /\ work' = [work EXCEPT ![f] = w] /\ work'[f] = w
  <2>1. w \in WorkItems BY <1>0 DEF WorkItems
  <2>2. work' = [work EXCEPT ![f] = w] BY <1>0 DEF ReadFile
  <2>3. QED BY <1>0, <2>1, <2>2
<1>2. w.at = "lookup" /\ w.content \in MayHold[f] /\ phase = "scan"
  BY AtWork DEF ReadFile, Inv, CacheInv, WorkItems
<1> HIDE DEF w
<1>3. SoundAt(f)' /\ FreshAt(f)'
  BY <1>1, <1>2 DEF ReadFile, SoundAt, FreshAt, Reported
<1>4. QED BY <1>1, <1>3, OneWorker DEF ReadFile

\* A worker that is done with its file without findings, or with findings that
\* FreshScan allows.
LEMMA YieldInv ==
  ASSUME Inv, NEW f \in Files, NEW o \in Outputs, Yield(f, o), phase = "scan",
         \/ o \in {Nothing, Failed}
         \/ o \in Cold!Outcomes(f, work[f].content),
         UNCHANGED <<source, disk, config, phase, wiping, cached, strays>>
  PROVE  Inv'
<1> DEFINE w == [work[f] EXCEPT !.at = "done", !.ir = NoIR, !.out = o]
<1>1. w \in WorkItems /\ work' = [work EXCEPT ![f] = w] /\ work'[f] = w
  BY AtWork DEF Yield, Inv, TypeOK, WorkItems
<1>2. w.at = "done" /\ w.out = o /\ w.content = work[f].content
  BY AtWork DEF WorkItems
<1> HIDE DEF w
<1>3. SoundAt(f)' /\ FreshAt(f)'
  BY <1>1, <1>2 DEF SoundAt, FreshAt, Reported, Language, Cold!Outcomes, Memory
<1>4. QED BY <1>1, <1>3, OneWorker

LEMMA ReadFileFailsInv ==
  ASSUME Inv, NEW f \in Files, ReadFileFails(f)
  PROVE  Inv'
BY YieldInv DEF ReadFileFails, Outputs

LEMMA GetInv ==
  ASSUME Inv, NEW f \in Files, Get(f)
  PROVE  Inv'
<1>1. PICK s \in {"hit", "miss"} : Goto(f, s) /\ (s = "hit" => IsHit(f))
  BY DEF Get
<1> DEFINE w == [work[f] EXCEPT !.at = s]
<1>2. w \in WorkItems /\ work' = [work EXCEPT ![f] = w] /\ work'[f] = w
  BY <1>1, AtWork DEF Goto, Inv, TypeOK, WorkItems
<1>3. w.at = s /\ w.content = work[f].content
  BY AtWork DEF WorkItems
<1>4. w.content \in MayHold[f] /\ phase = "scan"
  BY <1>3, AtWork DEF Get
<1> HIDE DEF w
<1>5. SoundAt(f)' /\ FreshAt(f)'
  BY <1>1, <1>2, <1>3, <1>4 DEF Get, SoundAt, FreshAt, Reported, IsHit, disk
<1>6. QED BY <1>2, <1>5, OneWorker DEF Get

\* What the record of these bytes gives is an outcome FreshScan allows: of this
\* build if nothing strayed, of some build or garbage otherwise.
LEMMA HitIsAllowed ==
  ASSUME Inv, NEW f \in Files, IsHit(f), phase = "scan", config \in Configs
  PROVE  /\ Decoded(recs[f], config.meta.format) \in Outputs
         /\ Decoded(recs[f], config.meta.format) \in Cold!Outcomes(f, work[f].content)
         /\ Nothing \in Cold!Outcomes(f, work[f].content)
<1> DEFINE c == work[f].content
           o == Decoded(recs[f], config.meta.format)
<1>1. /\ cached /\ recs[f] # NoRecord /\ recs[f] \in Records /\ recs[f].sha = c
      /\ config.meta \in Metas
  BY DEF IsHit, Inv, TypeOK, Configs
<1>2. /\ LangOf[f][c] # Unknown
      /\ recs[f].findings \in Cold!Served(c, Metas) \cup {Garbage}
  BY <1>1 DEF Inv, CacheInv, DiskIsSound
<1>3. recs[f].findings \in Outputs /\ o \in {recs[f].findings, Garbage} /\ o \in Outputs
  BY <1>1 DEF Records, Decoded, Outputs
<1>4. CASE strays = {}
  <2>1. RecordOf(f, config.meta)
    BY <1>1, <1>4 DEF Inv, CacheInv, ScanIsSound, RecordsOf
  <2>2. o \in Cold!Served(c, {config.meta})
    BY <1>1, <2>1 DEF RecordOf, Decoded
  <2>3. QED BY <1>1, <1>2, <1>3, <1>4, <2>2 DEF Cold!Outcomes, Memory
<1>5. CASE strays # {}
  BY <1>1, <1>2, <1>3, <1>5 DEF Cold!Outcomes, Memory
<1>6. QED BY <1>4, <1>5

LEMMA GetFindingsInv ==
  ASSUME Inv, NEW f \in Files, GetFindings(f)
  PROVE  Inv'
<1>1. /\ phase = "scan" /\ config \in Configs /\ IsHit(f)
      /\ UNCHANGED <<source, disk, config, phase, wiping, cached, strays>>
  BY AtWork DEF GetFindings, SoundAt
<1>2. CASE Yield(f, Nothing)
  BY <1>1, <1>2, YieldInv DEF Outputs
<1>3. CASE Yield(f, Decoded(recs[f], config.meta.format))
  BY <1>1, <1>3, HitIsAllowed, YieldInv
<1>4. QED BY <1>2, <1>3 DEF GetFindings

LEMMA DetectUnknownInv ==
  ASSUME Inv, NEW f \in Files, DetectUnknown(f)
  PROVE  Inv'
BY YieldInv DEF DetectUnknown, Outputs

LEMMA FailsInv ==
  ASSUME Inv, NEW f \in Files, Fails(f)
  PROVE  Inv'
BY YieldInv DEF Fails, Outputs

\* A tree from the cache was made of the same bytes, and by this build unless
\* a tree strayed.
LEMMA GetIRInv ==
  ASSUME Inv, NEW f \in Files, GetIR(f)
  PROVE  Inv'
<1> DEFINE c == work[f].content
           w == [work[f] EXCEPT !.at = "match", !.ir = irs[c]]
<1>1. /\ phase = "scan" /\ Language(f) # Unknown /\ cached /\ irs[c] # NoIR
      /\ c \in MayHold[f] /\ c \in Contents /\ config.meta \in Metas
  BY AtWork DEF GetIR, HasIR
<1>2. irs[c] \in IRs
  BY <1>1 DEF Inv, TypeOK
<1>3. /\ \E m \in Metas : irs[c] \in TreesOf(c, m)
      /\ "ir" \in strays \/ irs[c] \in TreesOf(c, config.meta)
  BY <1>1 DEF Inv, CacheInv, DiskIsSound, ScanIsSound, IRsOf
<1>4. w \in WorkItems /\ work' = [work EXCEPT ![f] = w] /\ work'[f] = w
  <2>1. w \in WorkItems BY <1>2, AtWork DEF WorkItems
  <2>2. work' = [work EXCEPT ![f] = w] BY DEF GetIR, Inv, TypeOK
  <2>3. QED BY <2>1, <2>2 DEF Inv, TypeOK
<1>5. w.at = "match" /\ w.content = c /\ w.ir = irs[c]
  BY AtWork DEF WorkItems
<1> HIDE DEF w
<1>6. SoundAt(f)' /\ FreshAt(f)'
  BY <1>1, <1>3, <1>4, <1>5 DEF GetIR, SoundAt, FreshAt, Reported, Language
<1>7. QED BY <1>4, <1>6, OneWorker DEF GetIR

LEMMA BuildIRInv ==
  ASSUME Inv, NEW f \in Files, BuildIR(f)
  PROVE  Inv'
<1> DEFINE c == work[f].content
           t == Parsed(c, Language(f), config.meta)
           w == [work[f] EXCEPT !.at = "store", !.ir = t]
<1>1. /\ phase = "scan" /\ Language(f) # Unknown /\ Language(f) \in Languages
      /\ c \in MayHold[f] /\ c \in Contents /\ config.meta \in Metas
  BY AtWork DEF BuildIR
<1>2. t \in IRs
  BY <1>1, OwnTree, TreesType DEF Language
<1> HIDE DEF t
<1>3. w \in WorkItems /\ work' = [work EXCEPT ![f] = w] /\ work'[f] = w
  <2>1. w \in WorkItems BY <1>2, AtWork DEF WorkItems
  <2>2. work' = [work EXCEPT ![f] = w] BY DEF BuildIR, Inv, TypeOK, t
  <2>3. QED BY <2>1, <2>2 DEF Inv, TypeOK
<1>4. w.at = "store" /\ w.content = c /\ w.ir = t
  BY AtWork DEF WorkItems
<1> HIDE DEF w
<1>5. SoundAt(f)' /\ FreshAt(f)'
  BY <1>1, <1>3, <1>4 DEF BuildIR, SoundAt, FreshAt, Reported, Language, t
<1>6. QED BY <1>3, <1>5, OneWorker DEF BuildIR

\* Both stores change the disk and one worker at once.
LEMMA SetIRInv ==
  ASSUME Inv, NEW f \in Files, SetIR(f)
  PROVE  Inv'
<1> DEFINE c == work[f].content
           t == work[f].ir
           w == [work[f] EXCEPT !.at = "match"]
<1>1. /\ phase = "scan" /\ Language(f) # Unknown /\ Language(f) \in Languages
      /\ c \in MayHold[f] /\ c \in Contents /\ config.meta \in Metas /\ work[f].at = "store"
      /\ t = Parsed(c, Language(f), config.meta)
      /\ UNCHANGED <<source, meta, recs, config, phase, wiping, cached, strays>>
  BY AtWork DEF SetIR, SoundAt
<1>2. t \in IRs /\ t \in TreesOf(c, config.meta)
  BY <1>1, OwnTree, TreesType DEF Language
<1>3. w \in WorkItems /\ work' = [work EXCEPT ![f] = w]
  BY AtWork DEF SetIR, Goto, Inv, TypeOK, WorkItems
<1>4. w.at = "match" /\ w.content = c /\ w.ir = t /\ work'[f] = w
  BY <1>3, AtWork DEF WorkItems, Inv, TypeOK
<1> HIDE DEF w
<1>5. \/ irs' = irs
      \/ cached /\ irs' = [irs EXCEPT ![c] = t]
  BY DEF SetIR
<1>6. TypeOK'
  BY <1>1, <1>2, <1>3, <1>5 DEF Inv, TypeOK
<1>7. ASSUME irs' = irs PROVE DiskInv'
  BY <1>1, <1>7, SameDisk
<1>8. ASSUME cached, irs' = [irs EXCEPT ![c] = t] PROVE DiskInv'
  <2>1. \A d \in Contents : irs'[d] = irs[d] \/ (d = c /\ irs'[d] = t)
    BY <1>8 DEF Inv, TypeOK
  <2>2. /\ IRsOf(config.meta) => IRsOf(config.meta)'
        /\ RecordsOf(config.meta) => RecordsOf(config.meta)'
    BY <1>1, <1>2, <2>1 DEF IRsOf, RecordsOf, RecordOf
  <2>3. DiskIsSound'
    BY <1>1, <1>2, <2>1 DEF Inv, CacheInv, DiskIsSound
  <2>4. /\ meta \in {config.meta, Corrupt} /\ wiping = {}
        /\ "findings" \in strays \/ RecordsOf(config.meta)
        /\ "ir" \in strays \/ IRsOf(config.meta)
    BY <1>1, <1>8 DEF Inv, CacheInv, ScanIsSound, OpenIsSound
  <2>5. CacheMatchesMeta'
    <3>1. CASE meta = Corrupt BY <1>1, <3>1, CacheConstants DEF CacheMatchesMeta
    <3>2. CASE meta = config.meta
      <4>1. /\ RecordsOf(config.meta)' => RecordsOf(meta)'
            /\ IRsOf(config.meta)' => IRsOf(meta)'
        BY <1>1, <3>2 DEF IRsOf, RecordsOf, RecordOf
      <4>2. QED BY <1>1, <2>2, <2>4, <4>1 DEF CacheMatchesMeta
    <3>3. QED BY <2>4, <3>1, <3>2
  <2>6. OpenIsSound' /\ ScanIsSound'
    BY <1>1, <2>2, <2>4 DEF OpenIsSound, ScanIsSound
  <2>7. QED BY <2>3, <2>5, <2>6 DEF DiskInv
<1>9. ASSUME NEW g \in Files PROVE SoundAt(g)' /\ FreshAt(g)'
  <2>1. CASE g = f
    BY <1>1, <1>2, <1>4, <2>1 DEF SoundAt, FreshAt, Reported, Language
  <2>2. CASE g # f
    <3>1. work'[g] = work[g] BY <1>3, <2>2 DEF Inv, TypeOK
    <3>2. SoundAt(g) /\ FreshAt(g) BY DEF Inv, CacheInv, WorkIsSound, OnlyFreshReports
    <3>3. SoundAt(g)' BY <1>1, <3>1, <3>2 DEF SoundAt, IsHit, Language
    <3>4. FreshAt(g)' BY <1>1, <3>1, <3>2 DEF FreshAt, Reported, Cold!Outcomes, Memory
    <3>5. QED BY <3>3, <3>4
  <2>3. QED BY <2>1, <2>2
<1>10. QED
  BY <1>1, <1>5, <1>6, <1>7, <1>8, <1>9 DEF Inv, CacheInv, WorkIsSound, OnlyFreshReports, DiskInv

\* What matching finds, over the worker's own tree or one from the cache, is an
\* outcome FreshScan allows.
LEMMA MatchIsAllowed ==
  ASSUME Inv, NEW f \in Files, work[f].at = "match"
  PROVE  LET o == Matched(work[f].ir, config) IN
           /\ o \in Outputs
           /\ o \in Cold!Outcomes(f, work[f].content)
           /\ o \in Cold!Served(work[f].content, Metas) \cup {Garbage}
           /\ "ir" \in strays \/ o \in Cold!Served(work[f].content, {config.meta})
<1> DEFINE c == work[f].content
           o == Matched(work[f].ir, config)
<1>1. /\ Language(f) # Unknown /\ LangOf[f][c] # Unknown
      /\ c \in MayHold[f] /\ c \in Contents /\ config \in Configs /\ config.meta \in Metas
      /\ ~cached => work[f].ir = Parsed(c, Language(f), config.meta)
      /\ \E m \in Metas : work[f].ir \in TreesOf(c, m)
      /\ "ir" \in strays \/ work[f].ir \in TreesOf(c, config.meta)
  BY AtWork DEF SoundAt, Language
<1>2. o \in Outputs
  BY <1>1, TreesType, MatchedType
<1>3. o \in Cold!Served(c, Metas) \cup {Garbage}
  BY <1>1, MatchedAny
<1>4. "ir" \in strays \/ o \in Cold!Served(c, {config.meta})
  BY <1>1, MatchedOwn
<1>5. ~cached => o = Cold!Fresh(c, Language(f), config)
  BY <1>1, MatchedIsFresh
<1> HIDE DEF o
<1>6. o \in Cold!Outcomes(f, c)
  BY <1>1, <1>3, <1>4, <1>5 DEF Cold!Outcomes, Memory, Language
<1>7. QED BY <1>2, <1>3, <1>4, <1>6 DEF o

\* A worker hits on its own path's record alone, and it is no longer there
\* when it writes it.
LEMMA MatchAndPutInv ==
  ASSUME Inv, NEW f \in Files, MatchAndPut(f)
  PROVE  Inv'
<1> DEFINE c == work[f].content
           o == Matched(work[f].ir, config)
           r == RecordFor(f, o)
           w == [work[f] EXCEPT !.at = "done", !.ir = NoIR, !.out = o]
<1>1. /\ phase = "scan" /\ Language(f) # Unknown /\ LangOf[f][c] # Unknown
      /\ c \in Contents /\ c \in MayHold[f] /\ config \in Configs /\ config.meta \in Metas
      /\ work[f].at = "match"
      /\ UNCHANGED <<source, meta, irs, config, phase, wiping, cached, strays>>
  BY AtWork DEF MatchAndPut, SoundAt, Language
<1>2. /\ o \in Outputs
      /\ o \in Cold!Outcomes(f, c)
      /\ o \in Cold!Served(c, Metas) \cup {Garbage}
      /\ "ir" \in strays \/ o \in Cold!Served(c, {config.meta})
  BY <1>1, MatchIsAllowed
<1> HIDE DEF o
<1>3. r \in Records /\ r.sha = c /\ r.findings = o /\ r.format = config.meta.format
  BY <1>1, <1>2 DEF RecordFor, Records
<1> HIDE DEF r
<1>4. w \in WorkItems /\ work' = [work EXCEPT ![f] = w]
  BY <1>2, AtWork DEF MatchAndPut, Yield, Inv, TypeOK, WorkItems, o
<1>5. w.at = "done" /\ w.content = c /\ w.out = o /\ work'[f] = w
  BY <1>4, AtWork DEF WorkItems, Inv, TypeOK
<1> HIDE DEF w
<1>6. \/ recs' = recs
      \/ cached /\ recs' = [recs EXCEPT ![f] = r]
  BY DEF MatchAndPut, o, r
<1>7. TypeOK'
  BY <1>1, <1>3, <1>4, <1>6 DEF Inv, TypeOK
<1>8. ASSUME recs' = recs PROVE DiskInv'
  BY <1>1, <1>8, SameDisk
<1>9. ASSUME cached, recs' = [recs EXCEPT ![f] = r] PROVE DiskInv'
  <2>1. \A g \in Files : recs'[g] = recs[g] \/ (g = f /\ recs'[g] = r)
    BY <1>9 DEF Inv, TypeOK
  <2>2. /\ meta \in {config.meta, Corrupt} /\ wiping = {}
        /\ "findings" \in strays \/ RecordsOf(config.meta)
        /\ "ir" \in strays \/ IRsOf(config.meta)
        /\ "ir" \in strays => "findings" \in strays
    BY <1>1, <1>9 DEF Inv, CacheInv, ScanIsSound, OpenIsSound, DiskIsSound
  <2>3. "findings" \in strays \/ RecordsOf(config.meta)'
    BY <1>1, <1>2, <1>3, <2>1, <2>2 DEF RecordsOf, RecordOf
  <2>4. "ir" \in strays \/ IRsOf(config.meta)'
    BY <1>1, <2>2 DEF IRsOf
  <2>5. DiskIsSound'
    BY <1>1, <1>2, <1>3, <2>1 DEF Inv, CacheInv, DiskIsSound
  <2>6. CacheMatchesMeta'
    <3>1. CASE meta = Corrupt BY <1>1, <3>1, CacheConstants DEF CacheMatchesMeta
    <3>2. CASE meta = config.meta
      <4>1. /\ RecordsOf(config.meta)' => RecordsOf(meta)'
            /\ IRsOf(config.meta)' => IRsOf(meta)'
        BY <1>1, <3>2 DEF IRsOf, RecordsOf, RecordOf
      <4>2. QED BY <1>1, <2>3, <2>4, <4>1 DEF CacheMatchesMeta
    <3>3. QED BY <2>2, <3>1, <3>2
  <2>7. OpenIsSound' /\ ScanIsSound'
    BY <1>1, <2>2, <2>3, <2>4 DEF OpenIsSound, ScanIsSound
  <2>8. QED BY <2>5, <2>6, <2>7 DEF DiskInv
<1>10. ASSUME NEW g \in Files PROVE SoundAt(g)' /\ FreshAt(g)'
  <2>1. CASE g = f
    <3>1. SoundAt(g)' BY <1>1, <1>5, <2>1 DEF SoundAt
    <3>2. FreshAt(g)'
      BY <1>1, <1>2, <1>5, <2>1 DEF FreshAt, Reported, Cold!Outcomes, Memory
    <3>3. QED BY <3>1, <3>2
  <2>2. CASE g # f
    <3>1. work'[g] = work[g] /\ recs'[g] = recs[g] BY <1>4, <1>6, <2>2 DEF Inv, TypeOK
    <3>2. SoundAt(g) /\ FreshAt(g) BY DEF Inv, CacheInv, WorkIsSound, OnlyFreshReports
    <3>3. SoundAt(g)' BY <1>1, <3>1, <3>2 DEF SoundAt, IsHit, Language
    <3>4. FreshAt(g)' BY <1>1, <3>1, <3>2 DEF FreshAt, Reported, Cold!Outcomes, Memory
    <3>5. QED BY <3>3, <3>4
  <2>3. QED BY <2>1, <2>2
<1>11. QED
  BY <1>1, <1>6, <1>7, <1>8, <1>9, <1>10 DEF Inv, CacheInv, WorkIsSound, OnlyFreshReports, DiskInv

\* Ending a scan forgets the workers and keeps the disk, which still is what its
\* meta.json and the strays say.
LEMMA IdleInv ==
  ASSUME Inv, Idle
  PROVE  Inv'
<1>1. /\ phase' = "idle" /\ config' = NoScan /\ wiping' = {} /\ cached' = FALSE
      /\ work' = [f \in Files |-> Waiting]
      /\ UNCHANGED <<source, meta, recs, irs, strays>>
  BY DEF Idle, disk
<1>2. TypeOK'
  BY <1>1, CacheConstants DEF Inv, TypeOK, Waiting, WorkItems, Outputs
<1>3. DiskInv'
  BY <1>1 DEF Inv, CacheInv, DiskInv, CacheMatchesMeta, OpenIsSound, ScanIsSound, DiskIsSound,
     RecordsOf, RecordOf, IRsOf
<1>4. WorkIsSound' /\ OnlyFreshReports'
  BY <1>1 DEF WorkIsSound, SoundAt, OnlyFreshReports, FreshAt, Reported, Waiting
<1>5. QED BY <1>1, <1>2, <1>3, <1>4 DEF Inv, CacheInv, DiskInv

LEMMA EditInv ==
  ASSUME Inv, NEW f \in Files, Edit(f)
  PROVE  Inv'
<1>1. PICK c \in MayHold[f] : source' = [source EXCEPT ![f] = c]
  BY DEF Edit
<1>2. UNCHANGED <<meta, recs, irs, config, phase, wiping, cached, work, strays>>
  BY DEF Edit, disk
<1>3. TypeOK'
  BY <1>1, <1>2, CacheConstants DEF Inv, TypeOK
<1>4. DiskInv' /\ WorkIsSound' /\ OnlyFreshReports'
  BY <1>2, SameDisk, SameWork
<1>5. QED BY <1>1, <1>2, <1>3, <1>4 DEF Inv, CacheInv, DiskInv, TypeOK

LEMMA SpoilMetaInv ==
  ASSUME Inv, SpoilMeta
  PROVE  Inv'
<1>1. /\ meta' = Corrupt /\ phase # "open"
      /\ UNCHANGED <<source, recs, irs, config, phase, wiping, cached, work, strays>>
  BY DEF SpoilMeta
<1>2. TypeOK'
  BY <1>1 DEF Inv, TypeOK
<1>3. DiskInv'
  BY <1>1, CacheConstants DEF Inv, CacheInv, DiskInv, CacheMatchesMeta, OpenIsSound, ScanIsSound,
     DiskIsSound, RecordsOf, RecordOf, IRsOf
<1>4. WorkIsSound' /\ OnlyFreshReports'
  BY <1>1, SameWork
<1>5. QED BY <1>1, <1>2, <1>3, <1>4 DEF Inv, CacheInv, DiskInv

LEMMA StutterInv == ASSUME Inv, UNCHANGED vars PROVE Inv'
<1>1. UNCHANGED <<source, meta, recs, irs, config, phase, wiping, cached, work, strays>>
  BY DEF vars
<1>2. TypeOK'
  BY <1>1 DEF Inv, TypeOK
<1>3. DiskInv' /\ WorkIsSound' /\ OnlyFreshReports'
  BY <1>1, SameDisk, SameWork
<1>4. QED BY <1>1, <1>2, <1>3 DEF Inv, CacheInv, DiskInv

LEMMA NextInv == Inv /\ [Next]_vars => Inv'
<1> SUFFICES ASSUME Inv, [Next]_vars PROVE Inv' OBVIOUS
<1>1. ASSUME NEW k \in Configs, OpenCache(k) \/ SkipCache(k) PROVE Inv'
  BY <1>1, OpenCacheInv, SkipCacheInv
<1>2. ASSUME OpenStep PROVE Inv'
  BY <1>2, RemoveMetaInv, RemoveRecordInv, RemoveIRInv, WriteMetaInv, OpenFailsInv DEF OpenStep
<1>3. ASSUME NEW f \in Files, WorkStep(f) PROVE Inv'
  BY <1>3, ReadFileInv, ReadFileFailsInv, GetInv, GetFindingsInv, DetectUnknownInv, GetIRInv,
     BuildIRInv, SetIRInv, MatchAndPutInv, FailsInv DEF WorkStep
<1>4. CASE Finish \/ Interrupted
  BY <1>4, IdleInv DEF Finish, Interrupted
<1>5. ASSUME NEW f \in Files, Edit(f) PROVE Inv'
  BY <1>5, EditInv
<1>6. CASE SpoilMeta
  BY <1>6, SpoilMetaInv
<1>7. CASE UNCHANGED vars
  BY <1>7, StutterInv
<1>8. QED
  BY <1>1, <1>2, <1>3, <1>4, <1>5, <1>6, <1>7 DEF Next

\* The inductive invariant holds of every scan history.
THEOREM Invariance == Spec => []Inv
<1>1. Inv /\ [Next]_vars => Inv'
  BY NextInv
<1>2. QED BY <1>1, InitInv, PTL DEF Spec

\* Type correctness: no reader of the disk, and no record a worker writes to
\* it, is ever of the wrong shape.
THEOREM TypeCorrect == Spec => []TypeOK
BY Invariance, PTL DEF Inv

\* Findings served from the cache, or computed over a cached tree, are those a
\* scan with that memory may report: this build's of these very bytes as long
\* as the cache holds no strays, and some build's of these bytes if it does.
THEOREM Freshness == Spec => []OnlyFreshReports
BY Invariance, PTL DEF Inv, CacheInv

\* meta.json vouches for no other build's or rule set's entries, but for those
\* adopted without a meta.json or left behind a rule edit.
THEOREM MetaVouches == Spec => []CacheMatchesMeta
BY Invariance, PTL DEF Inv, CacheInv

\* Open never throws away a tree that the new engine would parse just so,
\* unless it could not read meta.json.
THEOREM RuleEdits == Spec => RuleEditKeepsIR
<1>1. ASSUME Inv, [Next]_vars, NEW c \in Contents,
             irs[c] # NoIR, irs'[c] = NoIR, meta \in Metas
      PROVE  "meta" \in wiping \/ ReadsTreesDifferently(meta, config.meta)
  <2>1. ASSUME NEW f \in Files, SetIR(f) PROVE irs'[c] # NoIR
    <3>1. work[f].ir \in IRs
      BY <2>1, <1>1, AtWork, OwnTree, TreesType DEF SetIR, SoundAt, Language
    <3>2. QED BY <1>1, <2>1, <3>1, NoTree DEF SetIR, Inv, TypeOK
  <2>2. PICK d \in Contents : RemoveIR(d)
    BY <1>1, <2>1 DEF Next, OpenCache, SkipCache, OpenStep, RemoveMeta, RemoveRecord, WriteMeta,
       OpenFails, WorkStep, ReadFile, ReadFileFails, Get, GetFindings, DetectUnknown, GetIR,
       BuildIR, MatchAndPut, Fails, Finish, Interrupted, Idle, Edit, SpoilMeta, disk, vars
  <2>3. QED BY <1>1, <2>2 DEF RemoveIR, Inv, CacheInv, OpenIsSound
<1>2. Inv /\ [Next]_vars =>
        [\A c \in Contents :
           irs[c] # NoIR /\ irs'[c] = NoIR /\ meta \in Metas =>
             "meta" \in wiping \/ ReadsTreesDifferently(meta, config.meta)]_vars
  BY <1>1
<1>3. QED BY <1>2, Invariance, PTL DEF RuleEditKeepsIR, Spec

------------------------------------------------------------------------------
(* A scan with the cache implements FreshScan, step for step: Open's wipe and *)
(* the cache reads and writes are stutters, the new meta.json says what the   *)
(* scan remembers, and whatever a worker yields is an outcome FreshScan       *)
(* allows with that memory.                                                   *)

Task == [f \in Files |-> TaskOf(f)]

\* Work that does not change hides behind a task that does not change.
LEMMA SameTask ==
  ASSUME UNCHANGED work PROVE UNCHANGED Task
BY DEF Task, TaskOf

\* A step of f's worker is a step of f's task alone.
LEMMA OneTask ==
  ASSUME Inv, NEW f \in Files, NEW w, work' = [work EXCEPT ![f] = w]
  PROVE  Task' = [Task EXCEPT ![f] =
           [at |-> CASE w.at = "todo" -> "todo" [] w.at = "done" -> "done" [] OTHER -> "read",
            content |-> w.content,
            out |-> IF w.at = "done" THEN w.out ELSE Nothing]]
<1>1. work'[f] = w /\ \A g \in Files \ {f} : work'[g] = work[g]
  BY DEF Inv, TypeOK
<1>2. QED BY <1>1 DEF Task, TaskOf

\* Between the cache lookup and the result, a worker's steps are its own.
LEMMA InnerStep ==
  ASSUME Inv, NEW f \in Files, NEW w, work' = [work EXCEPT ![f] = w],
         work[f].at \notin {"todo", "done"}, w.at \notin {"todo", "done"},
         w.content = work[f].content
  PROVE  UNCHANGED Task
<1>1. Task[f] = [at |-> "read", content |-> w.content, out |-> Nothing]
  BY DEF Task, TaskOf
<1>2. Task' = [Task EXCEPT ![f] = Task[f]]
  BY <1>1, OneTask
<1>3. QED BY <1>2 DEF Task

\* A worker that yields an outcome FreshScan allows reports it.
LEMMA YieldReports ==
  ASSUME Inv, NEW f \in Files, NEW o \in Outputs, Yield(f, o),
         UNCHANGED <<source, config, Memory>>,
         work[f].at \notin {"todo", "done"},
         o \in Cold!Outcomes(f, work[f].content)
  PROVE  Cold!Report(f)
<1> DEFINE w == [work[f] EXCEPT !.at = "done", !.ir = NoIR, !.out = o]
           t == [at |-> "done", content |-> work[f].content, out |-> o]
<1>1. w \in WorkItems /\ work' = [work EXCEPT ![f] = w]
  BY AtWork DEF Yield, Inv, TypeOK, WorkItems
<1>2. w.at = "done" /\ w.out = o /\ w.content = work[f].content
  BY AtWork DEF WorkItems
<1> HIDE DEF w
<1>3. Task' = [Task EXCEPT ![f] = t]
  BY <1>1, <1>2, OneTask
<1>4. Task[f] = [at |-> "read", content |-> work[f].content, out |-> Nothing]
  BY DEF Task, TaskOf
<1>5. Task[f].at = "read" /\ Task[f].content = work[f].content
  BY <1>4
<1>6. Task' = [Task EXCEPT ![f] = [at |-> "done", content |-> Task[f].content, out |-> o]]
  BY <1>3, <1>5
<1>7. QED BY <1>5, <1>6 DEF Cold!Report, Cold!Done, Task

LEMMA ReadsAreReads ==
  ASSUME Inv, NEW f \in Files, ReadFile(f)
  PROVE  Cold!Read(f)
<1> DEFINE w == [work[f] EXCEPT !.at = "lookup", !.content = source[f]]
           t == [at |-> "read", content |-> source[f], out |-> Nothing]
<1>1. source[f] \in Contents /\ work \in [Files -> WorkItems]
  BY DEF Inv, TypeOK
<1>2. w \in WorkItems BY <1>1 DEF WorkItems
<1>3. work' = [work EXCEPT ![f] = w] BY <1>1 DEF ReadFile
<1>4. w.at = "lookup" /\ w.content = source[f]
  BY <1>1 DEF WorkItems
<1> HIDE DEF w
<1>5. Task' = [Task EXCEPT ![f] = t]
  BY <1>2, <1>3, <1>4, OneTask
<1>6. Task[f].at = "todo" /\ config # NoScan
  BY DEF Task, TaskOf, ReadFile, Inv, CacheInv
<1>7. UNCHANGED <<source, config, Memory>>
  BY DEF ReadFile, Memory
<1>8. QED BY <1>5, <1>6, <1>7 DEF Cold!Read, Task

LEMMA FailedReadsPassOver ==
  ASSUME Inv, NEW f \in Files, ReadFileFails(f)
  PROVE  Cold!PassOver(f)
<1> DEFINE w == [work[f] EXCEPT !.at = "done", !.ir = NoIR, !.out = Nothing]
           t == [at |-> "done", content |-> work[f].content, out |-> Nothing]
<1>1. w \in WorkItems /\ work' = [work EXCEPT ![f] = w]
  BY AtWork DEF ReadFileFails, Yield, Inv, TypeOK, WorkItems, Outputs
<1>2. w.at = "done" /\ w.out = Nothing /\ w.content = work[f].content
  BY AtWork DEF WorkItems
<1> HIDE DEF w
<1>3. Task' = [Task EXCEPT ![f] = t]
  BY <1>1, <1>2, OneTask
<1>4. Task[f] = [at |-> "todo", content |-> work[f].content, out |-> Nothing] /\ config # NoScan
  BY DEF Task, TaskOf, ReadFileFails, Inv, CacheInv
<1>5. Task[f].at = "todo" /\ Task[f].content = work[f].content
  BY <1>4
<1>6. Task' = [Task EXCEPT ![f] = [at |-> "done", content |-> Task[f].content, out |-> Nothing]]
  BY <1>3, <1>5
<1>7. UNCHANGED <<source, config, Memory>>
  BY DEF ReadFileFails, Memory
<1>8. QED BY <1>4, <1>5, <1>6, <1>7 DEF Cold!PassOver, Cold!Done, Task

LEMMA HitsAreReports ==
  ASSUME Inv, NEW f \in Files, GetFindings(f)
  PROVE  Cold!Report(f)
<1>1. /\ config \in Configs /\ IsHit(f) /\ work[f].at = "hit" /\ phase = "scan"
      /\ UNCHANGED <<source, config, Memory>>
  BY AtWork DEF GetFindings, SoundAt, Memory
<1>2. CASE Yield(f, Nothing)
  BY <1>1, <1>2, HitIsAllowed, YieldReports DEF Outputs
<1>3. CASE Yield(f, Decoded(recs[f], config.meta.format))
  BY <1>1, <1>3, HitIsAllowed, YieldReports
<1>4. QED BY <1>2, <1>3 DEF GetFindings

LEMMA MatchesAreReports ==
  ASSUME Inv, NEW f \in Files, MatchAndPut(f)
  PROVE  Cold!Report(f)
<1> DEFINE o == Matched(work[f].ir, config)
<1>1. /\ work[f].at = "match" /\ Yield(f, o) /\ UNCHANGED <<source, config, Memory>>
  BY DEF MatchAndPut, Memory
<1>2. o \in Outputs /\ o \in Cold!Outcomes(f, work[f].content)
  BY <1>1, MatchIsAllowed
<1> HIDE DEF o
<1>3. QED BY <1>1, <1>2, YieldReports

LEMMA FailuresAreReports ==
  ASSUME Inv, NEW f \in Files, DetectUnknown(f) \/ Fails(f)
  PROVE  Cold!Report(f)
<1>0. UNCHANGED <<source, config, Memory>>
  BY DEF DetectUnknown, Fails, Memory
<1>1. CASE DetectUnknown(f)
  <2>1. Nothing \in Cold!Outcomes(f, work[f].content)
    BY <1>1 DEF DetectUnknown, Language, Cold!Outcomes
  <2>2. QED BY <1>0, <1>1, <2>1, YieldReports DEF DetectUnknown, Outputs
<1>2. CASE Fails(f)
  <2>1. Language(f) # Unknown /\ work[f].at \notin {"todo", "done"}
    BY <1>2, AtWork DEF Fails, SoundAt
  <2>2. Failed \in Cold!Outcomes(f, work[f].content)
    BY <2>1 DEF Language, Cold!Outcomes
  <2>3. QED BY <1>0, <1>2, <2>1, <2>2, YieldReports DEF Fails, Outputs
<1>3. QED BY <1>1, <1>2

\* What happens between the read and the result.
LEMMA InnerStepsStutter ==
  ASSUME Inv, NEW f \in Files, Get(f) \/ GetIR(f) \/ BuildIR(f) \/ SetIR(f)
  PROVE  UNCHANGED <<source, config, Task, Memory>>
<1>1. PICK w : /\ work' = [work EXCEPT ![f] = w]
               /\ w.at \notin {"todo", "done"} /\ w.content = work[f].content
  <2>1. CASE Get(f)
    <3>1. PICK s \in {"hit", "miss"} : Goto(f, s)
      BY <2>1 DEF Get
    <3> DEFINE w == [work[f] EXCEPT !.at = s]
    <3>2. /\ work' = [work EXCEPT ![f] = w]
          /\ w.at \notin {"todo", "done"} /\ w.content = work[f].content
      BY <3>1, AtWork DEF Goto, Inv, TypeOK, WorkItems
    <3>3. QED BY <3>2
  <2>2. CASE GetIR(f)
    <3> DEFINE w == [work[f] EXCEPT !.at = "match", !.ir = irs[work[f].content]]
    <3>1. /\ work' = [work EXCEPT ![f] = w]
          /\ w.at \notin {"todo", "done"} /\ w.content = work[f].content
      BY <2>2, AtWork DEF GetIR, Inv, TypeOK, WorkItems
    <3>2. QED BY <3>1
  <2>3. CASE BuildIR(f)
    <3> DEFINE w == [work[f] EXCEPT !.at = "store",
                                    !.ir = Parsed(work[f].content, Language(f), config.meta)]
    <3>1. /\ work' = [work EXCEPT ![f] = w]
          /\ w.at \notin {"todo", "done"} /\ w.content = work[f].content
      BY <2>3, AtWork DEF BuildIR, Inv, TypeOK, WorkItems
    <3>2. QED BY <3>1
  <2>4. CASE SetIR(f)
    <3> DEFINE w == [work[f] EXCEPT !.at = "match"]
    <3>1. /\ work' = [work EXCEPT ![f] = w]
          /\ w.at \notin {"todo", "done"} /\ w.content = work[f].content
      BY <2>4, AtWork DEF SetIR, Goto, Inv, TypeOK, WorkItems
    <3>2. QED BY <3>1
  <2>5. QED BY <2>1, <2>2, <2>3, <2>4
<1>2. work[f].at \notin {"todo", "done"}
  BY DEF Get, GetIR, BuildIR, SetIR
<1>3. UNCHANGED <<source, config, Memory>>
  BY DEF Get, GetIR, BuildIR, SetIR, Memory
<1>4. QED BY <1>1, <1>2, <1>3, InnerStep

\* Once meta.json is written the scan remembers, or runs on the Noop caches.
LEMMA WriteMetaRemembers ==
  ASSUME Inv, WriteMeta
  PROVE  Cold!Remember \/ UNCHANGED Cold!vars
<1>1. /\ phase = "open" /\ ~cached /\ config # NoScan /\ cached' \in BOOLEAN
      /\ UNCHANGED <<source, config, work>>
  BY DEF WriteMeta, Inv, CacheInv, ScanIsSound, TypeOK
<1>2. \A f \in Files : TaskOf(f) = Cold!Untouched
  <2>1. ASSUME NEW f \in Files PROVE work[f].at = "todo" /\ work[f].content = NoContent
    BY <1>1, AtWork DEF SoundAt
  <2>2. QED BY <2>1 DEF TaskOf, Cold!Untouched
<1>3. Task = [f \in Files |-> Cold!Untouched] /\ UNCHANGED Task
  BY <1>1, <1>2, SameTask DEF Task
<1>4. Memory = "none"
  BY <1>1 DEF Memory
<1>5. CASE cached'
  <2>1. Memory' \in {"own", "foreign"}
    BY <1>5 DEF Memory
  <2>2. QED BY <1>1, <1>3, <1>4, <2>1 DEF Cold!Remember, Task
<1>6. CASE ~cached'
  <2>1. Memory' = "none"
    BY <1>6 DEF Memory
  <2>2. QED BY <1>1, <1>3, <1>4, <2>1 DEF Cold!vars, Task
<1>7. QED BY <1>5, <1>6

LEMMA StepRefines ==
  ASSUME Inv, [Next]_vars
  PROVE  [Cold!Next]_Cold!vars
<1>1. ASSUME NEW k \in Configs, OpenCache(k) \/ SkipCache(k) PROVE Cold!Begin(k)
  <2>1. config = NoScan /\ config' = k /\ UNCHANGED <<source, work, Memory>>
    BY <1>1 DEF OpenCache, SkipCache, Inv, CacheInv, Memory
  <2>2. QED BY <2>1, SameTask DEF Cold!Begin, Task
<1>2. ASSUME OpenStep \/ SpoilMeta \/ UNCHANGED vars
      PROVE  Cold!Remember \/ UNCHANGED Cold!vars
  <2>1. CASE WriteMeta
    BY <2>1, WriteMetaRemembers
  <2>2. CASE ~WriteMeta
    <3>1. UNCHANGED <<source, config, work, cached, strays>>
      BY <1>2, <2>2 DEF OpenStep, RemoveMeta, RemoveRecord, RemoveIR, OpenFails, SpoilMeta, vars
    <3>2. QED BY <3>1, SameTask DEF Cold!vars, Task, Memory
  <2>3. QED BY <2>1, <2>2
<1>3. ASSUME NEW f \in Files, WorkStep(f)
      PROVE  Cold!Read(f) \/ Cold!PassOver(f) \/ Cold!Report(f) \/ UNCHANGED Cold!vars
  <2>1. ASSUME Get(f) \/ GetIR(f) \/ BuildIR(f) \/ SetIR(f) PROVE UNCHANGED Cold!vars
    BY <2>1, InnerStepsStutter DEF Cold!vars, Task
  <2>2. QED
    BY <1>3, <2>1, ReadsAreReads, FailedReadsPassOver, HitsAreReports, MatchesAreReports,
       FailuresAreReports DEF WorkStep
<1>4. ASSUME Finish \/ Interrupted PROVE Cold!Stop
  <2>1. Idle /\ config # NoScan
    BY <1>4 DEF Finish, Interrupted, Inv, CacheInv
  <2>2. Task' = [f \in Files |-> Cold!Untouched] /\ Memory' = "none"
    BY <2>1 DEF Idle, Task, TaskOf, Waiting, Cold!Untouched, Memory
  <2>3. QED BY <2>1, <2>2 DEF Idle, Cold!Stop, Task
<1>5. ASSUME NEW f \in Files, Edit(f) PROVE Cold!Edit(f)
  BY <1>5, SameTask DEF Edit, Cold!Edit, Task, Memory
<1>6. QED
  BY <1>1, <1>2, <1>3, <1>4, <1>5 DEF Next, Cold!Next, Configs, Cold!Configs

\* Whatever the cache holds, was left with or lost, a history of cached scans
\* is one FreshScan allows.
THEOREM CachedScanIsCold == Spec => CachedIsCold
<1>1. Init => Cold!Init
  BY DEF Init, Cold!Init, TaskOf, Waiting, Cold!Untouched, Memory
<1>2. Inv /\ [Next]_vars => [Cold!Next]_Cold!vars
  BY StepRefines
<1>3. QED BY <1>1, <1>2, Invariance, PTL DEF Spec, CachedIsCold, Cold!Spec
==============================================================================
