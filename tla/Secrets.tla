--------------------------------- MODULE Secrets ---------------------------------
(***************************************************************************)
(* SecretsScanner.Scan.  Per file, the dotenv or compose pass judges       *)
(* entries by their key and remembers their lines; then every line is      *)
(* tried against every detector, the generic ones excepted where a         *)
(* structured pass has judged the line.                                    *)
(*                                                                         *)
(* A line is a record: words (what inline suppression sees of it), matches *)
(* (a function from the detectors whose pattern matches it to the value    *)
(* captured), context (a comparison or an assertion around the value), and *)
(* entry: what a dotenv or YAML parser reads on it, or NoEntry.            *)
(***************************************************************************)
EXTENDS Suppress, Detectors, Lists

CONSTANTS
  Scans,      \* the lists of files a scan may be given
  Base,       \* Base[f]: the file's base name, in lower case
  Binary,     \* Binary[f]
  Texts,      \* the texts the files may have: functions from files
  WellFormed  \* WellFormed[f]: the YAML parser accepts the file

\* The table's detectors match lines; an entry is under some service's
\* environment or it is not.
IsALine(l) ==
  /\ IsASlice(l.words)
  /\ DOMAIN l.matches \subseteq {d.id : d \in ToSet(DetectorTable)}
  /\ l.entry.place \in {"environment", "elsewhere"}

ASSUME SecretsAssumption ==
  /\ \A scan \in Scans : IsASlice(scan) /\ ToSet(scan) \subseteq DOMAIN Base
  /\ \A t \in Texts : \A f \in DOMAIN Base :
       IsASlice(t[f]) /\ \A n \in DOMAIN t[f] : IsALine(t[f][n])

NoEntry == [class |-> "other", value |-> "none", place |-> "elsewhere"]

VARIABLES
  scanned,   \* the files given
  text,      \* what the files hold
  fileNum,   \* the file being scanned
  pass,      \* "read", "dotenv", "compose" or "lines"
  lineNum,   \* the line being tried
  handled,   \* the lines the structured passes judged
  found,     \* the findings so far
  skipped    \* the files that could not be read

given == <<scanned, text>>
secretsVars == <<given, fileNum, pass, lineNum, handled, found, skipped>>

Accepted == Picked(scanned, {n \in DOMAIN scanned : ~Binary[scanned[n]]})
Done == fileNum > Len(Accepted)
File == Accepted[fileNum]
Lines == text[File]
Words == [n \in DOMAIN Lines |-> Lines[n].words]

\* A base name stands for its family: .env, .env.<name>, <name>.env; and those
\* that hold example, sample, template, ..., schema or defaults.
IsDotenvFile(f) == Base[f] \in {".env", ".env.local", "prod.env"}
IsComposeFile(f) == Base[f] \in {"docker-compose.yml", "compose.yaml", "docker-compose.dev.yml"}

Init ==
  /\ scanned \in Scans /\ text \in Texts
  /\ fileNum = 1 /\ pass = "read" /\ lineNum = 1
  /\ handled = {} /\ found = <<>> /\ skipped = {}

\* BuildSecretFinding.
Finding(id, rule, cwe, n, value, severity) ==
  [file |-> File, line |-> n, rule |-> rule, detector |-> id, cwe |-> cwe, value |-> value,
   severity |-> severity, fingerprint |-> <<id, value>>]

NextFile == fileNum' = fileNum + 1 /\ pass' = "read" /\ lineNum' = 1 /\ handled' = {}

\* A file that cannot be read is passed over, without a diagnostic.
Unreadable ==
  /\ ~Done /\ pass = "read"
  /\ skipped' = skipped \cup {File}
  /\ NextFile
  /\ UNCHANGED <<given, found>>

ReadFile ==
  /\ ~Done /\ pass = "read"
  /\ pass' = "dotenv"
  /\ UNCHANGED <<given, fileNum, lineNum, handled, found, skipped>>

\* Report the credentials among the entries on lines, and remember all of them
\* as judged.
JudgeEntries(lines, id, rule, severity) ==
  LET judged == {n \in lines : CredentialKeyCWE(Lines[n].entry.class) # ""}
      reported == {n \in judged :
        CredentialValueOK(Lines[n].entry.value) /\ ~Suppressed(Words, n, n, rule)}
      findings == [n \in DOMAIN Lines |->
        LET e == Lines[n].entry
        IN  Finding(id, rule, CredentialKeyCWE(e.class), n, e.value, severity)]
  IN  /\ handled' = handled \cup judged
      /\ found' = found \o Picked(findings, reported)

EntryLines(places) ==
  {n \in DOMAIN Lines : Lines[n].entry # NoEntry /\ Lines[n].entry.place \in places}

ScanDotenv ==
  /\ ~Done /\ pass = "dotenv"
  /\ pass' = "compose"
  /\ IF IsDotenvFile(File)
     THEN JudgeEntries(EntryLines({"environment", "elsewhere"}), "dotenv-secret", "ZS-SEC-031", "high")
     ELSE UNCHANGED <<handled, found>>
  /\ UNCHANGED <<given, fileNum, lineNum, skipped>>

\* Entries under services.*.environment; none when the YAML does not parse.
ScanCompose ==
  /\ ~Done /\ pass = "compose"
  /\ pass' = "lines"
  /\ IF IsComposeFile(File) /\ WellFormed[File]
     THEN JudgeEntries(EntryLines({"environment"}), "compose-env-secret", "ZS-SEC-032", "medium")
     ELSE UNCHANGED <<handled, found>>
  /\ UNCHANGED <<given, fileNum, lineNum, skipped>>

\* Mutant of Reports: the lines handled are counted from zero.
ReportsFromZero(d, n) ==
  /\ ~(Generic \in d.flags /\ n - 1 \in handled)
  /\ d.id \in DOMAIN Lines[n].matches
  /\ LET v == Lines[n].matches[d.id] IN
     /\ ~(RejectCodeRefs \in d.flags /\ ~v.quoted /\ LooksLikeCodeRef(v))
     /\ MinEntropy \in d.flags => v.entropic
     /\ ~Suppressed(Words, n, n, d.rule)
     /\ Generic \in d.flags => PlausibleSecret(v, Lines[n].context, Comparison \in d.flags)

\* Does detector d report line n?
Reports(d, n) ==
  /\ ~(Generic \in d.flags /\ n \in handled)
  /\ d.id \in DOMAIN Lines[n].matches
  /\ LET v == Lines[n].matches[d.id] IN
     /\ ~(RejectCodeRefs \in d.flags /\ ~v.quoted /\ LooksLikeCodeRef(v))
     /\ MinEntropy \in d.flags => v.entropic
     /\ ~Suppressed(Words, n, n, d.rule)
     /\ Generic \in d.flags => PlausibleSecret(v, Lines[n].context, Comparison \in d.flags)

ScanLine ==
  /\ ~Done /\ pass = "lines" /\ lineNum <= Len(Lines)
  /\ LET hits == Picked(DetectorTable, {k \in DOMAIN DetectorTable : Reports(DetectorTable[k], lineNum)}) IN
     found' = found \o [n \in DOMAIN hits |->
       Finding(hits[n].id, hits[n].rule, Weakness(hits[n]), lineNum,
               Lines[lineNum].matches[hits[n].id], hits[n].severity)]
  /\ lineNum' = lineNum + 1
  /\ UNCHANGED <<given, fileNum, pass, handled, skipped>>

FinishFile ==
  /\ ~Done /\ pass = "lines" /\ lineNum > Len(Lines)
  /\ NextFile
  /\ UNCHANGED <<given, found, skipped>>

Next == Unreadable \/ ReadFile \/ ScanDotenv \/ ScanCompose \/ ScanLine \/ FinishFile

Spec == Init /\ [][Next]_secretsVars

------------------------------------------------------------------------------
(* Properties *)

CONSTANT Twin   \* Twin[f]: a file with f's text but for its comments

\* A twin is read by the same passes, and no line of it has a comment.
ASSUME TwinAssumption ==
  \A f \in DOMAIN Twin :
    /\ f \in DOMAIN Base /\ Twin[f] \in DOMAIN Base
    /\ IsDotenvFile(f) = IsDotenvFile(Twin[f])
    /\ IsComposeFile(f) = IsComposeFile(Twin[f]) /\ WellFormed[f] = WellFormed[Twin[f]]
    /\ \A t \in Texts :
         /\ DOMAIN t[f] = DOMAIN t[Twin[f]]
         /\ \A n \in DOMAIN t[f] : LET l == t[f][n]
                                      m == t[Twin[f]][n]
                                  IN  /\ l.matches = m.matches /\ l.entry = m.entry
                                      /\ l.context = m.context
                                      /\ ToSet(m.words) \cap CommentStarters = {}

FoundIn(f) == {found[n] : n \in {n \in DOMAIN found : found[n].file = f}}
RulesAt(f, n) == {e.rule : e \in {e \in FoundIn(f) : e.line = n}}
Read == ToSet(Accepted) \ skipped

\* May a comment on line n or the one above have silenced rule there?
Annotated(f, n, rule) ==
  \E m \in {n - 1, n} \cap DOMAIN text[f] : LineSuppresses(text[f][m].words, rule)

\* An inline annotation silences the rules it names (or all, when it names none)
\* on its own line and the next, in every pass, and changes nothing else: the
\* findings of a file are those of the file without its comments, less these.
MarkersAreLocal ==
  Done => \A f \in DOMAIN Twin \cap Read : Twin[f] \in Read =>
    \A n \in DOMAIN text[f] :
      RulesAt(f, n) = {r \in RulesAt(Twin[f], n) : ~Annotated(f, n, r)}

\* What a line is read to hold by the pass that is responsible for it: a
\* structured pass for the entries it judges, otherwise any line detector.
Judged(f, n) ==
  LET e == text[f][n].entry IN
  /\ e # NoEntry /\ CredentialKeyCWE(e.class) # ""
  /\ IsDotenvFile(f) \/ (IsComposeFile(f) /\ WellFormed[f] /\ e.place = "environment")
LiveValues(f, n) ==
  LET l == text[f][n] IN
  IF Judged(f, n) THEN {l.entry.value}
  ELSE IF l.context = {} THEN {l.matches[d] : d \in DOMAIN l.matches} ELSE {}

\* Handing lines from one pass to the other loses no credential and resurrects
\* no reference: a line that nobody annotated is reported when the pass
\* responsible for it reads a quoted literal there that looks random, and a value
\* that is resolved at run time, or stands in for one, is never reported by a
\* detector that goes by syntax.
CredentialsAreReported ==
  Done => \A f \in Read : \A n \in DOMAIN text[f] :
    /\ (\E v \in LiveValues(f, n) : v.shape = "literal" /\ v.entropic /\ v.quoted)
         /\ (\A w \in ToSet(text[f][n].words) : w \notin Markers)
         /\ (n > 1 => \A w \in ToSet(text[f][n - 1].words) : w \notin Markers)
       => RulesAt(f, n) # {}
    /\ \A e \in FoundIn(f) : e.line = n /\ e.value.shape \notin {"literal", "number", "tiny"} =>
         \E d \in ToSet(DetectorTable) : d.id = e.detector /\ Generic \notin d.flags
==============================================================================
