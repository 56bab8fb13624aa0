------------------------------- MODULE SecretsProofs -------------------------------
(***************************************************************************)
(* The secrets scanner, for any files, any lines and any annotations: what *)
(* its passes report of a file is a function of the file, an annotation    *)
(* silences its own lines and nothing else, and what one pass leaves to    *)
(* another is neither lost nor resurrected.                                *)
(***************************************************************************)
EXTENDS Secrets, ListsProofs

------------------------------------------------------------------------------
(* What a file has to report, of the texts t.                                 *)

WordsOf(t, f) == [n \in DOMAIN t[f] |-> t[f][n].words]
Silenced(t, f, n, rule) == Suppressed(WordsOf(t, f), n, n, rule)

FindingOf(f, id, rule, cwe, n, value, severity) ==
  [file |-> f, line |-> n, rule |-> rule, detector |-> id, cwe |-> cwe, value |-> value,
   severity |-> severity, fingerprint |-> <<id, value>>]

\* The entries a structured pass judges, and what it reports of them.
KeyLines(t, f, places) ==
  {n \in DOMAIN t[f] : /\ t[f][n].entry # NoEntry /\ t[f][n].entry.place \in places
                       /\ CredentialKeyCWE(t[f][n].entry.class) # ""}
OfEntry(t, f, n, id, rule, severity) ==
  FindingOf(f, id, rule, CredentialKeyCWE(t[f][n].entry.class), n, t[f][n].entry.value, severity)
OfEntries(t, f, lines, id, rule, severity) ==
  {OfEntry(t, f, n, id, rule, severity) :
     n \in {n \in lines : CredentialValueOK(t[f][n].entry.value) /\ ~Silenced(t, f, n, rule)}}

DotenvLines(t, f) == IF IsDotenvFile(f) THEN KeyLines(t, f, {"environment", "elsewhere"}) ELSE {}
ComposeLines(t, f) ==
  IF IsComposeFile(f) /\ WellFormed[f] THEN KeyLines(t, f, {"environment"}) ELSE {}
OfDotenv(t, f) == OfEntries(t, f, DotenvLines(t, f), "dotenv-secret", "ZS-SEC-031", "high")
OfCompose(t, f) ==
  OfEntries(t, f, ComposeLines(t, f), "compose-env-secret", "ZS-SEC-032", "medium")

\* What detector d makes of line n when nobody silences it, and what the
\* detectors report of the line.
Sees(t, f, d, n) ==
  /\ ~(Generic \in d.flags /\ n \in DotenvLines(t, f) \cup ComposeLines(t, f))
  /\ d.id \in DOMAIN t[f][n].matches
  /\ LET v == t[f][n].matches[d.id] IN
     /\ ~(RejectCodeRefs \in d.flags /\ ~v.quoted /\ LooksLikeCodeRef(v))
     /\ MinEntropy \in d.flags => v.entropic
     /\ Generic \in d.flags => PlausibleSecret(v, t[f][n].context, Comparison \in d.flags)
Fires(t, f, d, n) == Sees(t, f, d, n) /\ ~Silenced(t, f, n, d.rule)
OfDetector(t, f, d, n) ==
  FindingOf(f, d.id, d.rule, Weakness(d), n, t[f][n].matches[d.id], d.severity)
OfLine(t, f, n) ==
  {OfDetector(t, f, d, n) : d \in {d \in ToSet(DetectorTable) : Fires(t, f, d, n)}}
OfLines(t, f, lines) == UNION {OfLine(t, f, n) : n \in lines}

OfFile(t, f) == OfDotenv(t, f) \cup OfCompose(t, f) \cup OfLines(t, f, DOMAIN t[f])

\* What has been reported and judged of f when the passes have come to line n
\* of pass p.
SoFar(t, f, p, n) ==
  (IF p \in {"compose", "lines"} THEN OfDotenv(t, f) ELSE {})
    \cup (IF p = "lines"
          THEN OfCompose(t, f) \cup OfLines(t, f, {m \in DOMAIN t[f] : m < n})
          ELSE {})
JudgedSoFar(t, f, p) ==
  (IF p \in {"compose", "lines"} THEN DotenvLines(t, f) ELSE {})
    \cup (IF p = "lines" THEN ComposeLines(t, f) ELSE {})

\* Whatever is found is in its file to report; the files gone through and not
\* passed over have it all, and the one at hand what its passes have come to.
PassInv ==
  /\ scanned \in Scans /\ text \in Texts
  /\ fileNum \in Nat \ {0} /\ lineNum \in Nat \ {0}
  /\ pass \in {"read", "dotenv", "compose", "lines"}
  /\ pass # "lines" => lineNum = 1
  /\ IsASequence(found)
  /\ ~Done => handled = JudgedSoFar(text, File, pass)
  /\ \A e \in ToSet(found) : e \in OfFile(text, e.file)
  /\ \A k \in 1..Len(Accepted) : k < fileNum =>
       Accepted[k] \in skipped \/ OfFile(text, Accepted[k]) \subseteq ToSet(found)
  /\ ~Done => SoFar(text, File, pass, lineNum) \subseteq ToSet(found)

------------------------------------------------------------------------------
(* Slices.                                                                    *)

\* Joining two slices joins what they hold.
LEMMA Joining ==
  ASSUME NEW s, NEW t, IsASequence(s), IsASequence(t)
  PROVE  IsASequence(s \o t) /\ ToSet(s \o t) = ToSet(s) \cup ToSet(t)
<1>1. /\ IsASequence(s \o t) /\ Len(s \o t) = Len(s) + Len(t)
      /\ \A n \in 1..Len(s) + Len(t) :
           (s \o t)[n] = IF n <= Len(s) THEN s[n] ELSE t[n - Len(s)]
  BY Concatenating
<1>2. /\ Len(s) \in Nat /\ Len(t) \in Nat /\ DOMAIN s = 1..Len(s) /\ DOMAIN t = 1..Len(t)
      /\ DOMAIN (s \o t) = 1..Len(s) + Len(t)
  BY <1>1 DEF IsASequence
<1>3. \A n \in DOMAIN (s \o t) : (s \o t)[n] \in ToSet(s) \cup ToSet(t)
  <2> SUFFICES ASSUME NEW n \in 1..Len(s) + Len(t)
               PROVE  (s \o t)[n] \in ToSet(s) \cup ToSet(t)
    BY <1>2
  <2>1. CASE n <= Len(s)
    <3>1. n \in DOMAIN s /\ (s \o t)[n] = s[n] BY <1>1, <1>2, <2>1
    <3>2. QED BY <3>1 DEF ToSet
  <2>2. CASE ~(n <= Len(s))
    <3>1. n - Len(s) \in DOMAIN t /\ (s \o t)[n] = t[n - Len(s)] BY <1>1, <1>2, <2>2
    <3>2. QED BY <3>1 DEF ToSet
  <2>3. QED BY <2>1, <2>2
<1>4. \A n \in DOMAIN s : s[n] \in ToSet(s \o t)
  <2>1. \A n \in DOMAIN s : n \in DOMAIN (s \o t) /\ (s \o t)[n] = s[n] BY <1>1, <1>2
  <2>2. QED BY <2>1 DEF ToSet
<1>5. \A n \in DOMAIN t : t[n] \in ToSet(s \o t)
  <2>1. \A n \in DOMAIN t : /\ Len(s) + n \in DOMAIN (s \o t)
                            /\ (s \o t)[Len(s) + n] = t[n]
    BY <1>1, <1>2
  <2>2. QED BY <2>1 DEF ToSet
<1>6. QED BY <1>1, <1>3, <1>4, <1>5 DEF ToSet

\* Picking from a slice gathers what it holds at the places asked for.
LEMMA Gathering ==
  ASSUME NEW s, NEW len \in Nat, NEW P, P \subseteq 1..len
  PROVE  /\ IsASequence(Picked(s, P))
         /\ ToSet(Picked(s, P)) = {s[k] : k \in P}
<1>1. P \subseteq Nat /\ IsFiniteSet(P)
  <2>1. IsFiniteSet(1..len) /\ P \in SUBSET (1..len) BY FS_Interval
  <2>2. IsFiniteSet(P) BY <2>1, FS_Subset
  <2>3. QED BY <2>2
<1>2. IsASequence(Picked(s, P)) BY <1>1, PickingFrom DEF ArePlaces
<1>3. /\ \A n \in DOMAIN Picked(s, P) : Place(P, n) \in P /\ Picked(s, P)[n] = s[Place(P, n)]
      /\ \A k \in P : Rank(P, k) \in DOMAIN Picked(s, P) /\ Picked(s, P)[Rank(P, k)] = s[k]
  <2>1. /\ Cardinality(P) \in Nat
        /\ DOMAIN Picked(s, P) = 1..Cardinality(P)
        /\ \A n \in DOMAIN Picked(s, P) :
             /\ Place(P, n) \in P /\ Rank(P, Place(P, n)) = n
             /\ Picked(s, P)[n] = s[Place(P, n)]
        /\ \A k \in P : Rank(P, k) \in DOMAIN Picked(s, P) /\ Picked(s, P)[Rank(P, k)] = s[k]
    BY ZenonT(60), <1>1, Picking
  <2>2. QED BY <2>1
<1> DEFINE picked == Picked(s, P)
           held == {s[k] : k \in P}
<1>4. \A n \in DOMAIN picked : picked[n] \in held BY <1>3
<1>5. \A k \in P : \E n \in DOMAIN picked : s[k] = picked[n] BY <1>3
<1> HIDE DEF picked
<1>6. {picked[n] : n \in DOMAIN picked} = held BY <1>4, <1>5
<1>7. QED BY <1>2, <1>6 DEF ToSet, picked

LEMMA TableIsASequence == IsASequence(DetectorTable)
<1>1. Len(DetectorTable) = 30 /\ DOMAIN DetectorTable = 1..30 BY DEF DetectorTable
<1>2. DetectorTable = [n \in DOMAIN DetectorTable |-> DetectorTable[n]]
  BY DEF DetectorTable
<1>3. QED BY <1>1, <1>2 DEF IsASequence

------------------------------------------------------------------------------
(* The passes.                                                                *)

\* The files scanned are files, and what they hold are slices of lines.
LEMMA SourcesAreSlices ==
  ASSUME PassInv
  PROVE  /\ Len(Accepted) \in Nat /\ DOMAIN Accepted = 1..Len(Accepted)
         /\ ToSet(Accepted) \subseteq DOMAIN Base
         /\ ~Done => File \in DOMAIN Base /\ fileNum \in 1..Len(Accepted)
         /\ \A f \in DOMAIN Base :
              /\ Len(text[f]) \in Nat /\ DOMAIN text[f] = 1..Len(text[f])
              /\ \A n \in DOMAIN text[f] : IsALine(text[f][n])
<1>1. /\ \A f \in DOMAIN Base : IsASlice(text[f]) /\ \A n \in DOMAIN text[f] : IsALine(text[f][n])
      /\ IsASlice(scanned) /\ ToSet(scanned) \subseteq DOMAIN Base
  BY SecretsAssumption DEF PassInv
<1>2. Len(scanned) \in Nat /\ DOMAIN scanned = 1..Len(scanned) BY <1>1 DEF IsASlice
<1> DEFINE P == {n \in DOMAIN scanned : ~Binary[scanned[n]]}
<1>3. P \subseteq 1..Len(scanned) BY <1>2
<1>4. IsASequence(Picked(scanned, P)) /\ ToSet(Picked(scanned, P)) = {scanned[k] : k \in P}
  <2> HIDE DEF P
  <2>1. QED BY <1>2, <1>3, Gathering
<1>5. IsASequence(Accepted) /\ ToSet(Accepted) \subseteq ToSet(scanned)
  BY <1>4 DEF Accepted, ToSet
<1>6. Len(Accepted) \in Nat /\ DOMAIN Accepted = 1..Len(Accepted) BY <1>5 DEF IsASequence
<1>7. ~Done => fileNum \in 1..Len(Accepted) BY <1>6 DEF PassInv, Done
<1>8. ~Done => File \in ToSet(Accepted) BY <1>6, <1>7 DEF File, ToSet
<1>9. \A f \in DOMAIN Base : Len(text[f]) \in Nat /\ DOMAIN text[f] = 1..Len(text[f])
  BY <1>1 DEF IsASlice
<1>10. QED BY <1>1, <1>5, <1>6, <1>7, <1>8, <1>9

\* What a file has to report is of that file.
LEMMA OfItsFile ==
  ASSUME NEW t, NEW f
  PROVE  \A e \in OfFile(t, f) : e.file = f
BY DEF OfFile, OfDotenv, OfCompose, OfEntries, OfEntry, OfLines, OfLine, OfDetector, FindingOf

\* A structured pass judges its entries, and adds what they have to report.
LEMMA EntriesAreJudged ==
  ASSUME PassInv, ~Done, NEW places, NEW id, NEW rule, NEW severity,
         JudgeEntries(EntryLines(places), id, rule, severity)
  PROVE  LET judged == KeyLines(text, File, places) IN
         /\ handled' = handled \cup judged
         /\ IsASequence(found')
         /\ ToSet(found') = ToSet(found) \cup OfEntries(text, File, judged, id, rule, severity)
<1> DEFINE lines == EntryLines(places)
           judged == {n \in lines : CredentialKeyCWE(Lines[n].entry.class) # ""}
           reported == {n \in judged :
             CredentialValueOK(Lines[n].entry.value) /\ ~Suppressed(Words, n, n, rule)}
           findings == [n \in DOMAIN Lines |->
             Finding(id, rule, CredentialKeyCWE(Lines[n].entry.class), n, Lines[n].entry.value,
                     severity)]
<1>1. handled' = handled \cup judged /\ found' = found \o Picked(findings, reported)
  BY DEF JudgeEntries
<1>2. judged = KeyLines(text, File, places)
  BY DEF EntryLines, KeyLines, Lines
<1>3. Words = WordsOf(text, File) BY DEF Words, WordsOf, Lines
<1>4. reported = {n \in KeyLines(text, File, places) :
                    /\ CredentialValueOK(text[File][n].entry.value)
                    /\ ~Silenced(text, File, n, rule)}
  BY <1>2, <1>3 DEF Silenced, Lines
<1>5. Len(Lines) \in Nat /\ DOMAIN Lines = 1..Len(Lines)
  BY SourcesAreSlices DEF Lines
<1>6. reported \subseteq 1..Len(Lines) BY <1>5 DEF EntryLines
<1>7. \A n \in reported : findings[n] = OfEntry(text, File, n, id, rule, severity)
  <2>1. \A n \in reported : n \in DOMAIN Lines BY <1>5, <1>6
  <2>2. QED BY <2>1 DEF OfEntry, FindingOf, Finding, Lines
<1> HIDE DEF findings, reported, judged
<1>8. /\ IsASequence(Picked(findings, reported))
      /\ ToSet(Picked(findings, reported)) = {findings[n] : n \in reported}
  BY <1>5, <1>6, Gathering
<1>9. {findings[n] : n \in reported}
        = OfEntries(text, File, KeyLines(text, File, places), id, rule, severity)
  BY <1>4, <1>7 DEF OfEntries
<1>10. IsASequence(found') /\ ToSet(found') = ToSet(found) \cup ToSet(Picked(findings, reported))
  BY <1>1, <1>8, Joining DEF PassInv
<1>11. QED BY <1>1, <1>2, <1>8, <1>9, <1>10

\* A detector reports what it sees on a line that nobody silences.
LEMMA ReportsAreFires ==
  ASSUME PassInv, ~Done, pass = "lines", NEW d, NEW n \in DOMAIN Lines
  PROVE  Reports(d, n) <=> Fires(text, File, d, n)
<1>1. handled = DotenvLines(text, File) \cup ComposeLines(text, File)
  BY DEF PassInv, JudgedSoFar
<1>2. Words = WordsOf(text, File) BY DEF Words, WordsOf, Lines
<1>3. Suppressed(Words, n, n, d.rule) <=> Silenced(text, File, n, d.rule) BY <1>2 DEF Silenced
<1>4. QED BY <1>1, <1>3 DEF Reports, Fires, Sees, Lines

\* What the detectors add for a line.
LEMMA LineIsTried ==
  ASSUME PassInv, ScanLine
  PROVE  /\ lineNum \in DOMAIN Lines
         /\ IsASequence(found')
         /\ ToSet(found') = ToSet(found) \cup OfLine(text, File, lineNum)
<1> DEFINE P == {k \in DOMAIN DetectorTable : Reports(DetectorTable[k], lineNum)}
           hits == Picked(DetectorTable, P)
           added == [n \in DOMAIN hits |->
             Finding(hits[n].id, hits[n].rule, Weakness(hits[n]), lineNum,
                     Lines[lineNum].matches[hits[n].id], hits[n].severity)]
<1>1. found' = found \o added /\ ~Done /\ pass = "lines" /\ lineNum <= Len(Lines)
  BY DEF ScanLine
<1>2. Len(Lines) \in Nat /\ DOMAIN Lines = 1..Len(Lines)
  BY <1>1, SourcesAreSlices DEF Lines
<1>3. lineNum \in DOMAIN Lines
  <2> HIDE DEF P, hits, added
  <2>1. lineNum \in Nat \ {0} BY DEF PassInv
  <2>2. lineNum \in 1..Len(Lines) BY <1>1, <1>2, <2>1
  <2>3. QED BY <1>2, <2>2
<1>4. P \subseteq 1..Len(DetectorTable) /\ Len(DetectorTable) \in Nat
        /\ DOMAIN DetectorTable = 1..Len(DetectorTable)
  BY TableIsASequence DEF IsASequence
<1>5. P = {k \in DOMAIN DetectorTable : Fires(text, File, DetectorTable[k], lineNum)}
  BY <1>1, <1>3, ReportsAreFires
<1> HIDE DEF P
<1>6. IsASequence(hits) /\ ToSet(hits) = {DetectorTable[k] : k \in P}
  BY <1>4, Gathering
<1>7. {DetectorTable[k] : k \in P} = {d \in ToSet(DetectorTable) : Fires(text, File, d, lineNum)}
  BY <1>5 DEF ToSet
<1>8. added = [n \in DOMAIN hits |-> OfDetector(text, File, hits[n], lineNum)]
  BY DEF OfDetector, FindingOf, Finding, Lines
<1> HIDE DEF hits, added
<1>9. IsASequence(added)
  <2>1. added = [n \in DOMAIN hits |-> added[n]] BY <1>8
  <2>2. QED BY <1>6, <2>1, SameLength
<1>10. ToSet(added) = OfLine(text, File, lineNum)
  <2>1. ToSet(added) = {OfDetector(text, File, hits[n], lineNum) : n \in DOMAIN hits}
    BY <1>8 DEF ToSet
  <2>2. ToSet(added) = {OfDetector(text, File, d, lineNum) : d \in ToSet(hits)}
    BY <2>1 DEF ToSet
  <2>3. QED BY <1>6, <1>7, <2>2 DEF OfLine
<1>11. QED BY <1>1, <1>3, <1>9, <1>10, Joining DEF PassInv

\* The files given do not change.
LEMMA GivenIsKept ==
  ASSUME PassInv, UNCHANGED given
  PROVE  scanned' = scanned /\ text' = text /\ Accepted' = Accepted
BY DEF given, Accepted

\* Going on to the next file, once this one is passed over or gone through.
LEMMA NextFileStep ==
  ASSUME PassInv, ~Done, UNCHANGED <<given, found>>, NextFile,
         skipped \subseteq skipped',
         File \in skipped' \/ OfFile(text, File) \subseteq ToSet(found)
  PROVE  PassInv'
<1>1. scanned' = scanned /\ text' = text /\ Accepted' = Accepted /\ found' = found
  BY GivenIsKept
<1>2. /\ fileNum' = fileNum + 1 /\ pass' = "read" /\ lineNum' = 1 /\ handled' = {}
      /\ fileNum \in Nat
  BY DEF NextFile, PassInv
<1>3. JudgedSoFar(text', File', pass') = {} /\ SoFar(text', File', pass', lineNum') = {}
  BY <1>2 DEF JudgedSoFar, SoFar
<1>4. ASSUME NEW k \in 1..Len(Accepted), k < fileNum'
      PROVE  Accepted[k] \in skipped' \/ OfFile(text, Accepted[k]) \subseteq ToSet(found)
  <2>1. CASE k < fileNum BY <2>1 DEF PassInv
  <2>2. CASE k = fileNum BY <2>2 DEF File
  <2>3. Len(Accepted) \in Nat BY SourcesAreSlices
  <2>4. QED BY <1>2, <1>4, <2>1, <2>2, <2>3
<1>5. /\ scanned \in Scans /\ text \in Texts /\ IsASequence(found)
      /\ \A e \in ToSet(found) : e \in OfFile(text, e.file)
  BY DEF PassInv
<1>6. fileNum' \in Nat \ {0} /\ lineNum' \in Nat \ {0} BY <1>2
<1>7. QED BY <1>1, <1>2, <1>3, <1>4, <1>5, <1>6 DEF PassInv

\* Going on with this file, once what has been reported and judged of it is
\* what the passes have come to.
LEMMA SameFileStep ==
  ASSUME PassInv, ~Done, UNCHANGED <<given, fileNum, skipped>>,
         lineNum' \in Nat \ {0}, pass' \in {"read", "dotenv", "compose", "lines"},
         pass' # "lines" => lineNum' = 1,
         IsASequence(found'), handled' = JudgedSoFar(text, File, pass'),
         NEW Added, Added \subseteq OfFile(text, File), ToSet(found') = ToSet(found) \cup Added,
         SoFar(text, File, pass', lineNum') \subseteq ToSet(found')
  PROVE  PassInv'
<1>1. scanned' = scanned /\ text' = text /\ Accepted' = Accepted BY GivenIsKept
<1>2. File' = File /\ fileNum' = fileNum /\ skipped' = skipped BY <1>1 DEF File
<1>3. \A e \in ToSet(found') : e \in OfFile(text, e.file)
  <2>1. \A e \in Added : e \in OfFile(text, e.file) BY OfItsFile
  <2>2. \A e \in ToSet(found) : e \in OfFile(text, e.file) BY DEF PassInv
  <2>3. QED BY <2>1, <2>2
<1>4. \A k \in 1..Len(Accepted) : k < fileNum =>
        Accepted[k] \in skipped \/ OfFile(text, Accepted[k]) \subseteq ToSet(found')
  <2>1. \A k \in 1..Len(Accepted) : k < fileNum =>
          Accepted[k] \in skipped \/ OfFile(text, Accepted[k]) \subseteq ToSet(found)
    BY DEF PassInv
  <2>2. QED BY <2>1
<1>5. scanned \in Scans /\ text \in Texts /\ fileNum \in Nat \ {0} BY DEF PassInv
<1>6. QED BY <1>1, <1>2, <1>3, <1>4, <1>5 DEF PassInv

LEMMA PassStart == Init => PassInv
<1> SUFFICES ASSUME Init PROVE PassInv OBVIOUS
<1>1. /\ scanned \in Scans /\ text \in Texts /\ fileNum = 1 /\ lineNum = 1 /\ pass = "read"
      /\ handled = {} /\ found = <<>>
  BY DEF Init
<1>2. IsASequence(found) /\ ToSet(found) = {}
  BY <1>1, EmptyIsASequence DEF ToSet
<1>3. JudgedSoFar(text, File, pass) = {} /\ SoFar(text, File, pass, lineNum) = {}
  BY <1>1 DEF JudgedSoFar, SoFar
<1>4. \A k \in 1..Len(Accepted) : ~(k < fileNum)
  <2>1. \A k \in 1..Len(Accepted) : k \in Int /\ 1 <= k OBVIOUS
  <2>2. QED BY <1>1, <2>1
<1>5. QED BY <1>1, <1>2, <1>3, <1>4 DEF PassInv

LEMMA PassStep ==
  ASSUME PassInv, [Next]_secretsVars
  PROVE  PassInv'
<1>1. CASE Unreadable
  <2>1. ~Done /\ skipped' = skipped \cup {File} /\ NextFile /\ UNCHANGED <<given, found>>
    BY <1>1 DEF Unreadable
  <2>2. QED BY <2>1, NextFileStep
<1>2. CASE ReadFile
  <2>1. /\ ~Done /\ pass = "read" /\ pass' = "dotenv"
        /\ UNCHANGED <<given, fileNum, lineNum, handled, found, skipped>>
    BY <1>2 DEF ReadFile
  <2>2. /\ handled = JudgedSoFar(text, File, pass) /\ IsASequence(found)
        /\ lineNum \in Nat \ {0} /\ lineNum = 1
    BY <2>1 DEF PassInv
  <2>3. handled' = JudgedSoFar(text, File, pass') BY <2>1, <2>2 DEF JudgedSoFar
  <2>4. SoFar(text, File, pass', lineNum') = {} BY <2>1 DEF SoFar
  <2>5. /\ ToSet(found') = ToSet(found) \cup {} /\ IsASequence(found') BY <2>1, <2>2
  <2>6. QED BY <2>1, <2>2, <2>3, <2>4, <2>5, SameFileStep
<1>3. CASE ScanDotenv
  <2> DEFINE Added == OfDotenv(text, File)
  <2>1. /\ ~Done /\ pass = "dotenv" /\ pass' = "compose"
        /\ UNCHANGED <<given, fileNum, lineNum, skipped>>
    BY <1>3 DEF ScanDotenv
  <2>2. /\ handled = {} /\ IsASequence(found) /\ lineNum \in Nat \ {0} /\ lineNum = 1
    BY <2>1 DEF PassInv, JudgedSoFar
  <2>3. /\ handled' = DotenvLines(text, File) /\ IsASequence(found')
        /\ ToSet(found') = ToSet(found) \cup Added
    <3>1. CASE IsDotenvFile(File)
      <4>1. JudgeEntries(EntryLines({"environment", "elsewhere"}), "dotenv-secret", "ZS-SEC-031",
                         "high")
        BY <1>3, <3>1 DEF ScanDotenv
      <4>2. DotenvLines(text, File) = KeyLines(text, File, {"environment", "elsewhere"})
        BY <3>1 DEF DotenvLines
      <4>3. /\ handled' = handled \cup DotenvLines(text, File) /\ IsASequence(found')
            /\ ToSet(found') = ToSet(found)
                 \cup OfEntries(text, File, DotenvLines(text, File), "dotenv-secret",
                                "ZS-SEC-031", "high")
        BY <2>1, <4>1, <4>2, EntriesAreJudged
      <4>4. QED BY <2>2, <4>3 DEF OfDotenv
    <3>2. CASE ~IsDotenvFile(File)
      <4>1. UNCHANGED <<handled, found>> BY <1>3, <3>2 DEF ScanDotenv
      <4>2. DotenvLines(text, File) = {} /\ Added = {}
        BY <3>2 DEF DotenvLines, OfDotenv, OfEntries
      <4>3. QED BY <2>2, <4>1, <4>2
    <3>3. QED BY <3>1, <3>2
  <2>4. handled' = JudgedSoFar(text, File, pass') BY <2>1, <2>3 DEF JudgedSoFar
  <2>5. SoFar(text, File, pass', lineNum') = Added BY <2>1 DEF SoFar
  <2>6. Added \subseteq OfFile(text, File) BY DEF OfFile
  <2> HIDE DEF Added
  <2>7. SoFar(text, File, pass', lineNum') \subseteq ToSet(found') BY <2>3, <2>5
  <2>8. QED BY <2>1, <2>2, <2>3, <2>4, <2>6, <2>7, SameFileStep
<1>4. CASE ScanCompose
  <2> DEFINE Added == OfCompose(text, File)
  <2>1. /\ ~Done /\ pass = "compose" /\ pass' = "lines"
        /\ UNCHANGED <<given, fileNum, lineNum, skipped>>
    BY <1>4 DEF ScanCompose
  <2>2. /\ handled = DotenvLines(text, File) /\ IsASequence(found)
        /\ lineNum \in Nat \ {0} /\ lineNum = 1
        /\ OfDotenv(text, File) \subseteq ToSet(found)
    BY <2>1 DEF PassInv, JudgedSoFar, SoFar
  <2>3. /\ handled' = DotenvLines(text, File) \cup ComposeLines(text, File)
        /\ IsASequence(found')
        /\ ToSet(found') = ToSet(found) \cup Added
    <3>1. CASE IsComposeFile(File) /\ WellFormed[File]
      <4>1. JudgeEntries(EntryLines({"environment"}), "compose-env-secret", "ZS-SEC-032", "medium")
        BY <1>4, <3>1 DEF ScanCompose
      <4>2. ComposeLines(text, File) = KeyLines(text, File, {"environment"})
        BY <3>1 DEF ComposeLines
      <4>3. /\ handled' = handled \cup ComposeLines(text, File) /\ IsASequence(found')
            /\ ToSet(found') = ToSet(found)
                 \cup OfEntries(text, File, ComposeLines(text, File), "compose-env-secret",
                                "ZS-SEC-032", "medium")
        BY <2>1, <4>1, <4>2, EntriesAreJudged
      <4>4. QED BY <2>2, <4>3 DEF OfCompose
    <3>2. CASE ~(IsComposeFile(File) /\ WellFormed[File])
      <4>1. UNCHANGED <<handled, found>> BY <1>4, <3>2 DEF ScanCompose
      <4>2. ComposeLines(text, File) = {} /\ Added = {}
        BY <3>2 DEF ComposeLines, OfCompose, OfEntries
      <4>3. QED BY <2>2, <4>1, <4>2
    <3>3. QED BY <3>1, <3>2
  <2>4. handled' = JudgedSoFar(text, File, pass') BY <2>1, <2>3 DEF JudgedSoFar
  <2>5. SoFar(text, File, pass', lineNum') = OfDotenv(text, File) \cup Added
    <3>1. Len(text[File]) \in Nat /\ DOMAIN text[File] = 1..Len(text[File])
      BY <2>1, SourcesAreSlices
    <3>2. {m \in DOMAIN text[File] : m < 1} = {} BY <3>1
    <3>3. OfLines(text, File, {m \in DOMAIN text[File] : m < lineNum'}) = {}
      BY <2>1, <2>2, <3>2 DEF OfLines
    <3>4. QED BY <2>1, <3>3 DEF SoFar
  <2>6. Added \subseteq OfFile(text, File) BY DEF OfFile
  <2> HIDE DEF Added
  <2>7. SoFar(text, File, pass', lineNum') \subseteq ToSet(found') BY <2>2, <2>3, <2>5
  <2>8. QED BY <2>1, <2>2, <2>3, <2>4, <2>6, <2>7, SameFileStep
<1>5. CASE ScanLine
  <2> DEFINE Added == OfLine(text, File, lineNum)
  <2>1. /\ ~Done /\ pass = "lines" /\ lineNum' = lineNum + 1
        /\ UNCHANGED <<given, fileNum, pass, handled, skipped>>
    BY <1>5 DEF ScanLine
  <2>2. /\ lineNum \in DOMAIN Lines /\ IsASequence(found')
        /\ ToSet(found') = ToSet(found) \cup Added
    BY <1>5, LineIsTried
  <2>3. lineNum \in Nat \ {0} /\ handled = JudgedSoFar(text, File, pass)
          /\ SoFar(text, File, pass, lineNum) \subseteq ToSet(found)
    BY <2>1 DEF PassInv
  <2>4. Added \subseteq OfFile(text, File)
    BY <2>2 DEF OfFile, OfLines, Lines
  <2>5. SoFar(text, File, pass', lineNum') \subseteq SoFar(text, File, pass, lineNum) \cup Added
    <3>1. Len(text[File]) \in Nat /\ DOMAIN text[File] = 1..Len(text[File])
      BY <2>1, SourcesAreSlices
    <3>2. \A m \in DOMAIN text[File] : m < lineNum' => m < lineNum \/ m = lineNum
      BY <2>1, <2>3, <3>1
    <3>3. OfLines(text, File, {m \in DOMAIN text[File] : m < lineNum'})
            \subseteq OfLines(text, File, {m \in DOMAIN text[File] : m < lineNum}) \cup Added
      BY <3>2 DEF OfLines
    <3>4. QED BY <2>1, <3>3 DEF SoFar
  <2> HIDE DEF Added
  <2>6. SoFar(text, File, pass', lineNum') \subseteq ToSet(found') BY <2>2, <2>3, <2>5
  <2>7. lineNum' \in Nat \ {0} /\ handled' = JudgedSoFar(text, File, pass')
    BY <2>1, <2>3
  <2>8. QED BY <2>1, <2>2, <2>4, <2>6, <2>7, SameFileStep
<1>6. CASE FinishFile
  <2>1. /\ ~Done /\ pass = "lines" /\ lineNum > Len(Lines) /\ NextFile
        /\ UNCHANGED <<given, found, skipped>>
    BY <1>6 DEF FinishFile
  <2>2. Len(text[File]) \in Nat /\ DOMAIN text[File] = 1..Len(text[File])
    BY <2>1, SourcesAreSlices
  <2>3. lineNum \in Nat /\ SoFar(text, File, pass, lineNum) \subseteq ToSet(found)
    BY <2>1 DEF PassInv
  <2>4. {m \in DOMAIN text[File] : m < lineNum} = DOMAIN text[File]
    BY <2>1, <2>2, <2>3 DEF Lines
  <2>5. SoFar(text, File, pass, lineNum) = OfFile(text, File)
    BY <2>1, <2>4 DEF SoFar, OfFile
  <2>6. QED BY <2>1, <2>3, <2>5, NextFileStep
<1>7. CASE UNCHANGED secretsVars
  <2>1. /\ scanned' = scanned /\ text' = text /\ fileNum' = fileNum /\ pass' = pass
        /\ lineNum' = lineNum /\ handled' = handled /\ found' = found /\ skipped' = skipped
    BY <1>7 DEF secretsVars, given
  <2>2. Accepted' = Accepted BY <2>1 DEF Accepted
  <2>3. File' = File /\ Done' = Done BY <2>1, <2>2 DEF File, Done
  <2>4. QED BY <2>1, <2>2, <2>3 DEF PassInv
<1>8. QED BY <1>1, <1>2, <1>3, <1>4, <1>5, <1>6, <1>7 DEF Next

------------------------------------------------------------------------------
(* When the scan is done.                                                     *)

\* The rules with something to report of a line when nobody silences them.
RulesSeen(t, f, n) ==
  {r \in {"ZS-SEC-031"} : n \in DotenvLines(t, f) /\ CredentialValueOK(t[f][n].entry.value)}
    \cup {r \in {"ZS-SEC-032"} : n \in ComposeLines(t, f) /\ CredentialValueOK(t[f][n].entry.value)}
    \cup {d.rule : d \in {d \in ToSet(DetectorTable) : Sees(t, f, d, n)}}

\* What has been found in a file that was read is what it has to report.
LEMMA ReadIsReported ==
  ASSUME PassInv, Done, NEW f \in Read
  PROVE  f \in DOMAIN Base /\ FoundIn(f) = OfFile(text, f)
<1>1. Len(Accepted) \in Nat /\ DOMAIN Accepted = 1..Len(Accepted)
        /\ ToSet(Accepted) \subseteq DOMAIN Base
  BY SourcesAreSlices
<1>2. PICK k \in 1..Len(Accepted) : f = Accepted[k] BY <1>1 DEF Read, ToSet
<1>3. f \notin skipped /\ f \in ToSet(Accepted) BY DEF Read
<1>4. k < fileNum
  <2>1. fileNum \in Nat BY DEF PassInv
  <2>2. fileNum > Len(Accepted) BY DEF Done
  <2>3. QED BY <1>1, <2>1, <2>2
<1>5. OfFile(text, f) \subseteq ToSet(found) BY <1>2, <1>3, <1>4 DEF PassInv
<1>6. \A e \in ToSet(found) : e \in OfFile(text, e.file) BY DEF PassInv
<1>7. FoundIn(f) = {e \in ToSet(found) : e.file = f} BY DEF FoundIn, ToSet
<1>8. \A e \in OfFile(text, f) : e.file = f BY OfItsFile
<1>9. QED BY <1>1, <1>3, <1>5, <1>6, <1>7, <1>8

\* The rules reported at a line are those with something to report that
\* nobody silences there.
LEMMA RulesReported ==
  ASSUME PassInv, Done, NEW f \in Read, NEW n \in DOMAIN text[f]
  PROVE  RulesAt(f, n) = {r \in RulesSeen(text, f, n) : ~Silenced(text, f, n, r)}
<1>1. FoundIn(f) = OfFile(text, f) BY ReadIsReported
<1>2. \A e \in OfDotenv(text, f) :
        e.line = n => /\ e.rule \in RulesSeen(text, f, n)
                      /\ ~Silenced(text, f, n, e.rule)
  BY DEF OfDotenv, OfEntries, OfEntry, FindingOf, RulesSeen
<1>3. \A e \in OfCompose(text, f) :
        e.line = n => /\ e.rule \in RulesSeen(text, f, n)
                      /\ ~Silenced(text, f, n, e.rule)
  BY DEF OfCompose, OfEntries, OfEntry, FindingOf, RulesSeen
<1>4. \A e \in OfLines(text, f, DOMAIN text[f]) :
        e.line = n => /\ e.rule \in RulesSeen(text, f, n)
                      /\ ~Silenced(text, f, n, e.rule)
  BY DEF OfLines, OfLine, OfDetector, FindingOf, RulesSeen, Fires
<1>5. ASSUME NEW r \in RulesSeen(text, f, n), ~Silenced(text, f, n, r)
      PROVE  \E e \in OfFile(text, f) : e.line = n /\ e.rule = r
  <2>1. CASE r = "ZS-SEC-031" /\ n \in DotenvLines(text, f)
               /\ CredentialValueOK(text[f][n].entry.value)
    <3> DEFINE e == OfEntry(text, f, n, "dotenv-secret", "ZS-SEC-031", "high")
    <3>1. e \in OfDotenv(text, f) BY <1>5, <2>1 DEF OfDotenv, OfEntries
    <3>2. e.line = n /\ e.rule = r BY <2>1 DEF OfEntry, FindingOf
    <3>3. QED BY <3>1, <3>2 DEF OfFile
  <2>2. CASE r = "ZS-SEC-032" /\ n \in ComposeLines(text, f)
               /\ CredentialValueOK(text[f][n].entry.value)
    <3> DEFINE e == OfEntry(text, f, n, "compose-env-secret", "ZS-SEC-032", "medium")
    <3>1. e \in OfCompose(text, f) BY <1>5, <2>2 DEF OfCompose, OfEntries
    <3>2. e.line = n /\ e.rule = r BY <2>2 DEF OfEntry, FindingOf
    <3>3. QED BY <3>1, <3>2 DEF OfFile
  <2>3. ASSUME NEW d \in ToSet(DetectorTable), Sees(text, f, d, n), r = d.rule
        PROVE  \E e \in OfFile(text, f) : e.line = n /\ e.rule = r
    <3> DEFINE e == OfDetector(text, f, d, n)
    <3>1. e \in OfLine(text, f, n) BY <1>5, <2>3 DEF OfLine, Fires
    <3>2. e.line = n /\ e.rule = r BY <2>3 DEF OfDetector, FindingOf
    <3>3. e \in OfFile(text, f) BY <3>1 DEF OfFile, OfLines
    <3>4. QED BY <3>2, <3>3
  <2>4. \/ r = "ZS-SEC-031" /\ n \in DotenvLines(text, f)
             /\ CredentialValueOK(text[f][n].entry.value)
        \/ r = "ZS-SEC-032" /\ n \in ComposeLines(text, f)
             /\ CredentialValueOK(text[f][n].entry.value)
        \/ \E d \in ToSet(DetectorTable) : Sees(text, f, d, n) /\ r = d.rule
    BY <1>5 DEF RulesSeen
  <2>5. QED BY <2>1, <2>2, <2>3, <2>4
<1>6. \A e \in OfFile(text, f) :
        e.line = n => e.rule \in RulesSeen(text, f, n) /\ ~Silenced(text, f, n, e.rule)
  BY <1>2, <1>3, <1>4 DEF OfFile
<1>7. QED BY <1>1, <1>5, <1>6 DEF RulesAt

------------------------------------------------------------------------------
(* Annotations.                                                               *)

\* The place looked for is a place of the slice, or 0.
LEMMA PlaceLookedFor ==
  ASSUME NEW T, T \subseteq Nat \ {0}, NEW n, n = IF T # {} THEN Min(T) ELSE 0
  PROVE  n \in Nat /\ (n # 0 => n \in T)
<1>1. CASE T = {} BY <1>1
<1>2. CASE T # {}
  <2>1. \E x \in T : \A y \in T : x <= y BY <1>2, LeastOf
  <2>2. Min(T) \in T BY <2>1 DEF Min
  <2>3. QED BY <1>2, <2>2
<1>3. QED BY <1>1, <1>2

\* A line that silences a rule starts a comment and has a marker.
LEMMA SilencersAreMarked ==
  ASSUME NEW words, IsASlice(words), NEW rule, LineSuppresses(words, rule)
  PROVE  /\ \E w \in ToSet(words) : w \in Markers
         /\ ToSet(words) \cap CommentStarters # {}
<1> DEFINE T == {i \in 1..Len(words) : words[i] \in CommentStarters}
           n == IF T # {} THEN Min(T) ELSE 0
           comment == CommentPart(words)
<1>1. Len(words) \in Nat /\ DOMAIN words = 1..Len(words) BY DEF IsASlice
<1>2. comment = IF n = 0 THEN <<>> ELSE SubSeq(words, n, Len(words))
  BY DEF CommentPart, SelectInSeq
<1>3. n \in Nat /\ (n # 0 => n \in T)
  <2>1. T \subseteq Nat \ {0} BY <1>1
  <2> HIDE DEF T
  <2>2. QED BY <2>1, PlaceLookedFor
<1>4. PICK m \in Markers : m \in ToSet(comment) BY DEF LineSuppresses
<1>5. n # 0
  <2>1. ToSet(<<>>) = {} BY DEF ToSet
  <2> HIDE DEF n, comment
  <2>2. QED BY <1>2, <1>4, <2>1
<1>6. n \in 1..Len(words) /\ words[n] \in CommentStarters BY <1>3, <1>5
<1> HIDE DEF T, n, comment
<1>7. comment = SubSeq(words, n, Len(words)) BY <1>2, <1>5
<1>8. /\ Len(comment) = Len(words) - n + 1
      /\ comment \in Seq(ToSet(words))
  <2>1. \A i \in n..Len(words) : words[i] \in ToSet(words) BY <1>1, <1>6 DEF ToSet
  <2>2. n \in Int /\ Len(words) \in Int /\ n <= Len(words) BY <1>1, <1>6
  <2>3. QED BY <1>7, <2>1, <2>2, SubSeqProperties
<1>9. m \in ToSet(words)
  <2>1. PICK i \in DOMAIN comment : comment[i] = m BY <1>4 DEF ToSet
  <2>2. DOMAIN comment = 1..Len(comment) /\ \A j \in 1..Len(comment) : comment[j] \in ToSet(words)
    BY <1>8, LenProperties
  <2>3. QED BY <2>1, <2>2
<1>10. words[n] \in ToSet(words) BY <1>1, <1>6 DEF ToSet
<1>11. QED BY <1>4, <1>6, <1>9, <1>10

\* A rule is silenced on a line by the line itself or by the one above.
LEMMA SilencedBy ==
  ASSUME PassInv, NEW f \in DOMAIN Base, NEW n \in DOMAIN text[f], NEW rule
  PROVE  Silenced(text, f, n, rule) <=> Annotated(f, n, rule)
<1>1. Len(text[f]) \in Nat /\ DOMAIN text[f] = 1..Len(text[f]) BY SourcesAreSlices
<1>2. n \in Nat /\ n > 0 BY <1>1
<1>3. n - 1..(IF n < n THEN n ELSE n) = {n - 1, n} BY <1>2
<1>4. DOMAIN WordsOf(text, f) = DOMAIN text[f]
        /\ \A m \in DOMAIN text[f] : WordsOf(text, f)[m] = text[f][m].words
  BY DEF WordsOf
<1>5. Suppressed(WordsOf(text, f), n, n, rule)
        <=> \E m \in {n - 1, n} :
              m \in DOMAIN text[f] /\ LineSuppresses(WordsOf(text, f)[m], rule)
  BY <1>2, <1>3, <1>4 DEF Suppressed
<1>6. QED BY <1>4, <1>5 DEF Silenced, Annotated

\* The words of a line are a slice.
LEMMA WordsAreSlices ==
  ASSUME PassInv, NEW f \in DOMAIN Base, NEW n \in DOMAIN text[f]
  PROVE  IsASlice(text[f][n].words)
BY SourcesAreSlices DEF IsALine

\* A file and its twin have the same to report, before any annotation.
LEMMA TwinsSeeTheSame ==
  ASSUME PassInv, NEW f \in DOMAIN Twin, NEW n \in DOMAIN text[f]
  PROVE  /\ n \in DOMAIN text[Twin[f]]
         /\ RulesSeen(text, f, n) = RulesSeen(text, Twin[f], n)
         /\ \A r : ~Annotated(Twin[f], n, r)
<1> DEFINE g == Twin[f]
<1>1. /\ f \in DOMAIN Base /\ g \in DOMAIN Base
      /\ IsDotenvFile(f) = IsDotenvFile(g)
      /\ IsComposeFile(f) = IsComposeFile(g) /\ WellFormed[f] = WellFormed[g]
      /\ DOMAIN text[f] = DOMAIN text[g]
      /\ \A m \in DOMAIN text[f] :
           /\ text[f][m].matches = text[g][m].matches /\ text[f][m].entry = text[g][m].entry
           /\ text[f][m].context = text[g][m].context
           /\ ToSet(text[g][m].words) \cap CommentStarters = {}
  BY TwinAssumption DEF PassInv
<1> HIDE DEF g
<1>2. \A places : KeyLines(text, f, places) = KeyLines(text, g, places) BY <1>1 DEF KeyLines
<1>3. DotenvLines(text, f) = DotenvLines(text, g) /\ ComposeLines(text, f) = ComposeLines(text, g)
  BY <1>1, <1>2 DEF DotenvLines, ComposeLines
<1>4. \A d : Sees(text, f, d, n) <=> Sees(text, g, d, n) BY <1>1, <1>3 DEF Sees
<1>5. RulesSeen(text, f, n) = RulesSeen(text, g, n) BY <1>1, <1>3, <1>4 DEF RulesSeen
<1>6. ASSUME NEW r, Annotated(g, n, r) PROVE FALSE
  <2>1. PICK m \in DOMAIN text[g] : LineSuppresses(text[g][m].words, r)
    BY <1>6 DEF Annotated
  <2>2. IsASlice(text[g][m].words) BY <1>1, WordsAreSlices
  <2>3. ToSet(text[g][m].words) \cap CommentStarters # {}
    BY <2>1, <2>2, SilencersAreMarked
  <2>4. QED BY <1>1, <2>3
<1>7. QED BY <1>1, <1>5, <1>6 DEF g

------------------------------------------------------------------------------
(* The theorems.                                                              *)

LEMMA PassHolds == Spec => []PassInv
<1>1. Init => PassInv BY PassStart
<1>2. PassInv /\ [Next]_secretsVars => PassInv' BY PassStep
<1>3. QED BY <1>1, <1>2, PTL DEF Spec

\* An annotation silences the rules it names on its own line and the next, in
\* the dotenv pass, the compose pass and every detector, and changes nothing
\* else that a file has to report.
THEOREM AnnotationsStayLocal == Spec => []MarkersAreLocal
<1>1. PassInv => MarkersAreLocal
  <2> SUFFICES ASSUME PassInv, Done, NEW f \in DOMAIN Twin \cap Read, Twin[f] \in Read,
                      NEW n \in DOMAIN text[f]
               PROVE  RulesAt(f, n) = {r \in RulesAt(Twin[f], n) : ~Annotated(f, n, r)}
    BY DEF MarkersAreLocal
  <2> DEFINE g == Twin[f]
  <2>1. f \in DOMAIN Base /\ g \in DOMAIN Base /\ f \in DOMAIN Twin /\ f \in Read BY ReadIsReported
  <2>2. /\ n \in DOMAIN text[g] /\ RulesSeen(text, f, n) = RulesSeen(text, g, n)
        /\ \A r : ~Annotated(g, n, r)
    BY TwinsSeeTheSame
  <2> HIDE DEF g
  <2>3. RulesAt(f, n) = {r \in RulesSeen(text, f, n) : ~Silenced(text, f, n, r)}
    BY <2>1, RulesReported
  <2>4. RulesAt(g, n) = {r \in RulesSeen(text, g, n) : ~Silenced(text, g, n, r)}
    <3>1. g \in Read BY DEF g
    <3>2. QED BY <2>2, <3>1, RulesReported
  <2>5. \A r : Silenced(text, f, n, r) <=> Annotated(f, n, r) BY <2>1, SilencedBy
  <2>6. \A r : ~Silenced(text, g, n, r) BY <2>1, <2>2, SilencedBy
  <2>7. QED BY <2>2, <2>3, <2>4, <2>5, <2>6 DEF g
<1>2. QED BY <1>1, PassHolds, PTL

\* The lines a structured pass judges are those it is responsible for.
LEMMA JudgedByAPass ==
  ASSUME PassInv, NEW f \in DOMAIN Base, NEW n \in DOMAIN text[f]
  PROVE  Judged(f, n) <=> n \in DotenvLines(text, f) \cup ComposeLines(text, f)
<1>1. text[f][n].entry.place \in {"environment", "elsewhere"} BY SourcesAreSlices DEF IsALine
<1>2. QED BY <1>1 DEF Judged, DotenvLines, ComposeLines, KeyLines

\* A line that nobody annotated and that holds a quoted literal of some entropy
\* is reported, whichever pass is responsible for it.
LEMMA LiveIsReported ==
  ASSUME PassInv, Done, NEW f \in Read, NEW n \in DOMAIN text[f],
         NEW v \in LiveValues(f, n), v.shape = "literal", v.entropic, v.quoted,
         \A w \in ToSet(text[f][n].words) : w \notin Markers,
         n > 1 => \A w \in ToSet(text[f][n - 1].words) : w \notin Markers
  PROVE  RulesAt(f, n) # {}
<1>1. f \in DOMAIN Base BY ReadIsReported
<1>2. ASSUME NEW r, Silenced(text, f, n, r) PROVE FALSE
  <2>1. PICK m \in {n - 1, n} \cap DOMAIN text[f] : LineSuppresses(text[f][m].words, r)
    BY <1>1, <1>2, SilencedBy DEF Annotated
  <2>2. \E w \in ToSet(text[f][m].words) : w \in Markers
    BY <1>1, <2>1, WordsAreSlices, SilencersAreMarked
  <2>3. m = n \/ (m = n - 1 /\ n > 1)
    <3>1. DOMAIN text[f] = 1..Len(text[f]) BY <1>1, SourcesAreSlices
    <3>2. QED BY <2>1, <3>1
  <2>4. QED BY <2>2, <2>3
<1>3. RulesAt(f, n) = RulesSeen(text, f, n) BY <1>2, RulesReported
<1>4. PlausibleValue(v) /\ CredentialValueOK(v) BY DEF PlausibleValue, CredentialValueOK
<1>5. CASE Judged(f, n)
  <2>1. v = text[f][n].entry.value BY <1>5 DEF LiveValues
  <2>2. n \in DotenvLines(text, f) \/ n \in ComposeLines(text, f) BY <1>1, <1>5, JudgedByAPass
  <2>3. QED BY <1>3, <1>4, <2>1, <2>2 DEF RulesSeen
<1>6. CASE ~Judged(f, n)
  <2>1. PICK id \in DOMAIN text[f][n].matches : v = text[f][n].matches[id]
    BY <1>6 DEF LiveValues
  <2>2. text[f][n].context = {} BY <1>6 DEF LiveValues
  <2>3. PICK d \in ToSet(DetectorTable) : id = d.id
    <3>1. DOMAIN text[f][n].matches \subseteq {d.id : d \in ToSet(DetectorTable)}
      BY <1>1, SourcesAreSlices DEF IsALine
    <3>2. QED BY <3>1
  <2>4. PlausibleSecret(v, text[f][n].context, Comparison \in d.flags)
    BY <1>4, <2>2 DEF PlausibleSecret
  <2>5. n \notin DotenvLines(text, f) \cup ComposeLines(text, f) BY <1>1, <1>6, JudgedByAPass
  <2>6. Sees(text, f, d, n) BY <2>1, <2>3, <2>4, <2>5 DEF Sees
  <2>7. QED BY <1>3, <2>6 DEF RulesSeen
<1>7. QED BY <1>5, <1>6

\* Nothing that stands in for a value is reported by what goes by syntax.
LEMMA NoReferenceIsReported ==
  ASSUME PassInv, Done, NEW f \in Read, NEW n \in DOMAIN text[f],
         NEW e \in FoundIn(f), e.line = n, e.value.shape \notin {"literal", "number", "tiny"}
  PROVE  \E d \in ToSet(DetectorTable) : d.id = e.detector /\ Generic \notin d.flags
<1>1. e \in OfFile(text, f) /\ ~PlausibleValue(e.value)
  BY ReadIsReported DEF PlausibleValue
<1>2. e \notin OfDotenv(text, f) \cup OfCompose(text, f)
  BY <1>1 DEF OfDotenv, OfCompose, OfEntries, OfEntry, FindingOf, CredentialValueOK
<1>3. PICK m \in DOMAIN text[f] : e \in OfLine(text, f, m)
  BY <1>1, <1>2 DEF OfFile, OfLines
<1>4. PICK d \in ToSet(DetectorTable) : Fires(text, f, d, m) /\ e = OfDetector(text, f, d, m)
  BY <1>3 DEF OfLine
<1>5. d.id = e.detector /\ e.value = text[f][m].matches[d.id]
  BY <1>4 DEF OfDetector, FindingOf
<1>6. Generic \in d.flags => PlausibleValue(e.value)
  BY <1>4, <1>5 DEF Fires, Sees, PlausibleSecret
<1>7. QED BY <1>1, <1>5, <1>6

\* Between the structured passes and the line detectors no credential is lost
\* and no reference comes back.
THEOREM CredentialsAreNotLost == Spec => []CredentialsAreReported
<1>1. PassInv => CredentialsAreReported
  BY LiveIsReported, NoReferenceIsReported DEF CredentialsAreReported
<1>2. QED BY <1>1, PassHolds, PTL
================================================================================
