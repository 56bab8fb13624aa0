------------------------------ MODULE FreshScan ------------------------------
(***************************************************************************)
(* What one SAST pass over a tree promises, whatever is cached.            *)
(*                                                                         *)
(* There is no cache here, only a word on what the pass remembers.  With   *)
(* no memory every file is reported as a cold run of this very engine,     *)
(* with this rule set and these flags, reports the bytes that were read.   *)
(* A memory of its own may in addition lose what it reports, confuse files *)
(* of the same bytes, and recall what was found under another graph flag.  *)
(* A foreign memory recalls what some build found in the same bytes.       *)
(* ScanCache, which has a disk, is shown to implement this specification.  *)
(*                                                                         *)
(* Findings are not computed.  They are the record of everything they are  *)
(* a function of: the bytes, the grammar they were parsed with, the engine *)
(* version, the rule set and the --enable-graphs flag.                     *)
(***************************************************************************)
CONSTANTS
  Files,       \* the paths under the scan root
  Contents,    \* the byte strings a file may hold
  MayHold,     \* MayHold[f]: the contents file f may hold
  LangOf,      \* LangOf[f][c]: the language detected for f holding c, or Unknown
  Metas,       \* cache.Meta values: one per binary and rule set that scans
  GraphModes,  \* the values of --enable-graphs the scans are run with
  Unknown,     \* core.LangUnknown
  NoContent,   \* nothing has been read from the file
  NoScan,      \* no scan is running
  Nothing,     \* nil findings
  Failed,      \* the file was not analysed; a diagnostic says so
  Garbage      \* findings no engine and rule set computed

VARIABLES
  source,      \* source[f]: the bytes on disk
  config,      \* the running scan's Meta and flags, or NoScan
  task,        \* task[f]: what the scan has done with f
  memory       \* "none", "own": of this engine and rule set, or "foreign"

vars == <<source, config, task, memory>>

Configs == [meta : Metas, graphs : GraphModes]

\* What sast.processFile computes on a cold run from content c, parsed as l.
Fresh(c, l, k) ==
  [content |-> c, lang |-> l,
   engine  |-> k.meta.engine, rules |-> k.meta.rules, graphs |-> k.graphs]

\* The languages of the files that may hold c, whose trees are one cache entry.
LanguagesOf(c) == {LangOf[f][c] : f \in {g \in Files : c \in MayHold[g]}} \ {Unknown}

\* What builds of metas ms may have found in c, for any file that holds it.
Served(c, ms) ==
  {Fresh(c, l, k) : l \in LanguagesOf(c), k \in [meta : ms, graphs : GraphModes]}

\* The outcomes a scan may report for file f once it has read c.  A file of
\* no known language has no findings; an unparsable one has a diagnostic; one
\* whose findings were found and then lost has neither.
Outcomes(f, c) ==
  IF LangOf[f][c] = Unknown THEN {Nothing}
  ELSE {Failed} \cup
    CASE memory = "none"    -> {Fresh(c, LangOf[f][c], config)}
      [] memory = "own"     -> Served(c, {config.meta}) \cup {Nothing}
      [] memory = "foreign" -> Served(c, Metas) \cup {Garbage, Nothing}

Untouched == [at |-> "todo", content |-> NoContent, out |-> Nothing]

Init ==
  /\ source \in {s \in [Files -> Contents] : \A f \in Files : s[f] \in MayHold[f]}
  /\ config = NoScan
  /\ task = [f \in Files |-> Untouched]
  /\ memory = "none"

Begin(k) ==
  /\ config = NoScan
  /\ config' = k
  /\ UNCHANGED <<source, task, memory>>

\* A pass that is to remember says so before it reads its first file.
Remember ==
  /\ config # NoScan
  /\ memory = "none" /\ task = [f \in Files |-> Untouched]
  /\ memory' \in {"own", "foreign"}
  /\ UNCHANGED <<source, config, task>>

\* The bytes are read once, and everything reported is about those bytes.
Read(f) ==
  /\ config # NoScan
  /\ task[f].at = "todo"
  /\ task' = [task EXCEPT ![f] = [at |-> "read", content |-> source[f], out |-> Nothing]]
  /\ UNCHANGED <<source, config, memory>>

Done(f, o) == task' = [task EXCEPT ![f] = [at |-> "done", content |-> task[f].content, out |-> o]]

\* A file that cannot be read is passed over without a word.
PassOver(f) ==
  /\ config # NoScan
  /\ task[f].at = "todo"
  /\ Done(f, Nothing)
  /\ UNCHANGED <<source, config, memory>>

Report(f) ==
  /\ task[f].at = "read"
  /\ \E o \in Outcomes(f, task[f].content) : Done(f, o)
  /\ UNCHANGED <<source, config, memory>>

\* The scan ends: complete, past its deadline, or killed.
Stop ==
  /\ config # NoScan
  /\ config' = NoScan
  /\ task' = [f \in Files |-> Untouched]
  /\ memory' = "none"
  /\ UNCHANGED source

Edit(f) ==
  /\ \E c \in MayHold[f] : source' = [source EXCEPT ![f] = c]
  /\ UNCHANGED <<config, task, memory>>

Next ==
  \/ \E k \in Configs : Begin(k)
  \/ Remember
  \/ \E f \in Files : Read(f) \/ PassOver(f) \/ Report(f) \/ Edit(f)
  \/ Stop

Spec == Init /\ [][Next]_vars
==============================================================================
