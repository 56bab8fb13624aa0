-------------------------------- MODULE Matching --------------------------------
(***************************************************************************)
(* processFile past the caches: workers that share one rule index analyze  *)
(* a file, walk its tree once, offer every node to the rules the index     *)
(* holds for it, and build a finding of each match.  An HTML file goes     *)
(* through this once for itself and once for each of its scripts.          *)
(*                                                                         *)
(* What the walk of a unit (a file, or a script in it) matches does not    *)
(* depend on other files: the index is only read.                          *)
(*                                                                         *)
(* What a pattern asks of one node is the business of Filters; here it is  *)
(* given.                                                                  *)
(***************************************************************************)
EXTENDS Callees, Taint, Suppress

CONSTANTS
  Workers,
  Rules,              \* the loaded rules, in order
  Contents,           \* the contents the files may have
  EnableGraphs,       \* --enable-graphs
  Fits(_, _, _),      \* Fits(file, n, pattern): matchNode
  TaintedBy(_, _, _)  \* TaintedBy(file, n, filters): taintedIdentifierFor

ASSUME RulesAssumption ==
  /\ IsASlice(Rules)
  /\ \A r \in DOMAIN Rules : Has(Rules[r].match, "callee") =>
       IsASlice(Rules[r].match.callee) /\ Rules[r].match.callee # <<>>

ASSUME ContentsAssumption ==
  \A c \in Contents : IsASlice(c) /\ \A f \in DOMAIN c :
    /\ IsASlice(c[f].units) /\ (c[f].language # "unknown" => c[f].units # <<>>)
    /\ \A u \in DOMAIN c[f].units :
         LET unit == c[f].units[u]
         IN  IsATree(unit.tree) /\ \A name \in DOMAIN unit.aliases : IsASlice(unit.aliases[name])

VARIABLES
  content,   \* the files: [language, lines, units]; a unit, the first one the file
             \* itself, is [tree, first, language, aliases, browser]
  queue,     \* the files not yet taken
  index,     \* the RuleIndex
  worker,    \* worker[w]: [at, file, unit, node, analysis, matches, reported]
  findings   \* the findings of the files done with

matchingVars == <<content, queue, index, worker, findings>>

\* rebaseIR: a script's lines are those of the file it stands in.
Rebased(t, first) ==
  [n \in DOMAIN t |-> [t[n] EXCEPT !.line = @ + first - 1, !.endLine = @ + first - 1]]

Unit(w) ==
  LET unit == content[worker[w].file].units[worker[w].unit]
  IN  [tree |-> Rebased(unit.tree, unit.first), language |-> unit.language,
       aliases |-> unit.aliases, browser |-> unit.browser]

------------------------------------------------------------------------------
(* The rule index                                                             *)

Live(r) == Rules[r].lifecycle # "retired"
ByCallee(r) == Rules[r].match.kind = "call" /\ Has(Rules[r].match, "callee") /\ ~Rules[r].suffix
BySuffix(r) == Rules[r].match.kind = "call" /\ Has(Rules[r].match, "callee") /\ Rules[r].suffix

\* BuildIndex: each live rule is in exactly one bucket, in the order of the rules.
\* A suffix rule is found by the last segment of its callee.
BuildIndex ==
  LET bucket(rules) == Picked([r \in DOMAIN Rules |-> r], {r \in rules : Live(r)})
      callees == {Rules[r].match.callee : r \in {r \in DOMAIN Rules : ByCallee(r)}}
      lasts == {Last(Rules[r].match.callee) : r \in {r \in DOMAIN Rules : BySuffix(r)}}
      kinds == {Rules[r].match.kind : r \in DOMAIN Rules}
  IN  [byKind |-> [k \in kinds |->
          bucket({r \in DOMAIN Rules : Rules[r].match.kind = k /\ ~ByCallee(r) /\ ~BySuffix(r)})],
       byCallee |-> [c \in callees |->
          bucket({r \in DOMAIN Rules : ByCallee(r) /\ Rules[r].match.callee = c})],
       bySuffix |-> [s \in lasts |->
          bucket({r \in DOMAIN Rules : BySuffix(r) /\ Last(Rules[r].match.callee) = s})]]

In(buckets, key) == IF key \in DOMAIN buckets THEN buckets[key] ELSE <<>>

\* The callee of a call as written, and as its import names it.
Texts(file, n) == <<CalleeText(file.tree, n), CanonicalAlias(file, CalleeText(file.tree, n))>>

\* Of the rules in a bucket, those whose callee ends one of the texts.
Ending(bucket, texts) ==
  Picked(bucket, {i \in DOMAIN bucket :
                    \E text \in texts : IsSuffix(Rules[bucket[i]].match.callee, text)})

\* The rules offered node n, bucket by bucket.
Candidates(file, n) ==
  LET written == Texts(file, n)[1]
      canon == Texts(file, n)[2]
      last(text) == IF text = <<>> THEN "" ELSE Last(text)
  IN  In(index.byKind, file.tree[n].kind)
        \o (IF file.tree[n].kind # "call" THEN <<>>
            ELSE In(index.byCallee, written)
                   \o (IF canon = written THEN <<>> ELSE In(index.byCallee, canon))
                   \o Ending(In(index.bySuffix, last(written)), {written, canon})
                   \o (IF last(canon) = last(written) THEN <<>>
                       ELSE Ending(In(index.bySuffix, last(canon)), {written, canon})))

\* consider: may rule r report node n, and does it match?
Considered(file, n, r, reported) ==
  /\ Rules[r].language = file.language
  /\ ~(file.browser /\ "browser" \in Rules[r].skipContexts)
  /\ ~(Rules[r].oncePerFile /\ r \in reported)
  /\ Fits(file, n, Rules[r].match)

------------------------------------------------------------------------------
(* What a worker does                                                         *)

NoFile == [at |-> "idle", file |-> 0, unit |-> 0, node |-> 0, analysis |-> <<>>,
           matches |-> <<>>, reported |-> {}]

Init ==
  /\ content \in Contents
  /\ queue = [f \in DOMAIN content |-> f]
  /\ index = BuildIndex
  /\ worker = [w \in Workers |-> NoFile]
  /\ findings = <<>>

\* A file in no known language, or one that does not parse, has no findings.
Skipped(f) == content[f].language = "unknown" \/ content[f].units[1].tree = <<>>
TakeFile(w) ==
  /\ worker[w].at = "idle" /\ queue # <<>>
  /\ queue' = Tail(queue)
  /\ worker' = IF Skipped(Head(queue)) THEN worker
               ELSE [worker EXCEPT ![w] = [NoFile EXCEPT !.at = "analyze", !.file = Head(queue), !.unit = 1]]
  /\ UNCHANGED <<content, index, findings>>

AnalyzeUnit(w) ==
  /\ worker[w].at = "analyze"
  /\ worker' = [worker EXCEPT ![w].at = "match", ![w].node = Root, ![w].matches = <<>>, ![w].reported = {},
       ![w].analysis = Analyze(Unit(w).tree, Unit(w).language, EnableGraphs)]
  /\ UNCHANGED <<content, queue, index, findings>>

\* What the rules are matched against: a unit with the verdicts on its names.
Analyzed(w) ==
  LET unit == Unit(w)
  IN  [tree |-> unit.tree, language |-> unit.language, aliases |-> unit.aliases, browser |-> unit.browser,
       tainted |-> worker[w].analysis.tainted, weak |-> worker[w].analysis.weak]

\* The candidates in turn: one that is reported once per file counts where it
\* stands first.
Visited(w, candidates) ==
  LET file == Analyzed(w)
      n == worker[w].node
      matched == Picked(candidates, {i \in DOMAIN candidates :
        /\ Considered(file, n, candidates[i], worker[w].reported)
        /\ Rules[candidates[i]].oncePerFile => \A j \in 1..i - 1 : candidates[j] # candidates[i]})
      found == [i \in DOMAIN matched |->
        [rule |-> matched[i], node |-> n, tainted |-> TaintedBy(file, n, Rules[matched[i]].match.filters)]]
  IN  [worker[w] EXCEPT !.node = n + 1, !.matches = @ \o found,
         !.reported = @ \cup {r \in ToSet(matched) : Rules[r].oncePerFile}]

\* Mutant of VisitNode: the candidates of a call are gathered in the array of
\* the index that holds those of its kind.
VisitNodeInIndex(w) ==
  LET file == Analyzed(w)
      n == worker[w].node
      gathered == Candidates(file, n)
      kept == SubSeq(gathered, Len(gathered) + 1 - Len(In(index.byKind, file.tree[n].kind)), Len(gathered))
  IN  /\ worker[w].at = "match" /\ n \in DOMAIN file.tree
      /\ worker' = [worker EXCEPT ![w] = Visited(w, gathered)]
      /\ index' = IF file.tree[n].kind \in DOMAIN index.byKind
                  THEN [index EXCEPT !.byKind[file.tree[n].kind] = kept] ELSE index
      /\ UNCHANGED <<content, queue, findings>>

\* Match: the next node of the walk.
VisitNode(w) ==
  /\ worker[w].at = "match" /\ worker[w].node \in DOMAIN Unit(w).tree
  /\ worker' = [worker EXCEPT ![w] = Visited(w, Candidates(Analyzed(w), worker[w].node))]
  /\ UNCHANGED <<content, queue, index, findings>>

\* BuildFinding: the lines are those of the whole file.
Finding(f, unit, analysis, m) ==
  LET node == unit.tree[m.node]
      snippet == IF node.text # "" THEN <<node.text>>
                 ELSE SubSeq(content[f].lines, node.line, node.endLine)
      named == Len(m.tainted) = 1 /\ m.tainted[1] \in DOMAIN analysis.paths
  IN  [file |-> f, rule |-> Rules[m.rule].id, line |-> node.line, endLine |-> node.endLine,
       fingerprint |-> <<Rules[m.rule].id, EnclosingSymbolName(unit.tree, node.line), snippet>>,
       source |-> m.tainted,
       sink |-> IF Has(Rules[m.rule].match, "callee") THEN Rules[m.rule].match.callee ELSE node.lhs,
       reason |-> IF named THEN analysis.reasons[m.tainted[1]] ELSE NoReason,
       path |-> IF named THEN analysis.paths[m.tainted[1]] ELSE <<>>]

\* The walk is over: the findings of a file, less those its comments suppress;
\* then its scripts, each analyzed on its own, with all their findings.
EndUnit(w) ==
  LET f == worker[w].file
      next == {u \in DOMAIN content[f].units : u > worker[w].unit /\ content[f].units[u].tree # <<>>}
      built == [i \in DOMAIN worker[w].matches |->
                  Finding(f, Unit(w), worker[w].analysis, worker[w].matches[i])]
      kept == SelectSeq(built, LAMBDA b :
                worker[w].unit = 1 => ~Suppressed(content[f].lines, b.line, b.endLine, b.rule))
  IN  /\ worker[w].at = "match" /\ worker[w].node \notin DOMAIN Unit(w).tree
      /\ findings' = findings \o kept
      /\ worker' = [worker EXCEPT ![w] =
           IF next = {} THEN NoFile ELSE [NoFile EXCEPT !.at = "analyze", !.file = f, !.unit = Min(next)]]
      /\ UNCHANGED <<content, queue, index>>

Next == \E w \in Workers : TakeFile(w) \/ AnalyzeUnit(w) \/ VisitNode(w) \/ EndUnit(w)
Spec == Init /\ [][Next]_matchingVars

------------------------------------------------------------------------------
(* Properties *)

JustAnalyzed(w) == worker[w].at = "match" /\ worker[w].node = Root
Walked(w) == worker[w].at = "match" /\ worker[w].node \notin DOMAIN Unit(w).tree

\* Where rule r applies and fits, in the part of a tree before node k: what its
\* bucket stands for is asked of it here.
Named(file, n, r) ==
  \/ ~ByCallee(r) /\ ~BySuffix(r)
  \/ ByCallee(r) /\ Rules[r].match.callee \in ToSet(Texts(file, n))
  \/ BySuffix(r) /\ \E text \in ToSet(Texts(file, n)) : IsSuffix(Rules[r].match.callee, text)
Applies(file, r) ==
  Live(r) /\ Rules[r].language = file.language /\ (file.browser => "browser" \notin Rules[r].skipContexts)
Hits(file, r, k) ==
  {n \in Of(file.tree, Rules[r].match.kind) :
     n < k /\ Applies(file, r) /\ Named(file, n, r) /\ Fits(file, n, Rules[r].match)}
Due(file, r, k) ==
  LET hits == Hits(file, r, k)
  IN  IF Rules[r].oncePerFile /\ hits # {} THEN {Min(hits)} ELSE hits

\* However the workers interleave and whichever bucket a rule is in, the walk of a
\* unit reports each live rule of its language at each node that it fits, once, and
\* a once-per-file rule at the first of them only (engine.go:155-172: appending to
\* a slice of the shared index once lost matches at random).
MatchIsExhaustive ==
  \A w \in {w \in Workers : Walked(w)} :
    LET ms == worker[w].matches
    IN  /\ \A r \in DOMAIN Rules :
             {ms[i].node : i \in {i \in DOMAIN ms : ms[i].rule = r}} = Due(Analyzed(w), r, worker[w].node)
        /\ \A i, j \in DOMAIN ms : ms[i].rule = ms[j].rule /\ ms[i].node = ms[j].node => i = j

\* The names that a source reaches by some chain of assignments, in any order: they
\* are in every set that such a chain does not leave.
FromSourceIn(t, names, n) ==
  \/ "source" \in t[n].rhs
  \/ ChildrenOf(t, n) # {} /\ NamesIn(t, Subtree(t, LastChild(t, n))) \cap names # {}
  \/ ChildrenOf(t, n) # {} /\ LET callee == SimpleCallee(t, LastChild(t, n)) IN
       callee \in Summarized(t) /\ Summary(t, callee).alwaysTainted
FromSource(t) ==
  LET closed(names) == \A n \in Of(t, "assignment") : FromSourceIn(t, names, n) => ToSet(t[n].lhs) \subseteq names
  IN  {v \in Variables(t) : \A names \in SUBSET Variables(t) : closed(names) => v \in names}

\* A name that is tainted and not weakly so, which is what require_real_source asks
\* for, got its value from a source that the file really has (taint.go:33-48).
StrongHasSource ==
  \A w \in {w \in Workers : JustAnalyzed(w)} :
    worker[w].analysis.tainted \ worker[w].analysis.weak \subseteq FromSource(Unit(w).tree)

\* The statement around a statement, and what may run right after it: in a loop
\* its test, in a function nothing.
Around(t, n) == Nearest(t, n, {"if", "for", "while", "try", "function", "class"})
Body(t, n) == {m \in DOMAIN t : t[m].kind \in {"block", "module"} /\ n \in Statements(t, m)}
After(t) ==
  LET after[n \in DOMAIN t] ==
        LET following == {s \in Statements(t, Max(Body(t, n))) : s > n}
            around == Around(t, n)
        IN  IF Body(t, n) = {} THEN {} ELSE IF following # {} THEN {Min(following)}
            ELSE IF around = 0 \/ t[around].kind = "function" THEN {}
            ELSE IF t[around].kind \in {"for", "while"} THEN {around}
            ELSE after[around]
  IN  after
Successors(t) ==
  LET after == After(t)
      entered(n) == {Min(Statements(t, b)) : b \in {b \in Blocks(t, n) : Statements(t, b) # {}}}
  IN  [n \in DOMAIN t |->
         CASE t[n].kind = "return" -> {}
           [] t[n].kind = "function" -> after[n]
           [] t[n].kind = "if" /\ Cardinality(Blocks(t, n)) >= 2 -> entered(n)
           [] OTHER -> entered(n) \cup after[n]]

LiveAt(t, successors, d) ==
  LET live[reached \in SUBSET DOMAIN t] ==
        LET passed == {d} \cup {n \in reached : ~(Defines(t, n) /\ t[n].lhs = t[d].lhs)}
            next == reached \cup UNION {successors[n] : n \in passed}
        IN  IF next = reached THEN reached ELSE live[next]
  IN  live[{}]

\* A definition that the graph lets into an assignment does reach it when the
\* program runs: along branches, loops and returns, and past no other definition
\* of the same name (graph.go:116-150, where an if with an else, a try and a
\* return must not fall through).
ReachingIsSound ==
  \A w \in {w \in Workers : JustAnalyzed(w) /\ EnableGraphs /\ Unit(w).language = "python"} :
    LET t == Unit(w).tree
        reaching == ReachingDefs(t)
        successors == Successors(t)
    IN  \A d \in {d \in Of(t, "assignment") : Defines(t, d)} :
          {n \in Of(t, "assignment") : d \in reaching[n]} \subseteq LiveAt(t, successors, d)

\* The path reported for a tainted name ends at the last assignment to it (the blank
\* one of several names is none), and each step of it refers to a name that the step
\* before assigns (taint.go:224-247).
PathsAreChains ==
  \A w \in {w \in Workers : JustAnalyzed(w)} :
    LET t == Unit(w).tree
        paths == worker[w].analysis.paths
        assigning(v) == {n \in Of(t, "assignment") : t[n].lhs # <<>> /\ v \in ToSet(LhsNames(t, n))}
        follows(m, n) ==
          \/ ToSet(t[m].lhs) \cap NamesIn(t, Subtree(t, LastChild(t, n))) # {}
          \/ t[n].augmented /\ ToSet(t[m].lhs) \cap ToSet(t[n].lhs) # {}
    IN  \A v \in DOMAIN paths : paths[v] # <<>> =>
          /\ Last(paths[v]) = Max(assigning(v))
          /\ \A i \in 2..Len(paths[v]) : follows(paths[v][i - 1], paths[v][i])
==============================================================================
