------------------------------- MODULE RuleEngine -------------------------------
(***************************************************************************)
(* Matching with the patterns of Filters: what Fits and TaintedBy stand    *)
(* for in it is MatchNode and TaintedIdentifier.                           *)
(***************************************************************************)
EXTENDS Matching, Filters

\* What an assignment assigns: the names that stand alone between the commas, or
\* all that are in its target, whatever the brackets and stars, attributes apart.
Alone(t) == [n \in Of(t, "assignment") |-> ToSet(t[n].lhs)]
InTarget(t) ==
  [n \in Of(t, "assignment") |->
     NamesIn(t, {m \in Subtree(t, n + 1) : \A a \in Ancestors(t, m) : a > n => t[a].kind # "attribute"})]

\* The names whose value may vary from run to run: parameters, loop variables, and
\* what is assigned from anything that is neither a literal nor a constant path.
RECURSIVE Varying(_, _, _)
Varying(t, assigned, names) ==
  LET loops == UNION {LoopTargets(t, n) : n \in Of(t, "for")}
      params == UNION {ToSet(t[n].params) : n \in Of(t, "function")}
      from(n) == Subtree(t, LastChild(t, n))
      varies(n) == \/ "source" \in t[n].rhs
                   \/ ChildrenOf(t, n) # {} /\ NamesIn(t, from(n)) \cap names # {}
      next == names \cup loops \cup params
                \cup UNION {assigned[n] : n \in {n \in Of(t, "assignment") : varies(n)}}
  IN  IF next = names THEN names ELSE Varying(t, assigned, next)

\* The names in the arguments that argument_not_constant takes for constants.
Folded(file) ==
  LET t == file.tree
      constants == ConstNames(file, {"__file__"})
      arguments == UNION {ToSet(ArgumentNodes(t, n)) : n \in Of(t, "call")}
  IN  UNION {NamesIn(t, Subtree(t, a)) : a \in {a \in arguments : ConstPath(file, a, constants)}}

\* An argument that is taken for a constant names nothing that a parameter, a loop
\* or a source may have a hand in through any chain of assignments, as long as each
\* name of the chain stands alone, or alone between two commas, on its left-hand side
\* (context.go:139-180).
FoldedArgumentsAreFixed ==
  \A w \in {w \in Workers : JustAnalyzed(w)} :
    LET t == Analyzed(w).tree IN Folded(Analyzed(w)) \cap Varying(t, Alone(t), {}) = {}

\* context.go:139-142, of index: "every other way a name can be bound (parameter, loop
\* target, tuple unpacking, augmented assignment) marks it as never constant, so
\* folding stays conservative".  A bracketed or starred pattern unpacks a tuple too.
UnpackedNamesVary ==
  \A w \in {w \in Workers : JustAnalyzed(w)} :
    LET t == Analyzed(w).tree IN Folded(Analyzed(w)) \cap Varying(t, InTarget(t), {}) = {}
================================================================================
