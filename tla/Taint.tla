---------------------------------- MODULE Taint ----------------------------------
(***************************************************************************)
(* BuildContext: parameters are seeded as weakly tainted, then every       *)
(* assignment, in source order, overwrites the verdict on what it assigns. *)
(***************************************************************************)
EXTENDS FlowGraph, Symbols

NoReason == <<"none", "">>

\* The returns of a function itself, not of the functions within it.
Returns(t, fn) == {n \in Descendants(t, fn) : t[n].kind = "return" /\ EnclosingFunction(t, n) = fn}

\* A function's summary; the last function of a name counts.
Summary(t, name) ==
  LET fn == Max({n \in Of(t, "function") : NameOf(t, n) = name})
  IN  [alwaysTainted |-> \E n \in Returns(t, fn) : "source" \in t[n].rhs,
       passesThroughParam |-> \E n \in Returns(t, fn) : t[n].value \in ToSet(t[fn].params)]
Summarized(t) == {NameOf(t, n) : n \in Of(t, "function")} \ {""}

\* The first tainted identifier of the right-hand side, or "".
RhsReference(t, n, tainted) ==
  LET refs == IF ChildrenOf(t, n) = {} THEN {}
              ELSE {m \in Identifiers(t, Subtree(t, LastChild(t, n))) : t[m].text \in tainted}
  IN  IF refs = {} THEN "" ELSE t[Min(refs)].text

\* simpleCalleeName
SimpleCallee(t, call) ==
  LET heads == {m \in ChildrenOf(t, call) : t[m].kind \in {"identifier", "attribute"}}
  IN  IF heads = {} \/ t[Min(heads)].kind = "attribute" THEN "" ELSE t[Min(heads)].text

AnyCallArgTainted(t, call, tainted) ==
  \E m \in ChildrenOf(t, call) \ {call + 1} : NamesIn(t, Subtree(t, m)) \cap tainted # {}

\* Is the right-hand side a call of a function of this file known to taint?
TaintedViaSummary(t, n, tainted) ==
  ChildrenOf(t, n) # {} /\
    LET call == LastChild(t, n)
        name == SimpleCallee(t, call)
    IN  /\ t[call].kind = "call" /\ name \in Summarized(t)
        /\ \E sym \in Resolve(t, name, ScopeAt(t, t[n].line)) : sym.kind = "function"
        /\ \/ Summary(t, name).alwaysTainted
           \/ Summary(t, name).passesThroughParam /\ AnyCallArgTainted(t, call, tainted)

\* assignmentTaintsLHS
Verdict(t, n, tainted) ==
  LET ref == RhsReference(t, n, tainted)
      is(tainting, why, from) == [tainted |-> tainting, reason |-> why, ref |-> from]
  IN  CASE "sanitizer" \in t[n].rhs -> is(FALSE, NoReason, "")
        [] "source" \in t[n].rhs /\ "sanitizer" \notin t[n].rhs -> is(TRUE, <<"source", "">>, "")
        [] t[n].rhs = {} /\ ref # "" -> is(TRUE, <<"propagated", ref>>, ref)
        [] t[n].rhs = {} /\ ref = "" /\ TaintedViaSummary(t, n, tainted) ->
             is(TRUE, <<"summary", SimpleCallee(t, LastChild(t, n))>>, "")
        [] OTHER -> is(FALSE, NoReason, "")

\* lhsNames: of several names, the blank one is none.
LhsNames(t, n) ==
  IF Len(t[n].lhs) = 1 THEN t[n].lhs
  ELSE Picked(t[n].lhs, {i \in DOMAIN t[n].lhs : t[n].lhs[i] \notin {"", "_"}})

\* extendPath: the path of what it refers to, if the graph confirms that one
\* definition of it reaches n; <<>> for none.
ExtendPath(t, reaching, n, ref, paths) ==
  IF ref = "" THEN <<n>>
  ELSE IF reaching[n] \cap Defs(t, <<ref>>) = {} THEN <<>>
  ELSE Append(paths[ref], n)

\* Mutant of AssignName: a name that stays tainted keeps the path it had.
AssignNameOldPath(t, graphs, reaching, n, verdict, r, v) ==
  LET inherits == t[n].augmented /\ ~verdict.tainted /\ v \in r.tainted
      ref == IF inherits THEN v ELSE verdict.ref
      weak == ref # "" /\ ref \in r.weak
      path == ExtendPath(t, reaching, n, ref, r.paths)
  IN  IF verdict.tainted \/ inherits
      THEN [tainted |-> r.tainted \cup {v},
            weak |-> IF weak THEN r.weak \cup {v} ELSE r.weak \ {v},
            reasons |-> [r.reasons EXCEPT ![v] = IF inherits THEN @ ELSE verdict.reason],
            paths |-> IF graphs /\ path # <<>> THEN [r.paths EXCEPT ![v] = path] ELSE r.paths]
      ELSE [tainted |-> r.tainted \ {v}, weak |-> r.weak \ {v},
            reasons |-> [r.reasons EXCEPT ![v] = NoReason],
            paths |-> [r.paths EXCEPT ![v] = <<>>]]

\* Mutant of AssignName: what is tainted is never weak.
AssignNameStrong(t, graphs, reaching, n, verdict, r, v) ==
  LET inherits == t[n].augmented /\ ~verdict.tainted /\ v \in r.tainted
      ref == IF inherits THEN v ELSE verdict.ref
      path == ExtendPath(t, reaching, n, ref, r.paths)
  IN  IF verdict.tainted \/ inherits
      THEN [tainted |-> r.tainted \cup {v},
            weak |-> r.weak \ {v},
            reasons |-> [r.reasons EXCEPT ![v] = IF inherits THEN @ ELSE verdict.reason],
            paths |-> IF graphs THEN [r.paths EXCEPT ![v] = path] ELSE r.paths]
      ELSE [tainted |-> r.tainted \ {v}, weak |-> r.weak \ {v},
            reasons |-> [r.reasons EXCEPT ![v] = NoReason],
            paths |-> [r.paths EXCEPT ![v] = <<>>]]

\* What assignment n makes of one of its names v, given the verdict on its
\* right-hand side: its weakness is that of what the verdict came from.
AssignName(t, graphs, reaching, n, verdict, r, v) ==
  LET inherits == t[n].augmented /\ ~verdict.tainted /\ v \in r.tainted
      ref == IF inherits THEN v ELSE verdict.ref
      weak == ref # "" /\ ref \in r.weak
      path == ExtendPath(t, reaching, n, ref, r.paths)
  IN  IF verdict.tainted \/ inherits
      THEN [tainted |-> r.tainted \cup {v},
            weak |-> IF weak THEN r.weak \cup {v} ELSE r.weak \ {v},
            reasons |-> [r.reasons EXCEPT ![v] = IF inherits THEN @ ELSE verdict.reason],
            paths |-> IF graphs THEN [r.paths EXCEPT ![v] = path] ELSE r.paths]
      ELSE [tainted |-> r.tainted \ {v}, weak |-> r.weak \ {v},
            reasons |-> [r.reasons EXCEPT ![v] = NoReason],
            paths |-> [r.paths EXCEPT ![v] = <<>>]]

\* An assignment, name by name; the verdict on its right-hand side comes first.
Assign(t, graphs, reaching, r, n) ==
  LET names == LhsNames(t, n)
      verdict == Verdict(t, n, r.tainted)
      after[k \in 0..Len(names)] ==
        IF k = 0 THEN r ELSE AssignName(t, graphs, reaching, n, verdict, after[k - 1], names[k])
  IN  after[Len(names)]

\* The names a file may have a verdict on.
Variables(t) ==
  UNION {ToSet(t[n].params) \cup ToSet(t[n].lhs) : n \in DOMAIN t}
Seeded(t) == (UNION {ToSet(t[n].params) : n \in Of(t, "function")}) \ {"", "_"}

Seeds(t) ==
  [tainted |-> Seeded(t), weak |-> Seeded(t),
   reasons |-> [v \in Variables(t) |-> IF v \in Seeded(t) THEN <<"parameter", v>> ELSE NoReason],
   paths |-> [v \in Variables(t) |-> <<>>]]

\* The walk over the assignments.
BuildContext(t, graphs, reaching) ==
  LET after[n \in 0..Len(t)] ==
        IF n = 0 THEN Seeds(t)
        ELSE IF Defines(t, n) THEN Assign(t, graphs, reaching, after[n - 1], n)
        ELSE after[n - 1]
  IN  after[Len(t)]

\* Analyze: graphs are built for Python only, and only when asked for.
Analyze(t, language, enableGraphs) ==
  LET graphs == enableGraphs /\ language = "python"
  IN  BuildContext(t, graphs, IF graphs THEN ReachingDefs(t) ELSE <<>>)
==============================================================================
