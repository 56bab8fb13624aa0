-------------------------------- MODULE Filters --------------------------------
(***************************************************************************)
(* Does a node satisfy the pattern of a rule?  A pattern is a record of    *)
(* what it asks for: a kind, the filters, and, if it constrains them, a    *)
(* callee, an identifier, a literal, a left or a right-hand side.  A       *)
(* filter too is a record of just the constraints it sets.  A regular      *)
(* expression is the set of the texts it matches.                          *)
(*                                                                         *)
(* A dotted text is the sequence of its segments.  A file is a record of   *)
(* its tree, its language, its import aliases, and the names its analysis  *)
(* found tainted and weakly tainted.                                       *)
(***************************************************************************)
EXTENDS Callees

CONSTANTS
  Sources,       \* Sources[l]: the texts that language l takes for a source
  LiteralTexts,  \* the values of keywords that are written as literals
  WriteModes,    \* the modes of open that can write
  NotNames       \* pieces of a left-hand side that are no simple name: "(a", "*b"

------------------------------------------------------------------------------
(* Texts and arguments                                                        *)

\* Everything after the callee, punctuation and nested nodes included.
AnyArgument(t, n) ==
  IF t[n].kind = "call" /\ Cardinality(ChildrenOf(t, n)) >= 2 THEN t[n + 1].last + 1..t[n].last ELSE {}

\* The argument at a position, counted from the end if negative: none or one.
Argument(t, n, i) ==
  LET args == ArgumentNodes(t, n)
      at == IF i < 0 THEN i + Len(args) + 1 ELSE i + 1
  IN  IF at \in DOMAIN args THEN {args[at]} ELSE {}
ArgumentAt(t, n, i) == UNION {Subtree(t, a) : a \in Argument(t, n, i)}
ArgumentsFrom(t, n, i) ==
  UNION {Subtree(t, ArgumentNodes(t, n)[k]) : k \in {k \in DOMAIN ArgumentNodes(t, n) : 0 <= i /\ i < k}}

IsDirectSource(file, n) ==
  LET t == file.tree IN
  CASE t[n].kind = "call" -> Append(CalleeText(t, n), "(") \in Sources[file.language]
    [] t[n].kind = "attribute" -> Segments(t, n) \in Sources[file.language]
    [] t[n].kind = "identifier" -> <<t[n].text>> \in Sources[file.language]
    [] OTHER -> FALSE

SourceText(t, n) ==
  CASE t[n].kind = "call" -> CalleeText(t, n)
    [] t[n].kind = "attribute" -> Segments(t, n)
    [] OTHER -> <<t[n].text>>

Tainting(file, n, real) ==
  \/ /\ file.tree[n].kind = "identifier" /\ file.tree[n].text \in file.tainted
     /\ real => file.tree[n].text \notin file.weak
  \/ IsDirectSource(file, n)

RHS(t, n) ==
  IF t[n].kind # "assignment" \/ ChildrenOf(t, n) = {} THEN {} ELSE Subtree(t, LastChild(t, n))

\* taintedIdentifierFor: the first tainted name, or else the first source, among
\* the arguments or in the right-hand side, whichever filter asks first; <<>> for
\* none.  Positions and require_real_source do not matter.
RECURSIVE TaintedIdentifier(_, _, _)
TaintedIdentifier(file, n, filters) ==
  LET t == file.tree
      among(nodes) ==
        LET names == {m \in Identifiers(t, nodes) : t[m].text \in file.tainted}
            sources == {m \in nodes : IsDirectSource(file, m)}
        IN  IF names # {} THEN <<t[Min(names)].text>>
            ELSE IF sources # {} THEN SourceText(t, Min(sources)) ELSE <<>>
      of(f) ==
        LET alternatives == IF Has(f, "anyOf") THEN TaintedIdentifier(file, n, f.anyOf) ELSE <<>>
            argument == IF Has(f, "taintedArgument") THEN among(AnyArgument(t, n)) ELSE <<>>
        IN  IF alternatives # <<>> THEN alternatives
            ELSE IF argument # <<>> THEN argument
            ELSE IF Has(f, "taintedRHS") THEN among(RHS(t, n)) ELSE <<>>
      found == SelectSeq(filters, LAMBDA f : of(f) # <<>>)
  IN  IF found = <<>> THEN <<>> ELSE of(found[1])

------------------------------------------------------------------------------
(* What is constant                                                           *)

\* The names a file binds at its top level, once, to a literal: the text of the
\* left-hand side is counted whole.
ModuleConstants(t) ==
  LET assigned(v) == {n \in Of(t, "assignment") : t[n].lhs = <<v>>}
      literal(n) == ~t[n].augmented /\ EnclosingFunction(t, n) = 0 /\ ChildrenOf(t, n) # {}
                      /\ t[LastChild(t, n)].kind = "literal"
      names == {t[n].lhs[1] : n \in {n \in Of(t, "assignment") : Len(t[n].lhs) = 1}}
  IN  [v \in {v \in names : Cardinality(assigned(v)) = 1 /\ literal(Min(assigned(v)))} |->
         t[LastChild(t, Min(assigned(v)))].text]

\* literalValue: none or one.
LiteralValue(t, n) ==
  CASE t[n].kind = "literal" -> {t[n].text}
    [] t[n].kind = "identifier" /\ t[t[n].parent].kind # "attribute" ->
         {ModuleConstants(t)[v] : v \in DOMAIN ModuleConstants(t) \cap {t[n].text}}
    [] OTHER -> {}

\* index: the simple definitions of a name; what an `as` binds; and the names
\* bound by a parameter, a loop, a tuple, an augmented assignment or an `as`.  Of a
\* left-hand side with commas only the pieces that are names count, so a bracketed
\* or starred pattern binds none of the names it has next to a bracket or star.
Assigns(t, v) == {n \in Of(t, "assignment") : t[n].lhs = <<v>> /\ ~t[n].augmented}
AsBinds(t, v) == {n \in Of(t, "unknown") : t[n].name = <<v>>}
LoopTargets(t, n) ==
  LET ins == {m \in ChildrenOf(t, n) : t[m].kind = "unknown" /\ t[m].text = "in"}
  IN  NamesIn(t, {m \in Descendants(t, n) : \A i \in ins : m < i})

\* Mutant of Bound: the names of a tuple are not bound by it.
BoundButTuples(t) ==
  UNION {ToSet(t[n].params) : n \in Of(t, "function")}
    \cup UNION {LoopTargets(t, n) : n \in Of(t, "for")}
    \cup UNION {ToSet(t[n].lhs) : n \in {n \in Of(t, "assignment") : t[n].augmented}}
    \cup UNION {ToSet(t[n].name) : n \in Of(t, "unknown")}

Bound(t) ==
  UNION {ToSet(t[n].params) : n \in Of(t, "function")}
    \cup UNION {LoopTargets(t, n) : n \in Of(t, "for")}
    \cup UNION {ToSet(t[n].lhs) : n \in {n \in Of(t, "assignment") : t[n].augmented}}
    \cup UNION {ToSet(t[n].lhs) \ NotNames : n \in {n \in Of(t, "assignment") : Len(t[n].lhs) > 1}}
    \cup UNION {ToSet(t[n].name) : n \in Of(t, "unknown")}

PathFuncs ==
  {<<"os", "path", f>> : f \in {"join", "dirname", "abspath", "realpath", "normpath", "basename"}}
    \cup {<<"pathlib", f>> : f \in {"Path", "PurePath", "PurePosixPath", "PureWindowsPath",
                                    "PosixPath", "WindowsPath"}}
    \cup {<<"str">>}
PathMethods ==
  {"resolve", "absolute", "joinpath", "with_name", "with_suffix", "parent", "name", "stem", "suffix"}

\* isConstPath, given the names known to be constant.  An attribute or a method
\* keeps a constant constant; punctuation does not count among operands.
RECURSIVE ConstPath(_, _, _)
ConstPath(file, n, names) ==
  LET t == file.tree
      method(m) ==
        /\ t[m].kind = "attribute" /\ Cardinality(ChildrenOf(t, m)) >= 2
        /\ t[LastChild(t, m)].kind = "identifier" /\ t[LastChild(t, m)].text \in PathMethods
        /\ ConstPath(file, m + 1, names)
      operands == {m \in ChildrenOf(t, n) : ~(t[m].kind = "unknown" /\ t[m].last = m)}
  IN  CASE t[n].kind = "literal" ->
             /\ \A d \in Descendants(t, n) : t[d].kind # "call"
             /\ NamesIn(t, Descendants(t, n)) \subseteq names
        [] t[n].kind = "identifier" -> t[n].text \in names
        [] t[n].kind = "attribute" -> method(n)
        [] t[n].kind = "call" ->
             /\ ChildrenOf(t, n) # {}
             /\ \/ CanonicalAlias(file, CalleeText(t, n)) \in PathFuncs /\ t[n + 1].kind # "call"
                \/ method(n + 1)
             /\ \A a \in ToSet(ArgumentNodes(t, n)) : ConstPath(file, a, names)
        [] t[n].kind \in {"binary_op", "unknown"} ->
             operands # {} /\ \A m \in operands : ConstPath(file, m, names)
        [] OTHER -> FALSE

\* isConstName: a name all of whose definitions are constant; never one that is
\* defined by itself.  The depth the code stops at is left out.
RECURSIVE ConstNames(_, _)
ConstNames(file, names) ==
  LET t == file.tree
      constant(v) ==
        /\ v \notin Bound(t) /\ Assigns(t, v) # {}
        /\ \A n \in Assigns(t, v) : ChildrenOf(t, n) # {} /\ ConstPath(file, LastChild(t, n), names)
      next == names \cup {v \in NamesIn(t, DOMAIN t) : constant(v)}
  IN  IF next = names THEN names ELSE ConstNames(file, next)

IsConstant(file, n) ==
  LET t == file.tree IN
  IF file.language = "python" THEN ConstPath(file, n, ConstNames(file, {"__file__"}))
  ELSE /\ t[n].kind = "literal"
       /\ \A d \in Descendants(t, n) : t[d].kind \notin {"identifier", "call", "attribute"}

------------------------------------------------------------------------------
(* What a written file is called                                              *)

\* nearestDefinition: the last one, by line, at or before the use, of the use's
\* own function if it has any; on one line an `as` comes last.  None or one.
NearestDefinition(t, name, use) ==
  LET before == {m \in Assigns(t, name) \cup AsBinds(t, name) : t[m].line <= t[use].line}
      own == {m \in before : EnclosingFunction(t, m) = EnclosingFunction(t, use)}
      among == IF own = {} THEN before ELSE own
      binds(m) == IF t[m].kind = "unknown" THEN 1 ELSE 0
      earlier(l, m) == \/ t[l].line < t[m].line
                       \/ t[l].line = t[m].line /\ binds(l) < binds(m)
                       \/ t[l].line = t[m].line /\ binds(l) = binds(m) /\ l <= m
  IN  {m \in among : \A l \in among : earlier(l, m)}

\* Shapes one after the other with a slash between them.
Joined(shapes) == FoldLeft(LAMBDA s, p : IF s = <<>> THEN p ELSE s \o <<"/">> \o p, <<>>, shapes)

\* The constructors of a path that a shape is known of.
Paths == {<<"pathlib", f>> : f \in {"Path", "PurePath", "PosixPath", "WindowsPath"}}

\* pathShape: a path with "*" for whatever is not a literal; an f-string keeps
\* its literal parts.
RECURSIVE PathShape(_, _, _, _)
PathShape(file, n, use, depth) ==
  LET t == file.tree
      callee == CanonicalAlias(file, CalleeText(t, n))
      args == ArgumentNodes(t, n)
      within(m) == PathShape(file, m, use, depth + 1)
      template(m) == IF Descendants(t, m) = {} THEN <<t[m].text>>
                     ELSE [i \in DOMAIN Children(t, m) |->
                             LET part == Children(t, m)[i]
                             IN  IF t[part].kind = "literal" THEN t[part].text ELSE "*"]
      definitions == {d \in NearestDefinition(t, t[n].text, use) :
                        t[d].kind = "assignment" /\ ChildrenOf(t, d) # {}}
      shape(m) == CASE t[m].kind # "unknown" \/ t[m].last # m -> within(m)
                    [] t[m].text = "/" -> <<"/">>
                    [] OTHER -> <<>>
  IN  IF depth > 8 THEN <<"*">> ELSE
      CASE t[n].kind = "literal" -> template(n)
        [] t[n].kind = "identifier" /\ definitions # {} ->
             LET d == Min(definitions) IN PathShape(file, LastChild(t, d), d, depth + 1)
        [] t[n].kind = "call" /\ callee \in {<<"os", "path", "join">>} \cup Paths /\ args # <<>> ->
             Joined([i \in DOMAIN args |-> within(args[i])])
        [] t[n].kind = "call" /\ callee = <<"str">> /\ Len(args) = 1 -> within(args[1])
        [] t[n].kind = "call" /\ t[n + 1].kind = "attribute" /\ t[n + 2].kind = "literal"
             /\ t[LastChild(t, n + 1)].text = "format" -> template(n + 2)
        [] t[n].kind = "binary_op" -> FlattenSeq([i \in DOMAIN Children(t, n) |-> shape(Children(t, n)[i])])
        [] OTHER -> <<"*">>

\* openModeWrites: an absent mode reads, one that is no literal may write.
OpenModeWrites(t, args) ==
  LET keyword == {m \in ToSet(args) : t[m].kind = "keyword_arg" /\ t[m].name = <<"mode">>}
      modes == {LastChild(t, m) : m \in keyword}
                 \cup (IF Len(args) > 1 /\ t[args[2]].kind # "keyword_arg" THEN {args[2]} ELSE {})
  IN  \E m \in modes : t[m].kind # "literal" \/ t[m].text \in WriteModes

\* fileTargetShape: the shape of the file a receiver writes to; none or one.
RECURSIVE FileTarget(_, _, _, _)
FileTarget(file, recv, use, depth) ==
  LET t == file.tree
      callee == CanonicalAlias(file, CalleeText(t, recv))
      args == ArgumentNodes(t, recv)
      follow(d) == IF t[d].kind = "assignment" THEN LastChild(t, d) ELSE d + 1
  IN  IF depth > 3 THEN {} ELSE
      CASE t[recv].kind = "call" /\ callee \in {<<"open">>, <<"io", "open">>, <<"codecs", "open">>,
                                                <<"builtins", "open">>} ->
             IF args # <<>> /\ OpenModeWrites(t, args) THEN {PathShape(file, args[1], recv, 0)} ELSE {}
        [] t[recv].kind = "call" /\ callee \in Paths ->
             IF args = <<>> THEN {} ELSE {Joined([i \in DOMAIN args |-> PathShape(file, args[i], recv, 0)])}
        [] t[recv].kind = "identifier" ->
             UNION {FileTarget(file, follow(d), d, depth + 1) : d \in NearestDefinition(t, t[recv].text, use)}
        [] OTHER -> {}

WrittenFile(file, n) ==
  IF file.language = "python" /\ file.tree[n].kind = "call" /\ file.tree[n + 1].kind = "attribute"
  THEN FileTarget(file, n + 2, n, 0) ELSE {}

------------------------------------------------------------------------------
(* Scopes                                                                     *)

\* The nodes of the function around n, or else of the file.
ScopeContents(t, n) == IF EnclosingFunction(t, n) = 0 THEN Descendants(t, Root)
                       ELSE Descendants(t, EnclosingFunction(t, n))

\* boundLiteral: the literal that every definition of a name is, in the nearest
\* scope around n that has one; none or one.
BoundLiteral(t, n, name) ==
  LET scope(m) == IF EnclosingFunction(t, m) = 0 THEN Root ELSE EnclosingFunction(t, m)
      scopes == {Root} \cup {a \in Ancestors(t, n) : t[a].kind = "function"}
      defs(s) == {m \in Of(t, "assignment") : t[m].lhs = <<name>> /\ ChildrenOf(t, m) # {} /\ scope(m) = s}
      nearest == {s \in scopes : defs(s) # {} /\ \A r \in scopes : r > s => defs(r) = {}}
      literals(s) == {LastChild(t, m) : m \in defs(s)}
  IN  {Max(literals(s)) : s \in {s \in nearest : \A m \in literals(s) : t[m].kind = "literal"}}

\* calleeChain: a call and those nested in its receiver.
CalleeChain(t, n) == {CalleeText(t, m) : m \in {n} \cup (Subtree(t, n + 1) \cap Of(t, "call"))}

LHSFlowsTo(t, n, callees) ==
  LET scope == IF EnclosingFunction(t, n) = 0 THEN Root ELSE EnclosingFunction(t, n) IN
  /\ t[n].kind = "assignment" /\ Len(t[n].lhs) = 1
  /\ \E c \in Subtree(t, scope) \cap Of(t, "call") :
       /\ \E a \in ToSet(ArgumentNodes(t, c)) : t[n].lhs[1] \in NamesIn(t, Subtree(t, a))
       /\ CalleeChain(t, c) \cap callees # {}

\* functionName: an arrow function has none.
FunctionName(t, f) ==
  LET names == {m \in ChildrenOf(t, f) : t[m].kind = "identifier" /\ t[m].text # ""}
  IN  IF names = {} \/ \E m \in ChildrenOf(t, f) : t[m].text = "=>" THEN "" ELSE t[Min(names)].text

\* contextNames: what the value of a node is bound to, up to the statement it is
\* in; a returned value is bound to its function's name, or to what an anonymous
\* function is itself bound to.
ContextNames(t, n) ==
  LET names[m \in DOMAIN t] ==
        LET p == t[m].parent
            function(f) == IF FunctionName(t, f) # "" THEN {FunctionName(t, f)} ELSE names[f]
        IN  IF p = 0 THEN {}
            ELSE CASE t[p].kind = "assignment" -> IF m = p + 1 THEN {} ELSE ToSet(t[p].lhs)
                   [] t[p].kind = "keyword_arg" -> ToSet(t[p].name)
                   [] t[p].kind = "return" ->
                        IF EnclosingFunction(t, p) = 0 THEN {} ELSE function(EnclosingFunction(t, p))
                   [] t[p].kind = "function" -> function(p)
                   [] t[p].kind \in {"block", "module", "if", "for", "while", "try", "class", "switch"} -> {}
                   [] OTHER -> names[p]
  IN  names[n]

\* isBroadHandler
BroadTypes == {"Exception", "BaseException", "Throwable", "Error", "RuntimeException", "object"}
Broad(h) == h.bare \/ h.types = {} \/ h.types \cap BroadTypes # {}

ExceptHandlerMatches(p, h) ==
  /\ Has(p, "bare") => h.bare = p.bare
  /\ Has(p, "empty") => h.empty = p.empty
  /\ Has(p, "broad") => Broad(h) = p.broad
  /\ Has(p, "commented") => h.commented = p.commented

\* The calls of a try's body: at least one, and none but these.
TryBodyCallsOnly(t, n, callees) ==
  LET blocks == {m \in ChildrenOf(t, n) : t[m].kind = "block"}
      calls == IF blocks = {} THEN {} ELSE Descendants(t, Min(blocks)) \cap Of(t, "call")
  IN  t[n].kind = "try" /\ calls # {} /\ \A c \in calls : CalleeText(t, c) \in callees

\* loggedIdentifier: not the name of a keyword whose value is a literal, nor
\* anything handed to a sanitizer.
Logged(t, n, p) ==
  LET sanitized == {c \in AnyArgument(t, n) : t[c].kind = "call" /\ CalleeText(t, c) \in p.sanitizers}
      walked == AnyArgument(t, n) \ UNION {Subtree(t, c) : c \in sanitized}
      keyword(m) == t[t[m].parent].kind = "keyword_arg" /\ m = t[m].parent + 1
  IN  \E m \in Identifiers(t, walked) :
        /\ t[m].text \in p.names
        /\ keyword(m) => t[t[m].parent].value \notin LiteralTexts

------------------------------------------------------------------------------
(* evalFilter and matchNode                                                   *)

RECURSIVE EvalFilter(_, _, _), MatchNode(_, _, _)

\* What one constraint of a filter asks of node n.
Holds(file, n, f, constraint) ==
  LET t == file.tree
      real == Has(f, "requireRealSource")
      spec == f[constraint]
      callee == CalleeText(t, n)
      arguments ==
        CASE Has(f, "taintedArgumentIndex") -> ArgumentAt(t, n, f.taintedArgumentIndex)
          [] ~Has(f, "taintedArgumentIndex") /\ Has(f, "taintedArgumentMinIndex") ->
               ArgumentsFrom(t, n, f.taintedArgumentMinIndex)
          [] OTHER -> AnyArgument(t, n)
      literals == IF Has(f, "argumentLiteralIndex") THEN ArgumentAt(t, n, f.argumentLiteralIndex)
                  ELSE AnyArgument(t, n)
      bound(a) == IF t[a].kind = "identifier" THEN BoundLiteral(t, n, t[a].text) ELSE {a}
  IN  CASE constraint = "calleeMatches" ->
             t[n].kind = "call" /\ {callee, CanonicalAlias(file, callee)} \cap spec # {}
        [] constraint = "decoratorStackMatches" -> ToSet(t[n].stack) \cap spec # {}
        [] constraint = "enclosingFunctionMatches" ->
             EnclosingFunction(t, n) # 0 /\ ToSet(t[EnclosingFunction(t, n)].name) \cap spec # {}
        [] constraint = "argumentNotConstant" -> \A a \in Argument(t, n, spec) : ~IsConstant(file, a)
        [] constraint = "writtenFileMatches" -> WrittenFile(file, n) \cap spec # {}
        [] constraint = "argumentCount" -> Len(ArgumentNodes(t, n)) = spec
        [] constraint = "hasAttribute" ->
             \E m \in ChildrenOf(t, n) : t[m].kind = "attribute" /\ Segments(t, m) \in spec
        [] constraint = "taintedArgument" -> \E m \in arguments : Tainting(file, m, real)
        [] constraint = "kwarg" ->
             \E m \in AnyArgument(t, n) :
               t[m].kind = "keyword_arg" /\ ToSet(t[m].name) \subseteq spec.names /\ t[m].value \in spec.values
        [] constraint = "argumentIdentifierMatches" -> NamesIn(t, AnyArgument(t, n)) \cap spec # {}
        [] constraint = "loggedIdentifier" -> Logged(t, n, spec)
        [] constraint = "argumentLiteralMatches" ->
             \E m \in literals : LiteralValue(t, m) \cap spec # {}
        [] constraint = "argumentKindNotAt" ->
             \A a \in Argument(t, n, spec.index) : t[a].kind \notin spec.kinds
        [] constraint = "taintedRHS" -> \E m \in RHS(t, n) : Tainting(file, m, real)
        [] constraint = "hasBareExcept" -> \E h \in t[n].handlers : h.bare
        [] constraint = "hasEmptyExceptHandler" -> \E h \in t[n].handlers : h.empty
        [] constraint = "exceptHandler" -> \E h \in t[n].handlers : ExceptHandlerMatches(spec, h)
        [] constraint = "literalArgument" ->
             \E a \in Argument(t, n, spec.index) : \E m \in bound(a) :
               t[m].kind = "literal" /\ t[m].text \in spec.values
        [] constraint = "lhsFlowsToCall" -> LHSFlowsTo(t, n, spec)
        [] constraint = "tryBodyCallsOnly" -> TryBodyCallsOnly(t, n, spec)
        [] constraint = "contextIdentifierMatches" -> ContextNames(t, n) \cap spec # {}
        [] constraint = "enclosingFunctionCalls" ->
             \E m \in ScopeContents(t, n) : t[m].kind = "call" /\ CalleeText(t, m) \in spec
        [] constraint = "enclosingFunctionMentions" ->
             \E m \in ScopeContents(t, n) : t[m].kind \in {"identifier", "literal"} /\ t[m].text \in spec
        [] constraint = "anyOf" -> \E i \in DOMAIN spec : EvalFilter(file, n, spec[i])
        [] constraint = "not" -> ~MatchNode(file, n, spec)
        [] OTHER -> TRUE

EvalFilter(file, n, f) == \A constraint \in DOMAIN f : Holds(file, n, f, constraint)

\* matchNode: the callee of a pattern is not asked for; the index has seen to it.
MatchNode(file, n, p) ==
  LET node == file.tree[n] IN
  /\ node.kind = p.kind
  /\ Has(p, "identifier") => node.text = p.identifier
  /\ Has(p, "literal") => node.text \in p.literal
  /\ Has(p, "lhsIdentifier") => node.lhs \in p.lhsIdentifier
  /\ Has(p, "rhsLiteral") => node.value \in p.rhsLiteral
  /\ \A i \in DOMAIN p.filters : EvalFilter(file, n, p.filters[i])
==============================================================================
