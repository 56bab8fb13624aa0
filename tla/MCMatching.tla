------------------------------- MODULE MCMatching -------------------------------
(***************************************************************************)
(* Programs put together from a few statements in a few shapes, a page     *)
(* with scripts, a showcase of what filters look at, and rules of every    *)
(* kind of bucket, one for nearly every filter.                            *)
(***************************************************************************)
EXTENDS RuleEngine, TLC

CONSTANTS w1, w2

------------------------------------------------------------------------------
(* Trees                                                                      *)

Shifted(t, k) ==
  [n \in DOMAIN t |-> [t[n] EXCEPT !.parent = IF n = 1 THEN 1 ELSE @ + k, !.last = @ + k]]
Tree(node, kids) ==
  LET add(t, kid) == t \o Shifted(kid, Len(t))
      all == FoldLeft(add, <<node>>, kids)
  IN  [all EXCEPT ![1].last = Len(all)]
Kind(k) == [Blank EXCEPT !.kind = k]
Leaf(k, text) == <<[Kind(k) EXCEPT !.text = text]>>
Id(v) == Leaf("identifier", v)
Lit(v) == Leaf("literal", v)
Tok(v) == Leaf("unknown", v)
Attr(object, field) == Tree(Kind("attribute"), <<object, Tok("."), Id(field)>>)

Separated(args) == FlattenSeq([i \in DOMAIN args |-> IF i = 1 THEN <<args[1]>> ELSE <<Tok(","), args[i]>>])
Call(callee, args) ==
  Tree(Kind("call"), <<callee, Tree(Kind("unknown"), <<Tok("(")>> \o Separated(args) \o <<Tok(")")>>)>>)
Op(sign, a, b) == Tree(Kind("binary_op"), <<a, Tok(sign), b>>)
Keyword(k, v, text) == Tree([Kind("keyword_arg") EXCEPT !.name = <<k>>, !.value = text], <<Id(k), v>>)

\* What the source and sanitizer patterns match in a text.
Shown(t) ==
  (IF \E n \in DOMAIN t : t[n].kind = "call" /\ CalleeText(t, n) = <<"input">> THEN {"source"} ELSE {})
    \cup (IF \E n \in DOMAIN t : t[n].kind = "call" /\ CalleeText(t, n) = <<"escape">> THEN {"sanitizer"} ELSE {})
Simple(t) == Tree(Kind("unknown"), <<t>>)
AssignAll(lhs, target, value) ==
  Simple(Tree([Kind("assignment") EXCEPT !.lhs = lhs, !.rhs = Shown(value), !.value = value[1].text],
              <<target, Tok("="), value>>))
Let(v, value) == AssignAll(<<v>>, Id(v), value)
Pair(v, u, value) == AssignAll(<<v, u>>, Tree(Kind("unknown"), <<Id(v), Tok(","), Id(u)>>), value)
Unpack(value) ==
  AssignAll(<<"(x", "y)">>, Tree(Kind("unknown"), <<Tok("("), Id("x"), Tok(","), Id("y"), Tok(")")>>), value)
Rest(value) ==
  AssignAll(<<"y", "*x">>,
            Tree(Kind("unknown"), <<Id("y"), Tok(","), Tree(Kind("unknown"), <<Tok("*"), Id("x")>>)>>), value)
Add(v, value) ==
  Simple(Tree([Kind("assignment") EXCEPT !.lhs = <<v>>, !.rhs = Shown(value), !.augmented = TRUE],
              <<Id(v), Tok("+="), value>>))
Do(call) == Simple(call)
Block(statements) == Tree(Kind("block"), statements)
If(body, other) ==
  Tree(Kind("if"), <<Tok("if"), Id("c"), Block(body)>>
    \o (IF other = <<>> THEN <<>> ELSE <<Tree(Kind("unknown"), <<Tok("else"), Block(other)>>)>>))
While(body) == Tree(Kind("while"), <<Tok("while"), Id("c"), Block(body)>>)
For(v, body) == Tree(Kind("for"), <<Tok("for"), Id(v), Tok("in"), Id("items"), Block(body)>>)
Try(body, handlers, rescue) ==
  Tree([Kind("try") EXCEPT !.handlers = handlers],
       <<Tok("try"), Block(body), Tree(Kind("unknown"), <<Tok("except"), Block(rescue)>>)>>)
Return(value) ==
  Simple(Tree([Kind("return") EXCEPT !.rhs = Shown(value), !.value = value[1].text], <<Tok("return"), value>>))
Def(name, params, body) ==
  Tree([Kind("function") EXCEPT !.name = <<name>>, !.params = params,
                                !.stack = IF params = <<"user">> THEN <<"csrf_exempt">> ELSE <<>>], <<Tok("def"), Id(name), Block(body)>>)

\* A statement a line.
Lined(t) ==
  LET opens(n) ==
        \/ t[n].kind \in {"if", "while", "for", "try", "function"}
        \/ t[n].kind = "unknown" /\ t[n].parent # 0 /\ t[t[n].parent].kind \in {"block", "module"}
      line(n) == Max({1, Cardinality({m \in 1..n : opens(m)})})
  IN  [n \in DOMAIN t |-> [t[n] EXCEPT !.line = line(n), !.endLine = line(t[n].last)]]
Module(statements) == Lined(Tree(Kind("module"), statements))

Code(t, language, first, browser) ==
  [tree |-> t, first |-> first, language |-> language, browser |-> browser,
   aliases |-> IF language = "python" /\ t # <<>> THEN "H" :> <<"hashlib">> @@ "join" :> <<"os", "path", "join">>
               ELSE <<>>]
File(language, lines, units) == [language |-> language, lines |-> lines, units |-> units]
Bare(n) == [i \in 1..n |-> <<>>]
Program(statements) == File("python", Bare(16), <<Code(Module(statements), "python", 1, FALSE)>>)

------------------------------------------------------------------------------
(* Programs                                                                   *)

Run(v) == Do(Call(Attr(Id("db"), "run"), <<Id(v), Lit("fast")>>))
Pool ==
  {Let("x", Call(Id("input"), <<>>)), Let("x", Lit("lit")), Let("y", Id("x")),
   Pair("x", "y", Op(",", Id("y"), Call(Id("input"), <<>>))), Add("y", Id("x"))}
Firsts == {Let("x", Call(Id("input"), <<>>)), Let("x", Lit("lit")), Let("y", Lit("lit"))}
Shapes(a, b) ==
  {<<If(<<a>>, <<b>>)>>, <<If(<<a, Return(Id("x"))>>, <<>>), b>>, <<While(<<a, b>>)>>,
   <<Try(<<a>>, {}, <<b>>)>>, <<Def("f", <<"x">>, <<a, b, Return(Id("y"))>>)>>}
Programs ==
  {Program(<<a>> \o shape \o <<Let("z", Id("y")), Run("x")>>) :
     a \in Firsts, shape \in UNION {Shapes(b, d) : b \in Pool, d \in Pool}}

Summaries ==
  {Program(<<Def("ask", <<>>, <<Return(Call(Id("input"), <<>>))>>), Let("x", Call(Id("ask"), <<>>)),
             Def("f", <<"p">>, <<Let("y", Op("+", Id("p"), Id("x"))), Let("x", Call(Id("escape"), <<Id("p")>>)),
                                 Let("z", Call(Id("g"), <<Id("p")>>)), Return(Id("p"))>>),
             Run("y")>>)}

Handler(types) == [bare |-> types = {}, empty |-> TRUE, types |-> types, commented |-> FALSE]
Showcase ==
  Program(<<
    Let("algorithm", Lit("md5")),
    Let("base", Call(Id("join"), <<Lit("tmp"), Op("+", Id("algorithm"), Lit(".py"))>>)),
    For("item", <<Do(Call(Id("open"), <<Id("item")>>))>>),
    Def("make_token", <<"user">>, <<
      Let("key", Lit("secret")),
      Let("f", Call(Id("open"), <<Id("base"), Lit("w")>>)),
      Do(Call(Attr(Id("f"), "write"), <<Id("user")>>)),
      Do(Call(Attr(Id("log"), "info"), <<Keyword("password", Id("key"), "key"),
                                         Call(Id("mask"), <<Id("password")>>)>>)),
      Return(Call(Attr(Id("H"), "new"), <<Id("algorithm"), Id("key")>>))>>),
    Try(<<Do(Call(Id("open"), <<Id("base")>>))>>, {Handler({"KeyError", "Exception"})}, <<Run("base")>>)>>)

\* A page of six lines with a script on the third, one that does not parse, and
\* one on the fifth; the comments silence the page's own finding and a script's.
Script(first) == Code(Module(<<Run("location")>>), "javascript", first, TRUE)
Page ==
  File("html", <<<<"<!--", "zs-ignore", "ZS-PAGE">>, <<>>, <<>>, <<"//", "nosec">>, <<>>, <<>>>>,
       <<Code(Lined(Tree(Kind("module"), <<Simple(Call(Id("form"), <<>>))>>)), "html", 1, FALSE),
         Script(3), Code(<<>>, "javascript", 4, TRUE), Script(5)>>)

Other == File("unknown", <<>>, <<>>)
Torn == File("python", Bare(1), <<Code(<<>>, "python", 1, FALSE)>>)

\* Names that have been literals are unpacked from a tuple, in brackets or starred.
Unpackings ==
  {Program(<<Let("x", Lit("lit")), Let("y", Lit("lit")), If(<<a>>, <<b>>), Run("x"), Run("y")>>) :
     a \in {Unpack(Call(Id("input"), <<>>)), Rest(Id("y"))},
     b \in {Rest(Call(Id("input"), <<>>)), Unpack(Id("x")), Let("y", Id("x"))}}

MCContents == {<<p>> : p \in Programs \cup Summaries \cup Unpackings} \cup {<<Showcase, Other, Page>>, <<Torn, Page, Showcase>>}
MCPatterns == {<<p>> : p \in Unpackings}

------------------------------------------------------------------------------
(* Rules                                                                      *)

R(id, language, match) ==
  [id |-> id, language |-> language, lifecycle |-> "released", suffix |-> FALSE, oncePerFile |-> FALSE,
   skipContexts |-> {}, match |-> match]
On(kind, filters) == [kind |-> kind, filters |-> filters]
To(callee, filters) == [kind |-> "call", callee |-> callee, filters |-> filters]
Py(match) == R("ZS-PY", "python", match)

MCRules ==
  <<[Py(To(<<"run">>, <<[taintedArgument |-> TRUE, requireRealSource |-> TRUE]>>)) EXCEPT !.suffix = TRUE],
    Py(To(<<"db", "run">>, <<[taintedArgument |-> TRUE, taintedArgumentIndex |-> 0]>>)),
    [Py(On("call", <<>>)) EXCEPT !.oncePerFile = TRUE],
    [Py(On("call", <<>>)) EXCEPT !.lifecycle = "retired"],
    Py(On("call", <<[argumentNotConstant |-> 0], [argumentCount |-> 1]>>)),
    Py(On("call", <<[writtenFileMatches |-> {<<"tmp", "/", "md5", ".py">>}]>>)),
    Py(On("call", <<[loggedIdentifier |-> [names |-> {"password"}, sanitizers |-> {<<"mask">>}]]>>)),
    Py(On("call", <<[kwarg |-> [names |-> {"password"}, values |-> {"key"}]],
                    [enclosingFunctionMatches |-> {"make_token"}]>>)),
    Py(To(<<"hashlib", "new">>, <<[argumentLiteralMatches |-> {"md5"}, argumentLiteralIndex |-> 0],
                                  [literalArgument |-> [index |-> -1, values |-> {"secret"}]],
                                  [contextIdentifierMatches |-> {"make_token"}]>>)),
    [Py(To(<<"hashlib", "new">>, <<[calleeMatches |-> {<<"hashlib", "new">>}],
                                   [enclosingFunctionMentions |-> {"secret"}]>>)) EXCEPT !.suffix = TRUE],
    Py(On("assignment", <<[taintedRHS |-> TRUE], [not |-> On("assignment", <<[hasAttribute |-> {<<"x">>}]>>)]>>)),
    Py(On("assignment", <<[lhsFlowsToCall |-> {<<"H", "new">>}]>>)),
    Py(On("function", <<[decoratorStackMatches |-> {"csrf_exempt"}]>>)),
    Py([kind |-> "assignment", filters |-> <<>>, lhsIdentifier |-> {<<"key">>}, rhsLiteral |-> {"secret"}]),
    Py(On("try", <<[exceptHandler |-> [broad |-> TRUE, bare |-> FALSE], hasEmptyExceptHandler |-> TRUE],
                   [tryBodyCallsOnly |-> {<<"open">>}]>>)),
    Py(On("call", <<[anyOf |-> <<[taintedArgument |-> TRUE, taintedArgumentMinIndex |-> 1],
                                 [argumentIdentifierMatches |-> {"base"},
                                  argumentKindNotAt |-> [index |-> 0, kinds |-> {"literal"}]]>>],
                    [enclosingFunctionCalls |-> {<<"open">>}]>>)),
    Py([kind |-> "literal", filters |-> <<>>, literal |-> {"md5"}]),
    R("ZS-PAGE", "html", To(<<"form">>, <<>>)),
    R("ZS-JS", "javascript", To(<<"db", "run">>, <<[taintedArgument |-> TRUE]>>)),
    [R("ZS-NODE", "javascript", To(<<"db", "run">>, <<>>)) EXCEPT !.skipContexts = {"browser"}]>>

MCSources == [l \in {"python", "javascript", "html"} |->
                IF l = "python" THEN {<<"input", "(">>} ELSE IF l = "javascript" THEN {<<"location">>} ELSE {}]
MCLiteralTexts == {"True", "fast"}
MCWriteModes == {"w", "a", "r+"}
MCNotNames == {"(x", "y)", "*x"}
MCWorkers == {w1, w2}
Swaps == Permutations(MCWorkers)
==============================================================================
