--------------------------------- MODULE Symbols ---------------------------------
(***************************************************************************)
(* The symbol table of a file.  A scope is the node that opens it, or      *)
(* Global.                                                                 *)
(***************************************************************************)
EXTENDS Tree

Global == 0
Symbol(name, kind, n, scope) == [name |-> name, kind |-> kind, node |-> n, scope |-> scope]

ScopeNodes(t) == Of(t, "function") \cup Of(t, "class")
ScopeOf(t, n) == Nearest(t, n, {"function", "class"})

\* The scope around a scope: a method's names do not see its class's.
ParentScope(t, s) ==
  LET outer == ScopeOf(t, s)
  IN  IF t[s].kind = "function" /\ outer # Global /\ t[outer].kind = "class" THEN ScopeOf(t, outer)
      ELSE outer

\* A function's name, or else its first identifier.
NameOf(t, n) ==
  LET ids == {m \in ChildrenOf(t, n) : t[m].kind = "identifier"}
  IN  IF t[n].kind = "function" /\ t[n].name # <<>> THEN t[n].name[1]
      ELSE IF ids = {} THEN "" ELSE t[Min(ids)].text

DefinedBy(t, n) ==
  LET scope == ScopeOf(t, n)
      named(kind) == IF NameOf(t, n) = "" THEN <<>> ELSE <<Symbol(NameOf(t, n), kind, n, scope)>>
  IN  CASE t[n].kind = "function" ->
             named("function") \o [p \in DOMAIN t[n].params |-> Symbol(t[n].params[p], "parameter", n, n)]
        [] t[n].kind = "class" -> named("class")
        [] t[n].kind = "assignment" /\ ChildrenOf(t, n) # {} /\ t[n + 1].kind = "identifier" ->
             <<Symbol(t[n + 1].text, "variable", n + 1, scope)>>
        [] t[n].kind = "import" ->
             LET ids == SelectSeq(Children(t, n), LAMBDA m : t[m].kind = "identifier")
             IN  [m \in DOMAIN ids |-> Symbol(t[ids[m]].text, "import", ids[m], scope)]
        [] OTHER -> <<>>

AllSymbols(t) == FlattenSeq([n \in DOMAIN t |-> DefinedBy(t, n)])

\* The scope with the smallest span of lines around a line, the outermost first.
ScopeAt(t, line) ==
  LET around == {s \in ScopeNodes(t) : t[s].line <= line /\ line <= t[s].endLine}
      span(s) == t[s].endLine - t[s].line
      smallest == {s \in around : \A r \in around : span(s) <= span(r)}
  IN  IF around = {} \/ span(Root) <= span(Min(smallest)) THEN Global ELSE Min(smallest)

ScopeChain(t, scope) ==
  LET chain[s \in ScopeNodes(t) \cup {Global}] ==
        IF s = Global THEN <<Global>> ELSE <<s>> \o chain[ParentScope(t, s)]
  IN  chain[scope]

\* What a name resolves to from a scope: the first symbol of that name in the
\* nearest scope that has one; a set of at most one.
Resolve(t, name, scope) ==
  LET symbols == AllSymbols(t)
      at(s) == SelectSeq(symbols, LAMBDA sym : sym.name = name /\ sym.scope = s)
      found == SelectSeq(ScopeChain(t, scope), LAMBDA s : at(s) # <<>>)
  IN  IF found = <<>> THEN {} ELSE {at(found[1])[1]}

\* enclosingSymbolName: the first function or class around a line, "" for none.
EnclosingSymbolName(t, line) ==
  LET around == SelectSeq(AllSymbols(t), LAMBDA sym :
        sym.kind \in {"function", "class"} /\ t[sym.node].line <= line /\ line <= t[sym.node].endLine)
  IN  IF around = <<>> THEN "" ELSE around[1].name
==============================================================================
