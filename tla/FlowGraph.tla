-------------------------------- MODULE FlowGraph --------------------------------
(***************************************************************************)
(* The control-flow graph of a Python file, and the definitions that reach *)
(* each of its nodes.                                                      *)
(***************************************************************************)
EXTENDS Tree

Edge(from, to, kind) == [from |-> from, to |-> to, kind |-> kind]
Exit == 0

\* flattenStatements: the nodes below n through nothing but unknown wrappers.
Statements(t, n) ==
  {m \in Descendants(t, n) :
     t[m].kind # "unknown" /\ \A a \in Ancestors(t, m) : a > n => t[a].kind = "unknown"}

\* directOrWrappedBlocks
Blocks(t, n) ==
  {m \in Descendants(t, n) :
     /\ t[m].kind = "block"
     /\ \/ t[m].parent = n
        \/ t[t[m].parent].kind = "unknown" /\ t[t[m].parent].parent = n}

\* blockExitNodes: where control leaves a statement.  An if has an exit of its
\* own unless it has a second block; of a try only the body counts.
ExitNodes(t) ==
  LET exits[n \in DOMAIN t] ==
        LET of(block) == LET s == Statements(t, block) IN IF s = {} THEN {} ELSE exits[Max(s)]
            blocks == Blocks(t, n)
        IN  CASE t[n].kind = "return" -> {}
              [] t[n].kind = "if" ->
                   (UNION {of(b) : b \in blocks}) \cup (IF Cardinality(blocks) < 2 THEN {n} ELSE {})
              [] t[n].kind = "try" /\ blocks # {} -> of(Min(blocks))
              [] OTHER -> {n}
  IN  exits

\* Branches, loops and returns; what has no block has no edge of its own.
Branches(t) ==
  LET first(n) == Min(Blocks(t, n))
      bodied(kinds) == {n \in DOMAIN t : t[n].kind \in kinds /\ Blocks(t, n) # {}}
  IN  {Edge(n, first(n), "true") : n \in bodied({"if"})}
        \cup (UNION {{Edge(n, b, "false") : b \in Blocks(t, n) \ {first(n)}} : n \in bodied({"if"})})
        \cup (UNION {{Edge(n, first(n), "loop"), Edge(first(n), n, "loop-back")} :
                     n \in bodied({"for", "while"})})
        \cup {Edge(n, first(n), "normal") : n \in bodied({"try"})}
        \cup {Edge(n, Exit, "return") : n \in Of(t, "return")}

\* Mutant of FallThrough: an if is always an exit of its own.
FallThroughIf(t) ==
  LET exits == ExitNodes(t)
      after(n, s) == {m \in Statements(t, n) : m > s}
  IN  UNION {UNION {{Edge(x, Min(after(n, s)), "normal") : x \in exits[s] \cup (Of(t, "if") \cap {s})} :
                      s \in {s \in Statements(t, n) : after(n, s) # {}}} :
               n \in Of(t, "module") \cup Of(t, "block")}

\* The statements of a module or block follow one another.
FallThrough(t) ==
  LET exits == ExitNodes(t)
      after(n, s) == {m \in Statements(t, n) : m > s}
  IN  UNION {UNION {{Edge(x, Min(after(n, s)), "normal") : x \in exits[s]} :
                      s \in {s \in Statements(t, n) : after(n, s) # {}}} :
               n \in Of(t, "module") \cup Of(t, "block")}

CFG(t) == Branches(t) \cup FallThrough(t)

------------------------------------------------------------------------------
(* computeReachingDefs                                                        *)

\* The definitions of what an assignment names, its text taken whole.
Defs(t, lhs) == {n \in Of(t, "assignment") : t[n].lhs = lhs}
Defines(t, n) == t[n].kind = "assignment" /\ t[n].lhs # <<>>

Entering(cfg, out, n) == UNION {out[e.from] : e \in {e \in cfg : e.to = n}}

\* One node of a sweep: what comes in, less what n overwrites, and n.
Through(t, cfg, out, n) ==
  [out EXCEPT ![n] =
     IF Defines(t, n) THEN (Entering(cfg, out, n) \ Defs(t, t[n].lhs)) \cup {n}
     ELSE Entering(cfg, out, n)]

\* A sweep over all nodes, in the order of the walk.
Sweep(t, cfg, out) ==
  LET after[n \in 0..Len(t)] == IF n = 0 THEN out ELSE Through(t, cfg, after[n - 1], n)
  IN  after[Len(t)]

\* Sweeps until one changes nothing.
Settled(t, cfg) ==
  LET settle[out \in [DOMAIN t -> SUBSET DOMAIN t]] ==
        LET next == Sweep(t, cfg, out) IN IF next = out THEN out ELSE settle[next]
  IN  settle[[n \in DOMAIN t |-> {}]]

\* ReachingDefs: the definitions that enter each node.
ReachingDefs(t) ==
  LET cfg == CFG(t)
      out == Settled(t, cfg)
  IN  [n \in DOMAIN t |-> Entering(cfg, out, n)]
==============================================================================
