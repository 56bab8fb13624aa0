---------------------------------- MODULE Tree ----------------------------------
(***************************************************************************)
(* The intermediate representation of a file: the sequence of its nodes in *)
(* the order of Walk, depth first, each with its parent and the last node  *)
(* of its subtree (its children and descendants lie in between).  A node   *)
(* of a tree t is its place in t.                                          *)
(*                                                                         *)
(* Of its attributes a node keeps, where its kind has them:                *)
(*   line, endLine         its span                                        *)
(*   text                  of a leaf                                       *)
(*   lhs, rhs, augmented   of an assignment: the text of its left-hand     *)
(*                         side cut at the commas, bracket or star and     *)
(*                         all; which of "source" and "sanitizer" its      *)
(*                         right-hand side matches; and whether what was   *)
(*                         on the left stays in play                       *)
(*   name, params          of a function; an argument's keyword; or what   *)
(*                         an `as` binds, at most one                      *)
(*   value                 of a keyword argument, of what is assigned, or  *)
(*                         of what is returned                             *)
(*   stack                 the decorators of a definition                  *)
(*   handlers              the except clauses of a try                     *)
(***************************************************************************)
EXTENDS Integers, Sequences, FiniteSets, SequencesExt, FiniteSetsExt, Lists

Blank ==
  [kind |-> "unknown", text |-> "", parent |-> 0, last |-> 1, line |-> 1, endLine |-> 1,
   lhs |-> <<>>, rhs |-> {}, augmented |-> FALSE, name |-> <<>>, params |-> <<>>, value |-> "",
   stack |-> <<>>, handlers |-> {}]

\* A sequence of nodes is a tree when subtrees nest, and a node's parent is the
\* nearest node around it.  A name is not empty.
IsATree(t) ==
  /\ IsASlice(t)
  /\ \A n \in DOMAIN t :
       /\ DOMAIN t[n] = DOMAIN Blank
       /\ t[n].last \in n..Len(t) /\ t[n].parent \in 0..n - 1
       /\ t[n].parent # 0 => t[n].last <= t[t[n].parent].last
       /\ \A m \in 1..n - 1 : t[m].last >= n => m <= t[n].parent
       /\ IsASlice(t[n].lhs) /\ (Len(t[n].lhs) = 1 => t[n].lhs[1] # "")

Root == 1
Subtree(t, n) == n..t[n].last
Descendants(t, n) == (n + 1)..t[n].last
Of(t, kind) == {n \in DOMAIN t : t[n].kind = kind}
Ordered(nodes) == SetToSortSeq(nodes, LAMBDA m, n : m < n)

ChildrenOf(t, n) == {m \in Descendants(t, n) : t[m].parent = n}
Children(t, n) == Ordered(ChildrenOf(t, n))
LastChild(t, n) == Max(ChildrenOf(t, n))

Ancestors(t, n) == {m \in 1..n - 1 : t[m].last >= n}

\* The nearest of them of one of these kinds, or 0.
Nearest(t, n, kinds) ==
  LET found == {m \in Ancestors(t, n) : t[m].kind \in kinds}
  IN  IF found = {} THEN 0 ELSE Max(found)
EnclosingFunction(t, n) == Nearest(t, n, {"function"})

Identifiers(t, nodes) == {m \in nodes : t[m].kind = "identifier"}
NamesIn(t, nodes) == {t[m].text : m \in Identifiers(t, nodes)}

\* The arguments of a call: the children of its argument list when it has one,
\* otherwise all but the callee; punctuation is no argument.
Punctuation == {"(", ")", ","}
IsArgumentList(t, n) ==
  /\ t[n].kind = "unknown" /\ Len(Children(t, n)) >= 2
  /\ t[n + 1].text = "(" /\ t[LastChild(t, n)].text = ")"
ArgumentNodes(t, n) ==
  LET children == Children(t, n)
      lists == {m \in ToSet(children) : IsArgumentList(t, m)}
      candidates == IF lists = {} THEN Tail(children) ELSE Children(t, Min(lists))
  IN  IF t[n].kind # "call" \/ Len(children) < 2 THEN <<>>
      ELSE SelectSeq(candidates, LAMBDA m : ~(t[m].kind = "unknown" /\ t[m].text \in Punctuation))
==============================================================================
