----------------------------- MODULE MatchingProofs -----------------------------
(***************************************************************************)
(* What the taint analysis says of a tree, that its control-flow graph     *)
(* goes nowhere that control does not, and that workers which share one    *)
(* rule index find every match: for any trees, rules and workers, and      *)
(* whatever a pattern asks of a node.                                      *)
(***************************************************************************)
EXTENDS Matching, ListsProofs

------------------------------------------------------------------------------
(* The recursive functions of the analysis                                    *)

\* The walk over a tree, node by node.
LEMMA WalkUnfolds ==
  ASSUME NEW t, NEW graphs, NEW reaching, Len(t) \in Nat
  PROVE  \E g : /\ g[0] = Seeds(t)
                /\ \A n \in 1..Len(t) :
                     g[n] = IF Defines(t, n) THEN Assign(t, graphs, reaching, g[n - 1], n) ELSE g[n - 1]
                /\ BuildContext(t, graphs, reaching) = g[Len(t)]
<1> DEFINE Step(r, n) == IF Defines(t, n) THEN Assign(t, graphs, reaching, r, n) ELSE r
           Is(f, k) == f = [n \in 0..k |-> IF n = 0 THEN Seeds(t)
                                           ELSE IF Defines(t, n) THEN Assign(t, graphs, reaching, f[n - 1], n)
                                           ELSE f[n - 1]]
           T == {k \in 0..Len(t) : ~\E f : Is(f, k)}
           g == CHOOSE f : Is(f, Len(t))
<1>1. T = {}
  <2> SUFFICES ASSUME T # {} PROVE FALSE OBVIOUS
  <2>1. T \subseteq Nat OBVIOUS
  <2>2. PICK k \in T : \A y \in T : k <= y
    <3> HIDE DEF T
    <3>1. QED BY <2>1, LeastOf
  <2>3. CASE k = 0
    <3> DEFINE f == [n \in 0..0 |-> Seeds(t)]
    <3>1. Is(f, 0) OBVIOUS
    <3>2. QED BY <2>2, <2>3, <3>1
  <2>4. CASE k # 0
    <3>1. k \in 1..Len(t) /\ k - 1 \in 0..Len(t) /\ k - 1 \notin T BY <2>2, <2>4
    <3>2. PICK f : Is(f, k - 1) BY <3>1
    <3> HIDE DEF T
    <3> DEFINE h == [n \in 0..k |-> IF n < k THEN f[n] ELSE Step(f[k - 1], k)]
    <3>3. \A n \in 0..k - 1 : h[n] = f[n] BY <3>1
    <3>4. ASSUME NEW n \in 0..k
          PROVE  h[n] = IF n = 0 THEN Seeds(t)
                        ELSE IF Defines(t, n) THEN Assign(t, graphs, reaching, h[n - 1], n)
                        ELSE h[n - 1]
      <4>1. CASE n = k
        <5>1. h[n] = Step(f[k - 1], k) /\ n # 0 /\ h[n - 1] = f[k - 1] BY <3>1, <3>3, <4>1
        <5> HIDE DEF h
        <5>2. QED BY <4>1, <5>1
      <4>2. CASE n # k
        <5>1. n \in 0..k - 1 /\ (n # 0 => n - 1 \in 0..k - 1) BY <3>1, <4>2
        <5>2. h[n] = f[n] /\ (n # 0 => h[n - 1] = f[n - 1]) BY <3>3, <5>1
        <5> HIDE DEF h
        <5>3. f[n] = IF n = 0 THEN Seeds(t)
                     ELSE IF Defines(t, n) THEN Assign(t, graphs, reaching, f[n - 1], n) ELSE f[n - 1]
          BY <3>2, <5>1
        <5>4. QED BY <5>2, <5>3
      <4>3. QED BY <4>1, <4>2
    <3>5. Is(h, k)
      <4>1. h = [n \in 0..k |-> h[n]] OBVIOUS
      <4> HIDE DEF h
      <4>2. QED BY <3>4, <4>1
    <3>6. k \notin T BY <3>5 DEF T
    <3>7. QED BY <2>2, <3>6
  <2>5. QED BY <2>3, <2>4
<1>2. Is(g, Len(t))
  <2>1. Len(t) \notin T BY <1>1
  <2>2. \E f : Is(f, Len(t)) BY <2>1
  <2> HIDE DEF Is
  <2>3. QED BY <2>2
<1>3. BuildContext(t, graphs, reaching) = g[Len(t)] BY DEF BuildContext
<1> HIDE DEF g
<1>4. g[0] = Seeds(t) BY <1>2
<1>5. ASSUME NEW n \in 1..Len(t)
      PROVE  g[n] = IF Defines(t, n) THEN Assign(t, graphs, reaching, g[n - 1], n) ELSE g[n - 1]
  <2>1. n \in 0..Len(t) /\ n # 0 OBVIOUS
  <2>2. QED BY <1>2, <2>1
<1>6. QED BY <1>3, <1>4, <1>5

\* An assignment, name by name.
LEMMA AssignUnfolds ==
  ASSUME NEW t, NEW graphs, NEW reaching, NEW r, NEW n, Len(LhsNames(t, n)) \in Nat
  PROVE  LET names == LhsNames(t, n)
             verdict == Verdict(t, n, r.tainted)
         IN  \E g : /\ g[0] = r
                    /\ \A k \in 1..Len(names) :
                         g[k] = AssignName(t, graphs, reaching, n, verdict, g[k - 1], names[k])
                    /\ Assign(t, graphs, reaching, r, n) = g[Len(names)]
<1> DEFINE names == LhsNames(t, n)
           verdict == Verdict(t, n, r.tainted)
           Is(f, len) == f = [k \in 0..len |->
                                IF k = 0 THEN r
                                ELSE AssignName(t, graphs, reaching, n, verdict, f[k - 1], names[k])]
           T == {len \in 0..Len(names) : ~\E f : Is(f, len)}
           g == CHOOSE f : Is(f, Len(names))
<1>0. Len(names) \in Nat OBVIOUS
<1>1. T = {}
  <2> SUFFICES ASSUME T # {} PROVE FALSE OBVIOUS
  <2>1. T \subseteq Nat OBVIOUS
  <2>2. PICK len \in T : \A y \in T : len <= y
    <3> HIDE DEF T
    <3>1. QED BY <2>1, LeastOf
  <2>3. CASE len = 0
    <3> DEFINE f == [k \in 0..0 |-> r]
    <3>1. Is(f, 0) OBVIOUS
    <3>3. QED BY <2>2, <2>3, <3>1
  <2>4. CASE len # 0
    <3> HIDE DEF names, verdict, Is
    <3>0. len \in 0..Len(names) OBVIOUS
    <3>1. len \in 1..Len(names) /\ len - 1 \in 0..Len(names)
      <4> HIDE DEF T
      <4>1. QED BY <1>0, <2>4, <3>0
    <3>2. len - 1 \notin T
      <4> HIDE DEF T
      <4>1. QED BY <1>0, <2>2, <3>1
    <3>3. PICK f : Is(f, len - 1) BY <3>1, <3>2
    <3> USE DEF Is
    <3> HIDE DEF T
    <3> DEFINE h == [k \in 0..len |->
                       IF k < len THEN f[k]
                       ELSE AssignName(t, graphs, reaching, n, verdict, f[len - 1], names[len])]
    <3>4. \A k \in 0..len - 1 : h[k] = f[k] BY <3>1
    <3>5. ASSUME NEW k \in 0..len
          PROVE  h[k] = IF k = 0 THEN r
                        ELSE AssignName(t, graphs, reaching, n, verdict, h[k - 1], names[k])
      <4>1. CASE k = len
        <5>1. /\ h[k] = AssignName(t, graphs, reaching, n, verdict, f[len - 1], names[len])
              /\ k # 0 /\ h[k - 1] = f[len - 1]
          BY <3>1, <3>4, <4>1
        <5> HIDE DEF h
        <5>2. QED BY <4>1, <5>1
      <4>2. CASE k # len
        <5>1. k \in 0..len - 1 /\ (k # 0 => k - 1 \in 0..len - 1) BY <3>1, <4>2
        <5>2. h[k] = f[k] /\ (k # 0 => h[k - 1] = f[k - 1]) BY <3>4, <5>1
        <5> HIDE DEF h
        <5>3. f[k] = IF k = 0 THEN r
                     ELSE AssignName(t, graphs, reaching, n, verdict, f[k - 1], names[k])
          BY <3>3, <5>1
        <5>4. QED BY <5>2, <5>3
      <4>3. QED BY <4>1, <4>2
    <3>6. Is(h, len)
      <4>1. h = [k \in 0..len |-> h[k]] OBVIOUS
      <4> HIDE DEF h
      <4>2. QED BY <3>5, <4>1
    <3>7. len \notin T BY <3>6 DEF T
    <3>8. QED BY <2>2, <3>7
  <2>5. QED BY <2>3, <2>4
<1>2. Is(g, Len(names))
  <2>1. Len(names) \notin T BY <1>1
  <2>2. \E f : Is(f, Len(names)) BY <2>1
  <2> HIDE DEF Is
  <2>3. QED BY <2>2
<1>3. Assign(t, graphs, reaching, r, n) = g[Len(names)] BY DEF Assign
<1> HIDE DEF g, names, verdict
<1>4. g[0] = r BY <1>0, <1>2
<1>5. ASSUME NEW k \in 1..Len(names)
      PROVE  g[k] = AssignName(t, graphs, reaching, n, verdict, g[k - 1], names[k])
  <2>1. k \in 0..Len(names) /\ k # 0 BY <1>0
  <2>2. QED BY <1>2, <2>1
<1>6. QED BY <1>3, <1>4, <1>5 DEF names, verdict

------------------------------------------------------------------------------
(* Trees                                                                      *)

LEMMA MinOf ==
  ASSUME NEW S, S \subseteq Nat, S # {}
  PROVE  Min(S) \in S /\ \A x \in S : Min(S) <= x
<1>1. PICK x \in S : \A y \in S : x <= y BY LeastOf
<1>2. QED BY <1>1 DEF Min

LEMMA MaxOf ==
  ASSUME NEW S, NEW k \in Nat, S \subseteq 0..k, S # {}
  PROVE  Max(S) \in S /\ \A x \in S : x <= Max(S)
<1> DEFINE T == {k - x : x \in S}
<1>1. T \subseteq Nat /\ T # {} OBVIOUS
<1>2. PICK y \in T : \A z \in T : y <= z
  <2> HIDE DEF T
  <2>1. QED BY <1>1, LeastOf
<1>3. PICK x \in S : y = k - x BY <1>2
<1>4. \A z \in S : k - x <= k - z BY <1>2, <1>3
<1>5. \A z \in S : x >= z
  <2> SUFFICES ASSUME NEW z \in S PROVE x >= z OBVIOUS
  <2>1. x \in 0..k /\ z \in 0..k OBVIOUS
  <2>2. k - x <= k - z BY <1>4
  <2>3. QED BY <2>1, <2>2
<1>6. Max(S) \in S /\ \A z \in S : Max(S) >= z BY <1>3, <1>5 DEF Max
<1>7. QED
  <2> SUFFICES ASSUME NEW z \in S PROVE z <= Max(S) BY <1>6
  <2>1. z \in 0..k /\ Max(S) \in 0..k /\ Max(S) >= z BY <1>6
  <2>2. QED BY <2>1

\* The empty name; the SMT backend takes no empty string.
NoName == ""

LEMMA NodesAreNumbers == \A k \in Nat : 1..k \subseteq Nat
OBVIOUS

\* The nodes below a node, and the last of its children.
LEMMA Below ==
  ASSUME NEW t, IsATree(t), NEW n \in DOMAIN t
  PROVE  /\ Len(t) \in Nat /\ DOMAIN t = 1..Len(t) /\ t[n].last \in n..Len(t)
         /\ ChildrenOf(t, n) \subseteq (n + 1)..t[n].last /\ ChildrenOf(t, n) \subseteq DOMAIN t
         /\ ChildrenOf(t, n) # {} => LastChild(t, n) \in ChildrenOf(t, n)
         /\ Subtree(t, n) \subseteq DOMAIN t
         /\ \A m \in ChildrenOf(t, n) : Subtree(t, m) \subseteq Subtree(t, n) \ {n}
<1>1. Len(t) \in Nat /\ DOMAIN t = 1..Len(t) BY DEF IsATree, IsASlice
<1>2. t[n].last \in n..Len(t) BY DEF IsATree
<1>3. ChildrenOf(t, n) \subseteq (n + 1)..t[n].last BY DEF ChildrenOf, Descendants
<1>4. ChildrenOf(t, n) \subseteq DOMAIN t BY <1>1, <1>2, <1>3
<1>5. ChildrenOf(t, n) # {} => LastChild(t, n) \in ChildrenOf(t, n)
  <2>1. ChildrenOf(t, n) \subseteq 0..Len(t) BY <1>1, <1>4
  <2>2. QED BY <1>1, <2>1, MaxOf DEF LastChild
<1>6. Subtree(t, n) \subseteq DOMAIN t BY <1>1, <1>2 DEF Subtree
<1>7. ASSUME NEW m \in ChildrenOf(t, n) PROVE Subtree(t, m) \subseteq Subtree(t, n) \ {n}
  <2>1. m \in DOMAIN t /\ m > n /\ t[m].parent = n /\ n # 0
    BY <1>1, <1>2, <1>3, <1>4 DEF ChildrenOf
  <2>2. t[m].last \in m..Len(t) /\ t[m].last <= t[n].last BY <2>1 DEF IsATree
  <2>3. QED BY <1>1, <1>2, <2>1, <2>2 DEF Subtree
<1>8. QED BY <1>1, <1>2, <1>3, <1>4, <1>5, <1>6, <1>7

\* The names an assignment binds are names of its left-hand side.
LEMMA LhsNamesAre ==
  ASSUME NEW t, IsATree(t), NEW n \in DOMAIN t
  PROVE  /\ IsASlice(LhsNames(t, n))
         /\ \A k \in 1..Len(LhsNames(t, n)) :
              LhsNames(t, n)[k] \in ToSet(t[n].lhs) \ {NoName} /\ LhsNames(t, n)[k] \in Variables(t)
<1> DEFINE lhs == t[n].lhs
           named == {i \in DOMAIN lhs : lhs[i] \notin {NoName, "_"}}
<1>1. IsASlice(lhs) /\ (Len(lhs) = 1 => lhs[1] # NoName) BY DEF IsATree, NoName
<1>2. DOMAIN lhs = 1..Len(lhs) /\ Len(lhs) \in Nat BY <1>1 DEF IsASlice
<1>3. ToSet(lhs) \subseteq Variables(t) BY DEF Variables
<1>4. /\ IsASlice(LhsNames(t, n))
      /\ \A k \in 1..Len(LhsNames(t, n)) : LhsNames(t, n)[k] \in ToSet(lhs) \ {NoName}
  <2>1. CASE Len(lhs) = 1
    <3>1. LhsNames(t, n) = lhs BY <2>1 DEF LhsNames, NoName
    <3>3. lhs[1] # NoName BY <1>1, <2>1
    <3>4. \A k \in 1..Len(lhs) : lhs[k] \in ToSet(lhs) /\ k = 1 BY <1>2, <2>1 DEF ToSet
    <3>5. \A k \in 1..Len(lhs) : lhs[k] \in ToSet(lhs) \ {NoName} BY <3>3, <3>4
    <3>6. QED BY <1>1, <3>1, <3>5
  <2>2. CASE Len(lhs) # 1
    <3>1. LhsNames(t, n) = Picked(lhs, named) BY <2>2 DEF LhsNames, NoName
    <3>2. ArePlaces(named)
      <4>1. named \in SUBSET (1..Len(lhs)) BY <1>2
      <4> HIDE DEF named, lhs
      <4>2. IsFiniteSet(1..Len(lhs)) BY <1>2, FS_Interval
      <4>3. IsFiniteSet(named) BY <4>1, <4>2, FS_Subset
      <4>4. named \subseteq Nat BY <1>2, <4>1
      <4>5. QED BY <4>3, <4>4 DEF ArePlaces
    <3> HIDE DEF lhs
    <3>3. /\ IsASequence(Picked(lhs, named))
          /\ \A i \in 1..Len(Picked(lhs, named)) : \E k \in named : Picked(lhs, named)[i] = lhs[k]
      <4> HIDE DEF named
      <4>1. QED BY <3>2, PickingFrom
    <3>4. \A k \in named : lhs[k] \in ToSet(lhs) \ {NoName} BY DEF ToSet
    <3> HIDE DEF named
    <3>5. QED BY <3>1, <3>3, <3>4 DEF IsASequence, IsASlice
  <2>3. QED BY <2>1, <2>2
<1>5. QED BY <1>3, <1>4

\* A name that an assignment is said to refer to is tainted and stands in its
\* right-hand side; it is said to refer to none only if no tainted name does.
LEMMA References ==
  ASSUME NEW t, IsATree(t), NEW n \in DOMAIN t, NEW tainted, NoName \notin tainted
  PROVE  LET ref == RhsReference(t, n, tainted)
             from == Subtree(t, LastChild(t, n))
         IN  /\ ref # NoName => ref \in tainted /\ ChildrenOf(t, n) # {} /\ ref \in NamesIn(t, from)
             /\ ref = NoName => ChildrenOf(t, n) = {} \/ NamesIn(t, from) \cap tainted = {}
<1> DEFINE from == Subtree(t, LastChild(t, n))
           refs == {m \in Identifiers(t, from) : t[m].text \in tainted}
<1>1. CASE ChildrenOf(t, n) = {} BY <1>1 DEF RhsReference, NoName
<1>2. CASE ChildrenOf(t, n) # {} /\ refs = {}
  <2>1. NamesIn(t, from) \cap tainted = {} BY <1>2 DEF NamesIn
  <2>2. RhsReference(t, n, tainted) = NoName BY <1>2 DEF RhsReference, NoName
  <2>3. QED BY <2>1, <2>2
<1>3. CASE ChildrenOf(t, n) # {} /\ refs # {}
  <2>1. from \subseteq Nat
    <3>1. LastChild(t, n) \in DOMAIN t BY <1>3, Below
    <3>2. from \subseteq DOMAIN t BY <3>1, Below
    <3>3. Len(t) \in Nat /\ DOMAIN t = 1..Len(t) BY DEF IsATree, IsASlice
    <3>4. QED BY <3>2, <3>3, NodesAreNumbers
  <2>2. refs \subseteq Nat BY <2>1 DEF Identifiers
  <2>3. Min(refs) \in refs
    <3> HIDE DEF refs
    <3>1. QED BY <1>3, <2>2, MinOf
  <2>4. RhsReference(t, n, tainted) = t[Min(refs)].text BY <1>3 DEF RhsReference, NoName
  <2>5. t[Min(refs)].text \in tainted /\ t[Min(refs)].text \in NamesIn(t, from) BY <2>3 DEF NamesIn
  <2>6. QED BY <1>3, <2>4, <2>5
<1>4. QED BY <1>1, <1>2, <1>3

------------------------------------------------------------------------------
(* The verdict on a right-hand side                                           *)

\* What taints without a reference is a source, or a function that always taints:
\* an argument that is tainted would have been the reference.
LEMMA VerdictsAre ==
  ASSUME NEW t, IsATree(t), NEW n \in DOMAIN t, NEW tainted, NoName \notin tainted
  PROVE  LET verdict == Verdict(t, n, tainted)
         IN  /\ verdict.tainted \in BOOLEAN
             /\ verdict.ref # NoName =>
                  /\ verdict.tainted /\ verdict.ref \in tainted /\ ChildrenOf(t, n) # {}
                  /\ verdict.ref \in NamesIn(t, Subtree(t, LastChild(t, n)))
             /\ verdict.tainted /\ verdict.ref = NoName => \A names : FromSourceIn(t, names, n)
<1> DEFINE ref == RhsReference(t, n, tainted)
           verdict == Verdict(t, n, tainted)
           call == LastChild(t, n)
           is(tainting, why, from) == [tainted |-> tainting, reason |-> why, ref |-> from]
<1>1. /\ ref # NoName => ref \in tainted /\ ChildrenOf(t, n) # {} /\ ref \in NamesIn(t, Subtree(t, call))
      /\ ref = NoName => ChildrenOf(t, n) = {} \/ NamesIn(t, Subtree(t, call)) \cap tainted = {}
  BY References
<1>2. \/ verdict.tainted = TRUE /\ verdict.ref = NoName /\ "source" \in t[n].rhs
      \/ verdict.tainted = TRUE /\ verdict.ref = ref /\ ref # NoName
      \/ verdict.tainted = TRUE /\ verdict.ref = NoName /\ ref = NoName /\ TaintedViaSummary(t, n, tainted)
      \/ verdict.tainted = FALSE /\ verdict.ref = NoName
  <2> HIDE DEF is, ref
  <2>1. verdict = CASE "sanitizer" \in t[n].rhs -> is(FALSE, NoReason, NoName)
                    [] "source" \in t[n].rhs /\ "sanitizer" \notin t[n].rhs -> is(TRUE, <<"source", NoName>>, NoName)
                    [] t[n].rhs = {} /\ ref # NoName -> is(TRUE, <<"propagated", ref>>, ref)
                    [] t[n].rhs = {} /\ ref = NoName /\ TaintedViaSummary(t, n, tainted) ->
                         is(TRUE, <<"summary", SimpleCallee(t, call)>>, NoName)
                    [] OTHER -> is(FALSE, NoReason, NoName)
    BY DEF Verdict, NoName, is, ref
  <2> HIDE DEF verdict
  <2>2. \/ verdict = is(TRUE, <<"source", NoName>>, NoName) /\ "source" \in t[n].rhs
        \/ verdict = is(TRUE, <<"propagated", ref>>, ref) /\ ref # NoName
        \/ /\ verdict = is(TRUE, <<"summary", SimpleCallee(t, call)>>, NoName)
           /\ ref = NoName /\ TaintedViaSummary(t, n, tainted)
        \/ verdict = is(FALSE, NoReason, NoName)
    <3>1. CASE "sanitizer" \in t[n].rhs BY <2>1, <3>1
    <3>2. CASE "sanitizer" \notin t[n].rhs /\ "source" \in t[n].rhs BY <2>1, <3>2
    <3>3. CASE "sanitizer" \notin t[n].rhs /\ "source" \notin t[n].rhs BY <2>1, <3>3
    <3>4. QED BY <3>1, <3>2, <3>3
  <2>3. CASE verdict = is(TRUE, <<"source", NoName>>, NoName) /\ "source" \in t[n].rhs BY <2>3, Zenon DEF is
  <2>4. CASE verdict = is(TRUE, <<"propagated", ref>>, ref) /\ ref # NoName BY <2>4, Zenon DEF is
  <2>5. CASE /\ verdict = is(TRUE, <<"summary", SimpleCallee(t, call)>>, NoName)
             /\ ref = NoName /\ TaintedViaSummary(t, n, tainted)
    BY <2>5, Zenon DEF is
  <2>6. CASE verdict = is(FALSE, NoReason, NoName) BY <2>6, Zenon DEF is
  <2>7. QED BY <2>2, <2>3, <2>4, <2>5, <2>6
<1>3. ASSUME ref = NoName, TaintedViaSummary(t, n, tainted), NEW names
      PROVE  FromSourceIn(t, names, n)
  <2>1. /\ ChildrenOf(t, n) # {} /\ SimpleCallee(t, call) \in Summarized(t)
        /\ \/ Summary(t, SimpleCallee(t, call)).alwaysTainted
           \/ AnyCallArgTainted(t, call, tainted)
    BY <1>3 DEF TaintedViaSummary
  <2>2. ~AnyCallArgTainted(t, call, tainted)
    <3> SUFFICES ASSUME NEW m \in ChildrenOf(t, call), NamesIn(t, Subtree(t, m)) \cap tainted # {}
                 PROVE  FALSE
      BY DEF AnyCallArgTainted
    <3>1. call \in DOMAIN t BY <2>1, Below
    <3>2. Subtree(t, m) \subseteq Subtree(t, call) BY <3>1, Below
    <3>3. NamesIn(t, Subtree(t, m)) \subseteq NamesIn(t, Subtree(t, call))
      BY <3>2 DEF NamesIn, Identifiers
    <3>4. QED BY <1>1, <1>3, <2>1, <3>3
  <2>3. QED BY <2>1, <2>2 DEF FromSourceIn
<1>4. "source" \in t[n].rhs => \A names : FromSourceIn(t, names, n) BY DEF FromSourceIn
<1> HIDE DEF verdict, ref, call
<1>5. verdict.tainted \in BOOLEAN BY <1>2
<1>6. verdict.ref # NoName => verdict.tainted /\ verdict.ref = ref BY <1>2
<1>7. ASSUME verdict.tainted, verdict.ref = NoName, NEW names PROVE FromSourceIn(t, names, n)
  BY <1>2, <1>3, <1>4, <1>7
<1>8. QED BY <1>1, <1>5, <1>6, <1>7 DEF verdict, call

------------------------------------------------------------------------------
(* What the walk over the assignments keeps                                   *)

Binds(t, v, m) == Defines(t, m) /\ v \in ToSet(LhsNames(t, m))
Follows(t, m, n) ==
  \/ ToSet(t[m].lhs) \cap NamesIn(t, Subtree(t, LastChild(t, n))) # {}
  \/ t[n].augmented /\ ToSet(t[m].lhs) \cap ToSet(t[n].lhs) # {}

\* A path of a name that the nodes in bound bind.
Chain(t, path, bound) ==
  path # <<>> =>
    /\ IsASequence(path) /\ Last(path) \in bound /\ \A m \in bound : m <= Last(path)
    /\ \A i \in 2..Len(path) : Follows(t, path[i - 1], path[i])

\* The verdicts r, when the nodes in bound[v] have bound v so far and names has all
\* that a source reaches.
Kept(t, graphs, names, bound, r) ==
  /\ r.tainted \subseteq Variables(t) \ {NoName}
  /\ r.tainted \ r.weak \subseteq names
  /\ DOMAIN r.paths = Variables(t)
  /\ \A v \in Variables(t) : Chain(t, r.paths[v], bound[v]) /\ (~graphs => r.paths[v] = <<>>)

\* A path grows by a node that follows the last one in it.
LEMMA ChainsGrow ==
  ASSUME NEW t, NEW path, NEW bound, Chain(t, path, bound), NEW n,
         \A m \in bound : Follows(t, m, n),
         NEW others, n \in others, \A m \in others : m <= n
  PROVE  Chain(t, Append(path, n), others)
<1> DEFINE longer == Append(path, n)
<1>1. IsASequence(path) BY EmptyIsASequence DEF Chain
<1>2. /\ IsASequence(longer) /\ Len(longer) = Len(path) + 1 /\ Len(path) \in Nat
      /\ \A i \in 1..Len(path) : longer[i] = path[i]
      /\ longer[Len(path) + 1] = n
  BY <1>1, Appending DEF IsASequence
<1>3. path = <<>> => Len(path) = 0 BY EmptyIsASequence
<1> HIDE DEF longer
<1>4. Last(longer) = n BY <1>2 DEF Last
<1>5. ASSUME NEW i \in 2..Len(longer) PROVE Follows(t, longer[i - 1], longer[i])
  <2>1. path # <<>> /\ i \in 2..Len(path) + 1 /\ longer[i - 1] = path[i - 1] BY <1>2, <1>3
  <2>2. CASE i <= Len(path)
    <3>1. i \in 2..Len(path) /\ longer[i] = path[i] BY <1>2, <2>1, <2>2
    <3>2. QED BY <2>1, <3>1 DEF Chain
  <2>3. CASE i = Len(path) + 1
    <3>1. longer[i] = n /\ path[i - 1] = Last(path) BY <1>2, <2>1, <2>3 DEF Last
    <3>2. Last(path) \in bound BY <2>1 DEF Chain
    <3>3. QED BY <2>1, <3>1, <3>2
  <2>4. QED BY <1>2, <2>1, <2>2, <2>3
<1>6. Chain(t, longer, others) BY <1>2, <1>4, <1>5 DEF Chain
<1>7. QED BY <1>6 DEF longer

LEMMA EmptyChain == ASSUME NEW t, NEW bound PROVE Chain(t, <<>>, bound)
BY DEF Chain

\* What assignment n adds to names, what its verdict rests on, and what its binding
\* of v adds to those before.
Closed(t, names, n) == FromSourceIn(t, names, n) => ToSet(t[n].lhs) \subseteq names
Grounded(t, names, n, verdict) ==
  /\ verdict.tainted \in BOOLEAN
  /\ verdict.ref # NoName =>
       /\ verdict.tainted /\ ChildrenOf(t, n) # {}
       /\ verdict.ref \in NamesIn(t, Subtree(t, LastChild(t, n)))
  /\ verdict.tainted /\ verdict.ref = NoName => FromSourceIn(t, names, n)
Extended(t, n, v, bound, others) ==
  /\ \A x \in Variables(t) : \A m \in bound[x] : x \in ToSet(t[m].lhs) /\ m <= n
  /\ others[v] = bound[v] \cup {n}
  /\ \A x \in Variables(t) : x # v => others[x] = bound[x]

LEMMA SingleChain ==
  ASSUME NEW t, NEW n, NEW bound, n \in bound, \A m \in bound : m <= n
  PROVE  Chain(t, <<n>>, bound)
<1> DEFINE none == {}
<1>1. Append(<<>>, n) = <<n>> OBVIOUS
<1>2. Chain(t, <<>>, none) BY EmptyChain
<1>3. \A m \in none : Follows(t, m, n) OBVIOUS
<1> HIDE DEF none
<1>4. Chain(t, Append(<<>>, n), bound) BY <1>2, <1>3, ChainsGrow
<1>5. QED BY <1>1, <1>4

\* One name of an assignment: it refers to a name tainted before, or to none.
LEMMA AssignNameKeeps ==
  ASSUME NEW t, NEW n \in DOMAIN t, n \in Nat, NEW graphs, NEW reaching, NEW names, Closed(t, names, n),
         NEW verdict, Grounded(t, names, n, verdict),
         NEW r, verdict.ref # NoName => verdict.ref \in r.tainted,
         NEW v \in Variables(t), v # NoName, v \in ToSet(t[n].lhs),
         NEW bound, NEW others, Extended(t, n, v, bound, others), Kept(t, graphs, names, bound, r)
  PROVE  LET next == AssignName(t, graphs, reaching, n, verdict, r, v)
         IN  Kept(t, graphs, names, others, next) /\ (verdict.tainted => r.tainted \subseteq next.tainted)
<1> DEFINE inherits == t[n].augmented /\ ~verdict.tainted /\ v \in r.tainted
           ref == IF inherits THEN v ELSE verdict.ref
           taints == verdict.tainted \/ inherits
           weak == ref # NoName /\ ref \in r.weak
           path == ExtendPath(t, reaching, n, ref, r.paths)
           next == AssignName(t, graphs, reaching, n, verdict, r, v)
<1> USE DEF Closed, Grounded, Extended
<1>1. /\ next.tainted = IF taints THEN r.tainted \cup {v} ELSE r.tainted \ {v}
      /\ next.weak = IF taints /\ weak THEN r.weak \cup {v} ELSE r.weak \ {v}
      /\ next.paths = IF taints THEN (IF graphs THEN [r.paths EXCEPT ![v] = path] ELSE r.paths)
                      ELSE [r.paths EXCEPT ![v] = <<>>]
  <2>1. CASE taints BY <2>1 DEF AssignName, NoName
  <2>2. CASE ~taints BY <2>2 DEF AssignName, NoName
  <2>3. QED BY <2>1, <2>2
<1>2. taints => ref = NoName \/ ref \in r.tainted OBVIOUS
<1>3. ref # NoName => \A m : ref \in ToSet(t[m].lhs) => Follows(t, m, n)
  <2>1. CASE inherits BY <2>1 DEF Follows
  <2>2. CASE ~inherits BY <2>2 DEF Follows
  <2>3. QED BY <2>1, <2>2
<1>4. taints /\ ~weak => v \in names
  <2> SUFFICES ASSUME taints, ~weak PROVE v \in names OBVIOUS
  <2>1. CASE inherits
    <3>1. v \in r.tainted \ r.weak BY <2>1
    <3>2. QED BY <3>1 DEF Kept
  <2>2. CASE ~inherits /\ verdict.ref = NoName BY <2>2
  <2>3. CASE ~inherits /\ verdict.ref # NoName
    <3>1. verdict.ref \in r.tainted \ r.weak BY <2>3
    <3>2. verdict.ref \in names BY <3>1 DEF Kept
    <3>3. FromSourceIn(t, names, n) BY <2>3, <3>2 DEF FromSourceIn
    <3>4. QED BY <3>3
  <2>4. QED BY <2>1, <2>2, <2>3
<1>5. v \in DOMAIN r.paths BY DEF Kept
<1> HIDE DEF next
<1>6. next.tainted \subseteq Variables(t) \ {NoName} BY <1>1 DEF Kept
<1>7. next.tainted \ next.weak \subseteq names
  <2>1. r.tainted \ r.weak \subseteq names BY DEF Kept
  <2> HIDE DEF weak, taints
  <2>2. QED BY <1>1, <1>4, <2>1
<1>8. DOMAIN next.paths = Variables(t) BY <1>1 DEF Kept
<1>9. ASSUME NEW x \in Variables(t)
      PROVE  Chain(t, next.paths[x], others[x]) /\ (~graphs => next.paths[x] = <<>>)
  <2>1. Chain(t, r.paths[x], bound[x]) /\ (~graphs => r.paths[x] = <<>>) BY DEF Kept
  <2>2. CASE x # v
    <3>1. x \in DOMAIN r.paths BY DEF Kept
    <3>2. next.paths[x] = r.paths[x]
      <4> HIDE DEF path, taints
      <4>1. QED BY <1>1, <2>2, <3>1
    <3>3. QED BY <2>1, <2>2, <3>2
  <2>3. CASE x = v /\ ~(taints /\ graphs)
    <3>1. next.paths[x] = <<>> BY <1>1, <1>5, <2>1, <2>3
    <3>2. QED BY <3>1, EmptyChain
  <2>4. CASE x = v /\ taints /\ graphs
    <3>1. next.paths[x] = path BY <1>1, <1>5, <2>4
    <3>2. n \in others[x] /\ \A m \in others[x] : m <= n
      <4>1. others[x] = bound[x] \cup {n} BY <2>4
      <4>2. \A m \in bound[x] : m <= n OBVIOUS
      <4>3. n <= n OBVIOUS
      <4>4. QED BY <4>1, <4>2, <4>3, Zenon
    <3>3. CASE ref = NoName
      <4>1. path = <<n>> BY <3>3 DEF ExtendPath, NoName
      <4>2. Chain(t, <<n>>, others[x]) BY <3>2, SingleChain
      <4>3. QED BY <2>4, <3>1, <4>1, <4>2
    <3>4. CASE ref # NoName
      <4>1. path = <<>> \/ path = Append(r.paths[ref], n) BY <3>4 DEF ExtendPath, NoName
      <4>2. ref \in Variables(t) BY <1>2, <2>4, <3>4 DEF Kept
      <4>3. Chain(t, r.paths[ref], bound[ref]) BY <4>2 DEF Kept
      <4>4. \A m \in bound[ref] : Follows(t, m, n) BY <1>3, <3>4, <4>2
      <4> HIDE DEF path, ref, taints
      <4>5. Chain(t, Append(r.paths[ref], n), others[x]) BY <3>2, <4>3, <4>4, ChainsGrow
      <4>6. QED BY <2>4, <3>1, <4>1, <4>5, EmptyChain
    <3>5. QED BY <3>3, <3>4
  <2>5. QED BY <2>2, <2>3, <2>4
<1>10. verdict.tainted => r.tainted \subseteq next.tainted BY <1>1
<1>11. QED BY <1>6, <1>7, <1>8, <1>9, <1>10 DEF next, Kept

LEMMA UpTo ==
  ASSUME NEW P, NEW len \in Nat, 0 \in P, \A k \in 1..len : k - 1 \in P => k \in P
  PROVE  \A k \in 0..len : k \in P
<1> DEFINE T == {k \in 0..len : k \notin P}
<1>1. T = {}
  <2> SUFFICES ASSUME T # {} PROVE FALSE OBVIOUS
  <2>1. T \subseteq Nat OBVIOUS
  <2>2. PICK k \in T : \A y \in T : k <= y
    <3> HIDE DEF T
    <3>1. QED BY <2>1, LeastOf
  <2>3. k \in 1..len /\ k - 1 \in 0..len /\ ~(k <= k - 1) BY <2>2
  <2>4. k - 1 \in P BY <2>2, <2>3
  <2>5. QED BY <2>2, <2>3, <2>4
<1>2. QED BY <1>1

\* The assignments before node k that bind v.
Bound(t, k) == [v \in Variables(t) |-> {m \in DOMAIN t : m < k /\ Binds(t, v, m)}]

LEMMA AssignKeeps ==
  ASSUME NEW t, IsATree(t), NEW n \in DOMAIN t, Defines(t, n), NEW graphs, NEW reaching, NEW names,
         Closed(t, names, n),
         NEW r, Kept(t, graphs, names, Bound(t, n), r)
  PROVE  Kept(t, graphs, names, Bound(t, n + 1), Assign(t, graphs, reaching, r, n))
<1> DEFINE lhs == LhsNames(t, n)
           len == Len(lhs)
           verdict == Verdict(t, n, r.tainted)
           bound(k) == [v \in Variables(t) |->
                          Bound(t, n)[v] \cup {m \in {n} : \E i \in 1..k : lhs[i] = v}]
<1>1. /\ Len(t) \in Nat /\ DOMAIN t = 1..Len(t) BY DEF IsATree, IsASlice
<1>2. n \in Nat /\ n \in 1..Len(t) BY <1>1
<1>3. /\ len \in Nat /\ DOMAIN lhs = 1..len
      /\ \A k \in 1..len : lhs[k] \in ToSet(t[n].lhs) \ {NoName} /\ lhs[k] \in Variables(t)
  BY LhsNamesAre DEF IsASlice
<1>4. NoName \notin r.tainted /\ r.tainted \subseteq Variables(t) BY DEF Kept
<1>5. Grounded(t, names, n, verdict) /\ (verdict.ref # NoName => verdict.tainted /\ verdict.ref \in r.tainted)
  BY <1>4, VerdictsAre DEF Grounded
<1>6. PICK g : /\ g[0] = r
               /\ \A k \in 1..len :
                    g[k] = AssignName(t, graphs, reaching, n, verdict, g[k - 1], lhs[k])
               /\ Assign(t, graphs, reaching, r, n) = g[len]
  BY <1>3, AssignUnfolds
<1> HIDE DEF lhs, len, verdict
<1>7. \A k \in 0..len : \A v \in Variables(t) : \A m \in bound(k)[v] :
        v \in ToSet(t[m].lhs) /\ m <= n
  <2> SUFFICES ASSUME NEW k \in 0..len, NEW v \in Variables(t), NEW m \in bound(k)[v]
               PROVE  v \in ToSet(t[m].lhs) /\ m <= n
    OBVIOUS
  <2>1. CASE m \in Bound(t, n)[v]
    <3>1. m \in DOMAIN t /\ m < n /\ v \in ToSet(LhsNames(t, m)) BY <2>1 DEF Bound, Binds
    <3>2. PICK i \in DOMAIN LhsNames(t, m) : v = LhsNames(t, m)[i] BY <3>1 DEF ToSet
    <3>3. DOMAIN LhsNames(t, m) = 1..Len(LhsNames(t, m)) BY <3>1, LhsNamesAre DEF IsASlice
    <3>4. v \in ToSet(t[m].lhs) BY <3>1, <3>2, <3>3, LhsNamesAre
    <3>5. QED BY <1>1, <1>2, <3>1, <3>4
  <2>2. CASE m \notin Bound(t, n)[v]
    <3>1. m = n /\ \E i \in 1..k : lhs[i] = v BY <2>2
    <3>2. PICK i \in 1..k : lhs[i] = v BY <3>1
    <3>3. i \in 1..len BY <1>3, <3>2
    <3>4. v \in ToSet(t[n].lhs) BY <1>3, <3>2, <3>3
    <3>5. QED BY <1>2, <3>1, <3>4
  <2>3. QED BY <2>1, <2>2
<1> DEFINE P == {k \in 0..len : /\ Kept(t, graphs, names, bound(k), g[k])
                                /\ verdict.tainted => r.tainted \subseteq g[k].tainted}
<1>8. 0 \in P
  <2>1. bound(0) = Bound(t, n)
    <3>1. \A v \in Variables(t) : bound(0)[v] = Bound(t, n)[v] OBVIOUS
    <3>2. Bound(t, n) = [v \in Variables(t) |-> Bound(t, n)[v]] BY DEF Bound
    <3>3. bound(0) = [v \in Variables(t) |-> bound(0)[v]] OBVIOUS
    <3> HIDE DEF bound
    <3>4. QED BY <3>1, <3>2, <3>3
  <2> HIDE DEF bound
  <2>2. 0 \in 0..len BY <1>3
  <2>3. QED BY <1>6, <2>1, <2>2
<1>9. ASSUME NEW k \in 1..len, k - 1 \in P PROVE k \in P
  <2>1. k - 1 \in 0..len /\ k \in 0..len BY <1>3
  <2>2. /\ Kept(t, graphs, names, bound(k - 1), g[k - 1])
        /\ verdict.tainted => r.tainted \subseteq g[k - 1].tainted
    <3> HIDE DEF bound
    <3>1. QED BY <1>9
  <2>3. g[k] = AssignName(t, graphs, reaching, n, verdict, g[k - 1], lhs[k]) BY <1>6
  <2>4. lhs[k] \in Variables(t) /\ lhs[k] # NoName /\ lhs[k] \in ToSet(t[n].lhs) BY <1>3
  <2>5. bound(k)[lhs[k]] = bound(k - 1)[lhs[k]] \cup {n}
    <3>1. \E i \in 1..k : lhs[i] = lhs[k] OBVIOUS
    <3>2. bound(k)[lhs[k]] = Bound(t, n)[lhs[k]] \cup {n} BY <2>4, <3>1
    <3>3. bound(k - 1)[lhs[k]] = Bound(t, n)[lhs[k]] \cup {m \in {n} : \E i \in 1..k - 1 : lhs[i] = lhs[k]}
      BY <2>4
    <3> HIDE DEF bound
    <3>4. QED BY <3>2, <3>3
  <2>6. \A x \in Variables(t) : x # lhs[k] => bound(k)[x] = bound(k - 1)[x]
    <3> SUFFICES ASSUME NEW x \in Variables(t), x # lhs[k] PROVE bound(k)[x] = bound(k - 1)[x]
      OBVIOUS
    <3>1. (\E i \in 1..k : lhs[i] = x) <=> (\E i \in 1..k - 1 : lhs[i] = x)
      <4>1. \A i \in 1..k : i = k \/ i \in 1..k - 1 BY <1>3
      <4>2. \A i \in 1..k - 1 : i \in 1..k BY <1>3
      <4>3. QED BY <4>1, <4>2
    <3>2. QED BY <3>1
  <2>7. \A v \in Variables(t) : \A m \in bound(k - 1)[v] : v \in ToSet(t[m].lhs) /\ m <= n
    BY <1>7, <2>1
  <2> HIDE DEF bound
  <2>8. verdict.ref # NoName => verdict.ref \in g[k - 1].tainted BY <1>5, <2>2
  <2> HIDE DEF P
  <2> DEFINE v == lhs[k]
             now == g[k - 1]
             before == bound(k - 1)
             after == bound(k)
  <2>9. /\ Kept(t, graphs, names, before, now) /\ Extended(t, n, v, before, after)
        /\ v \in Variables(t) /\ v # NoName /\ v \in ToSet(t[n].lhs)
        /\ verdict.ref # NoName => verdict.ref \in now.tainted
    BY <2>2, <2>4, <2>5, <2>6, <2>7, <2>8 DEF Extended
  <2>10. LET next == AssignName(t, graphs, reaching, n, verdict, now, v)
        IN  /\ Kept(t, graphs, names, after, next)
            /\ verdict.tainted => now.tainted \subseteq next.tainted
    <3> HIDE DEF v, now, before, after
    <3>1. QED BY <1>2, <1>5, <2>9, AssignNameKeeps
  <2>11. QED BY <2>1, <2>2, <2>3, <2>10 DEF P
<1>10. Kept(t, graphs, names, bound(len), g[len])
  <2> HIDE DEF P, bound
  <2>1. \A k \in 0..len : k \in P BY <1>3, <1>8, <1>9, UpTo
  <2>2. len \in P BY <1>3, <2>1
  <2>3. QED BY <2>2 DEF P
<1>11. bound(len) = Bound(t, n + 1)
  <2>1. ASSUME NEW v \in Variables(t) PROVE bound(len)[v] = Bound(t, n + 1)[v]
    <3>1. (\E i \in 1..len : lhs[i] = v) <=> Binds(t, v, n)
      <4>1. DOMAIN lhs = 1..len BY <1>3
      <4>2. QED BY <4>1 DEF Binds, ToSet, lhs
    <3>2. bound(len)[v] = {m \in DOMAIN t : m < n /\ Binds(t, v, m)} \cup {m \in {n} : Binds(t, v, n)}
      BY <3>1 DEF Bound
    <3>3. Bound(t, n + 1)[v] = {m \in DOMAIN t : m < n + 1 /\ Binds(t, v, m)} BY DEF Bound
    <3>4. \A m \in DOMAIN t : m < n + 1 <=> m < n \/ m = n BY <1>1, <1>2
    <3> HIDE DEF bound
    <3>5. QED BY <3>2, <3>3, <3>4
  <2>2. Bound(t, n + 1) = [v \in Variables(t) |-> Bound(t, n + 1)[v]] BY DEF Bound
  <2>3. bound(len) = [v \in Variables(t) |-> bound(len)[v]] OBVIOUS
  <2> HIDE DEF bound
  <2>4. QED BY <2>1, <2>2, <2>3
<1> HIDE DEF bound
<1>12. QED BY <1>6, <1>10, <1>11

LEMMA SeedsAreKept ==
  ASSUME NEW t, IsATree(t), NEW graphs, NEW names
  PROVE  Kept(t, graphs, names, Bound(t, 1), Seeds(t))
<1>1. Seeds(t).tainted = Seeded(t) /\ Seeds(t).weak = Seeded(t) BY DEF Seeds
<1>2. Seeds(t).paths = [v \in Variables(t) |-> <<>>] BY DEF Seeds
<1>3. Seeded(t) \subseteq Variables(t) \ {NoName}
  <2> DEFINE params == UNION {ToSet(t[n].params) : n \in Of(t, "function")}
  <2>1. Seeded(t) = params \ {NoName, "_"} BY DEF Seeded, NoName
  <2>2. params \subseteq Variables(t) BY DEF Variables, Of
  <2> HIDE DEF params
  <2>3. QED BY <2>1, <2>2
<1>4. \A v \in Variables(t) : Chain(t, <<>>, Bound(t, 1)[v]) BY EmptyChain
<1>5. QED BY <1>1, <1>2, <1>3, <1>4 DEF Kept

\* What the whole analysis of a tree keeps.
LEMMA ContextIsKept ==
  ASSUME NEW t, IsATree(t), NEW graphs, NEW reaching, NEW names,
         \A n \in Of(t, "assignment") : Closed(t, names, n)
  PROVE  Kept(t, graphs, names, Bound(t, Len(t) + 1), BuildContext(t, graphs, reaching))
<1> DEFINE len == Len(t)
<1>1. len \in Nat /\ DOMAIN t = 1..len BY DEF IsATree, IsASlice
<1>2. PICK g : /\ g[0] = Seeds(t)
               /\ \A n \in 1..len :
                    g[n] = IF Defines(t, n) THEN Assign(t, graphs, reaching, g[n - 1], n) ELSE g[n - 1]
               /\ BuildContext(t, graphs, reaching) = g[len]
  BY <1>1, WalkUnfolds
<1> HIDE DEF len
<1> DEFINE P == {k \in 0..len : Kept(t, graphs, names, Bound(t, k + 1), g[k])}
<1>3. 0 \in P
  <2>1. 0 \in 0..len /\ 0 + 1 = 1 BY <1>1
  <2>2. Kept(t, graphs, names, Bound(t, 1), g[0]) BY <1>2, SeedsAreKept
  <2>3. QED BY <2>1, <2>2
<1>4. ASSUME NEW n \in 1..len, n - 1 \in P PROVE n \in P
  <2>1. n - 1 \in 0..len /\ n \in 0..len /\ n \in DOMAIN t /\ (n - 1) + 1 = n BY <1>1
  <2>2. Kept(t, graphs, names, Bound(t, n), g[n - 1]) BY <1>4, <2>1
  <2>3. Kept(t, graphs, names, Bound(t, n + 1), g[n])
    <3>1. CASE Defines(t, n)
      <4>1. g[n] = Assign(t, graphs, reaching, g[n - 1], n) BY <1>2, <3>1
      <4>2. Closed(t, names, n) BY <2>1, <3>1 DEF Defines, Of
      <4> HIDE DEF P
      <4>3. Kept(t, graphs, names, Bound(t, n + 1), Assign(t, graphs, reaching, g[n - 1], n))
        BY <2>1, <2>2, <3>1, <4>2, AssignKeeps
      <4>4. QED BY <4>1, <4>3
    <3>2. CASE ~Defines(t, n)
      <4>1. g[n] = g[n - 1] BY <1>2, <3>2
      <4>2. \A m \in DOMAIN t : m < n + 1 <=> m < n \/ m = n BY <1>1
      <4>3. \A v : ~Binds(t, v, n) BY <3>2 DEF Binds
      <4>4. \A v \in Variables(t) : {m \in DOMAIN t : m < n + 1 /\ Binds(t, v, m)}
                                    = {m \in DOMAIN t : m < n /\ Binds(t, v, m)}
        BY <4>2, <4>3
      <4>5. Bound(t, n + 1) = Bound(t, n) BY <4>4 DEF Bound
      <4>6. QED BY <2>2, <4>1, <4>5
    <3>3. QED BY <3>1, <3>2
  <2>4. QED BY <2>1, <2>3
<1>5. len \in P
  <2> HIDE DEF P
  <2>1. \A k \in 0..len : k \in P BY <1>1, <1>3, <1>4, UpTo
  <2>2. QED BY <1>1, <2>1
<1>6. QED BY <1>2, <1>5 DEF len

\* A name that is tainted, and not weakly, has a source.
LEMMA StrongNamesHaveSources ==
  ASSUME NEW t, IsATree(t), NEW graphs, NEW reaching
  PROVE  LET r == BuildContext(t, graphs, reaching)
         IN  r.tainted \ r.weak \subseteq FromSource(t)
<1> DEFINE r == BuildContext(t, graphs, reaching)
<1> SUFFICES ASSUME NEW v \in r.tainted \ r.weak PROVE v \in FromSource(t)
  OBVIOUS
<1>1. ASSUME NEW names, \A n \in Of(t, "assignment") : Closed(t, names, n)
      PROVE  v \in names /\ v \in Variables(t)
  <2>1. Kept(t, graphs, names, Bound(t, Len(t) + 1), r) BY <1>1, ContextIsKept
  <2> HIDE DEF r
  <2>2. QED BY <2>1 DEF Kept
<1>2. v \in Variables(t)
  <2>1. \A n \in Of(t, "assignment") : Closed(t, Variables(t), n) BY DEF Closed, Of, Variables
  <2>2. QED BY <1>1, <2>1
<1> HIDE DEF r
<1>3. ASSUME NEW names \in SUBSET Variables(t),
             \A n \in Of(t, "assignment") : FromSourceIn(t, names, n) => ToSet(t[n].lhs) \subseteq names
      PROVE  v \in names
  BY <1>1, <1>3 DEF Closed
<1>4. QED BY <1>2, <1>3 DEF FromSource

\* A path ends at the last assignment of its name, and each step follows the one before.
LEMMA PathsFollow ==
  ASSUME NEW t, IsATree(t), NEW graphs, NEW reaching
  PROVE  LET paths == BuildContext(t, graphs, reaching).paths
             binding(v) == {n \in Of(t, "assignment") : t[n].lhs # <<>> /\ v \in ToSet(LhsNames(t, n))}
         IN  \A v \in DOMAIN paths : paths[v] # <<>> =>
               /\ Last(paths[v]) = Max(binding(v))
               /\ \A i \in 2..Len(paths[v]) : Follows(t, paths[v][i - 1], paths[v][i])
<1> DEFINE r == BuildContext(t, graphs, reaching)
           paths == r.paths
           binding(v) == {n \in Of(t, "assignment") : t[n].lhs # <<>> /\ v \in ToSet(LhsNames(t, n))}
           len == Len(t)
<1>1. len \in Nat /\ DOMAIN t = 1..len BY DEF IsATree, IsASlice
<1>2. Kept(t, graphs, Variables(t), Bound(t, len + 1), r)
  <2>1. \A n \in Of(t, "assignment") : Closed(t, Variables(t), n) BY DEF Closed, Of, Variables
  <2>2. QED BY <2>1, ContextIsKept
<1> HIDE DEF r, len
<1> SUFFICES ASSUME NEW v \in DOMAIN paths, paths[v] # <<>>
             PROVE  /\ Last(paths[v]) = Max(binding(v))
                    /\ \A i \in 2..Len(paths[v]) : Follows(t, paths[v][i - 1], paths[v][i])
  BY DEF r
<1>3. v \in Variables(t) /\ Chain(t, paths[v], Bound(t, len + 1)[v]) BY <1>2 DEF Kept
<1>4. Bound(t, len + 1)[v] = binding(v)
  <2>1. \A m \in DOMAIN t : m < len + 1 BY <1>1
  <2>2. Bound(t, len + 1)[v] = {m \in DOMAIN t : m < len + 1 /\ Binds(t, v, m)} BY <1>3 DEF Bound
  <2>3. QED BY <2>1, <2>2 DEF Binds, Defines, Of
<1>5. /\ Last(paths[v]) \in binding(v) /\ \A m \in binding(v) : m <= Last(paths[v])
      /\ \A i \in 2..Len(paths[v]) : Follows(t, paths[v][i - 1], paths[v][i])
  BY <1>3, <1>4 DEF Chain
<1>6. Last(paths[v]) = Max(binding(v))
  <2> DEFINE S == binding(v)
             top == Last(paths[v])
  <2>1. S \subseteq 0..len BY <1>1 DEF Of
  <2>2. top \in S /\ \A m \in S : m <= top BY <1>5
  <2> HIDE DEF S, top
  <2>3. Max(S) \in S /\ \A m \in S : m <= Max(S) BY <1>1, <2>1, <2>2, MaxOf
  <2>4. Max(S) \in 0..len /\ top \in 0..len /\ Max(S) <= top /\ top <= Max(S) BY <2>1, <2>2, <2>3
  <2>5. top = Max(S) BY <1>1, <2>4
  <2>6. QED BY <2>5 DEF S, top
<1>7. QED BY <1>5, <1>6

------------------------------------------------------------------------------
(* Lists in which everything stands once                                      *)

\* The list has the members of S, each once.
ListsOnce(list, S) ==
  /\ IsASequence(list)
  /\ \A i \in 1..Len(list) : list[i] \in S
  /\ \A r \in S : \E i \in 1..Len(list) : list[i] = r
  /\ \A i, j \in 1..Len(list) : list[i] = list[j] => i = j

LEMMA NothingListed == ListsOnce(<<>>, {})
BY EmptyIsASequence DEF ListsOnce

LEMMA PickedOnce ==
  ASSUME NEW seq, NEW P, ArePlaces(P), \A i, j \in P : seq[i] = seq[j] => i = j
  PROVE  ListsOnce(Picked(seq, P), {seq[i] : i \in P})
<1> DEFINE picked == Picked(seq, P)
           len == Cardinality(P)
<1>1. /\ len \in Nat /\ DOMAIN picked = 1..len
      /\ \A n \in 1..len : Place(P, n) \in P /\ Rank(P, Place(P, n)) = n /\ picked[n] = seq[Place(P, n)]
      /\ \A k \in P : Rank(P, k) \in 1..len /\ picked[Rank(P, k)] = seq[k]
  <2>1. P \subseteq Nat /\ IsFiniteSet(P) BY DEF ArePlaces
  <2>2. len \in Nat /\ DOMAIN picked = 1..len BY <2>1, Picking
  <2>3. /\ \A n \in DOMAIN picked :
             Place(P, n) \in P /\ Rank(P, Place(P, n)) = n /\ picked[n] = seq[Place(P, n)]
        /\ \A k \in P : Rank(P, k) \in DOMAIN picked /\ picked[Rank(P, k)] = seq[k]
    BY <2>1, Picking
  <2> HIDE DEF picked, len
  <2>4. QED BY <2>2, <2>3
<1>2. IsASequence(picked) BY PickingFrom
<1> HIDE DEF picked, len
<1>3. Len(picked) = len BY <1>1, <1>2 DEF IsASequence
<1>4. ASSUME NEW i \in 1..len, NEW j \in 1..len, picked[i] = picked[j] PROVE i = j
  <2>1. seq[Place(P, i)] = seq[Place(P, j)] /\ Place(P, i) \in P /\ Place(P, j) \in P BY <1>1, <1>4
  <2>2. Place(P, i) = Place(P, j) BY <2>1
  <2>3. QED BY <1>1, <2>2
<1>5. \A r \in {seq[i] : i \in P} : \E i \in 1..len : picked[i] = r BY <1>1
<1>6. \A i \in 1..len : picked[i] \in {seq[j] : j \in P} BY <1>1
<1>7. QED BY <1>2, <1>3, <1>4, <1>5, <1>6 DEF ListsOnce, picked

LEMMA JoinedOnce ==
  ASSUME NEW a, NEW S, ListsOnce(a, S), NEW b, NEW T, ListsOnce(b, T), S \cap T = {}
  PROVE  ListsOnce(a \o b, S \cup T)
<1> DEFINE c == a \o b
           la == Len(a)
           lb == Len(b)
<1>1. /\ la \in Nat /\ lb \in Nat /\ IsASequence(c) /\ Len(c) = la + lb
      /\ \A n \in 1..la + lb : c[n] = IF n <= la THEN a[n] ELSE b[n - la]
  BY Concatenating DEF ListsOnce, IsASequence
<1>2. /\ \A i \in 1..la : a[i] \in S
      /\ \A r \in S : \E i \in 1..la : a[i] = r
      /\ \A i, j \in 1..la : a[i] = a[j] => i = j
  BY DEF ListsOnce
<1>3. /\ \A i \in 1..lb : b[i] \in T
      /\ \A r \in T : \E i \in 1..lb : b[i] = r
      /\ \A i, j \in 1..lb : b[i] = b[j] => i = j
  BY DEF ListsOnce
<1> HIDE DEF c, la, lb
<1>4. \A n \in 1..la + lb : \/ n \in 1..la /\ c[n] = a[n] /\ c[n] \in S
                            \/ n - la \in 1..lb /\ n > la /\ c[n] = b[n - la] /\ c[n] \in T
  <2> SUFFICES ASSUME NEW n \in 1..la + lb
               PROVE  \/ n \in 1..la /\ c[n] = a[n] /\ c[n] \in S
                      \/ n - la \in 1..lb /\ n > la /\ c[n] = b[n - la] /\ c[n] \in T
    OBVIOUS
  <2>1. CASE n <= la
    <3>1. n \in 1..la /\ c[n] = a[n] BY <1>1, <2>1
    <3>2. QED BY <1>2, <3>1
  <2>2. CASE ~(n <= la)
    <3>1. n - la \in 1..lb /\ n > la /\ c[n] = b[n - la] BY <1>1, <2>2
    <3>2. QED BY <1>3, <3>1
  <2>3. QED BY <2>1, <2>2
<1>5. ASSUME NEW i \in 1..la + lb, NEW j \in 1..la + lb, c[i] = c[j] PROVE i = j
  <2>1. CASE c[i] \in S
    <3>1. i \in 1..la /\ j \in 1..la /\ a[i] = a[j] BY <1>4, <1>5, <2>1
    <3>2. QED BY <1>2, <3>1
  <2>2. CASE c[i] \notin S
    <3>1. i - la \in 1..lb /\ j - la \in 1..lb /\ b[i - la] = b[j - la] BY <1>4, <1>5, <2>2
    <3>2. i - la = j - la BY <1>3, <3>1
    <3>3. QED BY <1>1, <3>2
  <2>3. QED BY <2>1, <2>2
<1>6. ASSUME NEW r \in S \cup T PROVE \E i \in 1..la + lb : c[i] = r
  <2>1. CASE r \in S
    <3>1. PICK i \in 1..la : a[i] = r BY <1>2, <2>1
    <3>2. i \in 1..la + lb /\ c[i] = a[i] BY <1>1
    <3>3. QED BY <3>1, <3>2
  <2>2. CASE r \in T
    <3>1. PICK i \in 1..lb : b[i] = r BY <1>3, <2>2
    <3>2. i + la \in 1..la + lb /\ ~(i + la <= la) /\ (i + la) - la = i BY <1>1
    <3>3. c[i + la] = b[i] BY <1>1, <3>2
    <3>4. QED BY <3>1, <3>2, <3>3
  <2>3. QED BY <2>1, <2>2
<1>7. \A i \in 1..la + lb : c[i] \in S \cup T BY <1>4
<1>8. QED BY <1>1, <1>5, <1>6, <1>7 DEF ListsOnce, c

\* The last element of what ends in s is that of s.
LEMMA SuffixesEnd ==
  ASSUME NEW s, IsASequence(s), s # <<>>, NEW t, IsASequence(t), IsSuffix(s, t)
  PROVE  t # <<>> /\ Last(t) = Last(s)
<1> DEFINE a == Reverse(s)
           b == Reverse(t)
           k == Len(s)
           S == {a[i] : i \in 1..k} \cup {b[i] : i \in 1..k}
<1>1. k \in Nat /\ k # 0
  <2>1. s = [n \in 1..k |-> s[n]] /\ k \in Nat BY DEF IsASequence
  <2>2. QED BY <2>1
<1>2. Len(t) \in Nat BY DEF IsASequence
<1>3. a = [i \in 1..k |-> s[(k - i) + 1]] /\ b = [i \in 1..Len(t) |-> t[(Len(t) - i) + 1]] BY DEF Reverse
<1>4. Len(a) = k /\ Len(b) = Len(t) BY <1>1, <1>2, <1>3
<1>5. k <= Len(t) /\ SubSeq(a, 1, k) = SubSeq(b, 1, k) BY <1>4 DEF IsSuffix, IsPrefix
<1>6. \A i \in 1..k : a[i] \in S /\ b[i] \in S OBVIOUS
<1> HIDE DEF a, b, S
<1>7. SubSeq(a, 1, k)[1] = a[1]
  <2>1. \A i \in 1..k - 1 + 1 : SubSeq(a, 1, k)[i] = a[1 + i - 1] BY <1>1, <1>6, SubSeqProperties
  <2>2. QED BY <1>1, <2>1
<1>8. SubSeq(b, 1, k)[1] = b[1]
  <2>1. \A i \in 1..k - 1 + 1 : SubSeq(b, 1, k)[i] = b[1 + i - 1] BY <1>1, <1>6, SubSeqProperties
  <2>2. QED BY <1>1, <2>1
<1>9. a[1] = s[k] /\ b[1] = t[Len(t)] BY <1>1, <1>2, <1>3, <1>5
<1>10. t # <<>> BY <1>1, <1>2, <1>5, EmptyIsASequence
<1>11. QED BY <1>5, <1>7, <1>8, <1>9, <1>10 DEF Last

\* All but the first of a list.
LEMMA Tailing ==
  ASSUME NEW s, IsASequence(s), s # <<>>
  PROVE  IsASequence(Tail(s)) /\ Len(Tail(s)) = Len(s) - 1 /\ \A i \in 1..Len(s) - 1 : Tail(s)[i] = s[i + 1]
<1> DEFINE S == {s[n] : n \in 1..Len(s)}
<1>1. s \in Seq(S)
  <2>1. s \in [1..Len(s) -> S] BY DEF IsASequence
  <2>2. QED BY <2>1, SeqDef DEF IsASequence
<1> HIDE DEF S
<1>2. Tail(s) \in Seq(S) /\ Len(Tail(s)) = Len(s) - 1 /\ \A i \in 1..Len(s) - 1 : Tail(s)[i] = s[i + 1]
  BY <1>1, HeadTailProperties
<1>3. QED BY <1>2, LenProperties DEF IsASequence

------------------------------------------------------------------------------
(* The rule index                                                             *)

\* The live rules of a bucket, each once.
LEMMA Buckets ==
  ASSUME NEW S, S \subseteq DOMAIN Rules
  PROVE  ListsOnce(Picked([r \in DOMAIN Rules |-> r], {r \in S : Live(r)}), {r \in S : Live(r)})
<1> DEFINE P == {r \in S : Live(r)}
           itself == [r \in DOMAIN Rules |-> r]
           len == Len(Rules)
<1>1. len \in Nat /\ DOMAIN Rules = 1..len BY RulesAssumption DEF IsASlice
<1>2. ArePlaces(P)
  <2>1. IsFiniteSet(1..len) BY <1>1, FS_Interval
  <2>2. P \in SUBSET (1..len) BY <1>1
  <2>3. IsFiniteSet(P) BY <2>1, <2>2, FS_Subset
  <2>4. P \subseteq Nat
    <3> HIDE DEF P, len
    <3>1. QED BY <1>1, <2>2, NodesAreNumbers
  <2>5. QED BY <2>3, <2>4 DEF ArePlaces
<1>3. \A r \in P : itself[r] = r BY DEF Live
<1> HIDE DEF P, itself
<1>4. {itself[r] : r \in P} = P BY <1>3
<1>5. ListsOnce(Picked(itself, P), {itself[r] : r \in P}) BY <1>2, <1>3, PickedOnce
<1>6. QED BY <1>4, <1>5 DEF P, itself

OfKind(k) == {r \in DOMAIN Rules : Rules[r].match.kind = k /\ ~ByCallee(r) /\ ~BySuffix(r) /\ Live(r)}
OfCallee(c) == {r \in DOMAIN Rules : ByCallee(r) /\ Rules[r].match.callee = c /\ Live(r)}
OfLast(s) == {r \in DOMAIN Rules : BySuffix(r) /\ Last(Rules[r].match.callee) = s /\ Live(r)}

LEMMA IndexBuckets ==
  ASSUME NEW key
  PROVE  /\ ListsOnce(In(BuildIndex.byKind, key), OfKind(key))
         /\ ListsOnce(In(BuildIndex.byCallee, key), OfCallee(key))
         /\ ListsOnce(In(BuildIndex.bySuffix, key), OfLast(key))
<1> DEFINE itself == [r \in DOMAIN Rules |-> r]
           K(k) == {r \in DOMAIN Rules : Rules[r].match.kind = k /\ ~ByCallee(r) /\ ~BySuffix(r)}
           C(c) == {r \in DOMAIN Rules : ByCallee(r) /\ Rules[r].match.callee = c}
           L(s) == {r \in DOMAIN Rules : BySuffix(r) /\ Last(Rules[r].match.callee) = s}
           kinds == {Rules[r].match.kind : r \in DOMAIN Rules}
           callees == {Rules[r].match.callee : r \in {r \in DOMAIN Rules : ByCallee(r)}}
           lasts == {Last(Rules[r].match.callee) : r \in {r \in DOMAIN Rules : BySuffix(r)}}
<1>1. /\ BuildIndex.byKind = [k \in kinds |-> Picked(itself, {r \in K(k) : Live(r)})]
      /\ BuildIndex.byCallee = [c \in callees |-> Picked(itself, {r \in C(c) : Live(r)})]
      /\ BuildIndex.bySuffix = [s \in lasts |-> Picked(itself, {r \in L(s) : Live(r)})]
  BY DEF BuildIndex
<1>2. /\ {r \in K(key) : Live(r)} = OfKind(key)
      /\ {r \in C(key) : Live(r)} = OfCallee(key)
      /\ {r \in L(key) : Live(r)} = OfLast(key)
  BY DEF OfKind, OfCallee, OfLast
<1>3. ListsOnce(In(BuildIndex.byKind, key), OfKind(key))
  <2>1. CASE key \in kinds
    <3>1. In(BuildIndex.byKind, key) = Picked(itself, {r \in K(key) : Live(r)}) BY <1>1, <2>1 DEF In
    <3>2. ListsOnce(Picked(itself, {r \in K(key) : Live(r)}), {r \in K(key) : Live(r)}) BY Buckets
    <3>3. QED BY <1>2, <3>1, <3>2
  <2>2. CASE key \notin kinds
    <3>1. In(BuildIndex.byKind, key) = <<>> BY <1>1, <2>2 DEF In
    <3>2. OfKind(key) = {} BY <2>2 DEF OfKind
    <3>3. QED BY <3>1, <3>2, NothingListed
  <2>3. QED BY <2>1, <2>2
<1>4. ListsOnce(In(BuildIndex.byCallee, key), OfCallee(key))
  <2>1. CASE key \in callees
    <3>1. In(BuildIndex.byCallee, key) = Picked(itself, {r \in C(key) : Live(r)}) BY <1>1, <2>1 DEF In
    <3>2. ListsOnce(Picked(itself, {r \in C(key) : Live(r)}), {r \in C(key) : Live(r)}) BY Buckets
    <3>3. QED BY <1>2, <3>1, <3>2
  <2>2. CASE key \notin callees
    <3>1. In(BuildIndex.byCallee, key) = <<>> BY <1>1, <2>2 DEF In
    <3>2. OfCallee(key) = {} BY <2>2 DEF OfCallee
    <3>3. QED BY <3>1, <3>2, NothingListed
  <2>3. QED BY <2>1, <2>2
<1>5. ListsOnce(In(BuildIndex.bySuffix, key), OfLast(key))
  <2>1. CASE key \in lasts
    <3>1. In(BuildIndex.bySuffix, key) = Picked(itself, {r \in L(key) : Live(r)}) BY <1>1, <2>1 DEF In
    <3>2. ListsOnce(Picked(itself, {r \in L(key) : Live(r)}), {r \in L(key) : Live(r)}) BY Buckets
    <3>3. QED BY <1>2, <3>1, <3>2
  <2>2. CASE key \notin lasts
    <3>1. In(BuildIndex.bySuffix, key) = <<>> BY <1>1, <2>2 DEF In
    <3>2. OfLast(key) = {} BY <2>2 DEF OfLast
    <3>3. QED BY <3>1, <3>2, NothingListed
  <2>3. QED BY <2>1, <2>2
<1>6. QED BY <1>3, <1>4, <1>5

\* A file as the rules are matched against it.
IsAFile(file) ==
  IsATree(file.tree) /\ \A name \in DOMAIN file.aliases : IsASlice(file.aliases[name])

\* A dotted text is a list of segments.
LEMMA TextsAreSlices ==
  ASSUME NEW file, IsAFile(file), NEW n \in DOMAIN file.tree
  PROVE  IsASequence(Texts(file, n)[1]) /\ IsASequence(Texts(file, n)[2])
<1> DEFINE t == file.tree
           text == CalleeText(t, n)
           canon == CanonicalAlias(file, text)
<1>1. IsATree(t) BY DEF IsAFile
<1>2. Texts(file, n)[1] = text /\ Texts(file, n)[2] = canon BY DEF Texts
<1>3. ASSUME NEW m \in DOMAIN t PROVE IsASequence(Segments(t, m))
  <2> DEFINE len == Len(t)
             chained(i) == \A a \in Ancestors(t, i) : a >= m => t[a].kind = "attribute"
             parts == {i \in Identifiers(t, Subtree(t, m)) : t[i].text # NoName /\ chained(i)}
  <2>1. len \in Nat /\ DOMAIN t = 1..len BY <1>1 DEF IsATree, IsASlice
  <2>2. Subtree(t, m) \subseteq DOMAIN t BY <1>1, <1>3, Below
  <2>3. parts \in SUBSET (1..len) BY <2>1, <2>2 DEF Identifiers
  <2>4. Segments(t, m) = Picked([i \in DOMAIN t |-> t[i].text], parts) BY DEF Segments, NoName
  <2> HIDE DEF parts, len
  <2>5. IsFiniteSet(1..len) BY <2>1, FS_Interval
  <2>6. IsFiniteSet(parts) BY <2>3, <2>5, FS_Subset
  <2>7. parts \subseteq Nat BY <2>1, <2>3, NodesAreNumbers
  <2>8. ArePlaces(parts) BY <2>6, <2>7 DEF ArePlaces
  <2>9. QED BY <2>4, <2>8, PickingFrom
<1>4. IsASequence(text)
  <2> DEFINE heads == {m \in ChildrenOf(t, n) :
                         t[m].kind \in {"identifier", "attribute"} /\ Segments(t, m) # <<>>}
  <2>1. CASE heads = {}
    <3>1. text = <<>> BY <2>1 DEF CalleeText
    <3>2. QED BY <3>1, EmptyIsASequence
  <2>2. CASE heads # {}
    <3>1. text = Segments(t, Min(heads)) BY <2>2 DEF CalleeText
    <3>2. heads \subseteq DOMAIN t BY <1>1, Below
    <3>3. DOMAIN t \subseteq Nat
      <4>1. Len(t) \in Nat /\ DOMAIN t = 1..Len(t) BY <1>1 DEF IsATree, IsASlice
      <4>2. QED BY <4>1, NodesAreNumbers
    <3> HIDE DEF heads
    <3>4. Min(heads) \in heads BY <2>2, <3>2, <3>3, MinOf
    <3>5. QED BY <1>3, <3>1, <3>2, <3>4
  <2>3. QED BY <2>1, <2>2
<1>5. IsASequence(canon)
  <2> HIDE DEF text
  <2>1. CASE text # <<>> /\ Head(text) \in DOMAIN file.aliases
    <3>1. canon = file.aliases[Head(text)] \o Tail(text) BY <2>1 DEF CanonicalAlias
    <3>2. IsASequence(file.aliases[Head(text)]) BY <2>1 DEF IsAFile, IsASlice, IsASequence
    <3>3. IsASequence(Tail(text)) BY <1>4, <2>1, Tailing
    <3>4. QED BY <3>1, <3>2, <3>3, Concatenating
  <2>2. CASE ~(text # <<>> /\ Head(text) \in DOMAIN file.aliases)
    <3>1. canon = text BY <2>2 DEF CanonicalAlias
    <3>2. QED BY <1>4, <3>1
  <2>3. QED BY <2>1, <2>2
<1>6. QED BY <1>2, <1>4, <1>5

\* Of the rules of a bucket, those that end a text, each once.
LEMMA EndingOnce ==
  ASSUME NEW bucket, NEW S, ListsOnce(bucket, S), NEW texts
  PROVE  ListsOnce(Ending(bucket, texts), {r \in S : \E text \in texts : IsSuffix(Rules[r].match.callee, text)})
<1> DEFINE ends(r) == \E text \in texts : IsSuffix(Rules[r].match.callee, text)
           P == {i \in DOMAIN bucket : ends(bucket[i])}
           T == {r \in S : ends(r)}
           len == Len(bucket)
<1>1. len \in Nat /\ DOMAIN bucket = 1..len BY DEF ListsOnce, IsASequence
<1>2. /\ \A i \in 1..len : bucket[i] \in S
      /\ \A r \in S : \E i \in 1..len : bucket[i] = r
      /\ \A i, j \in 1..len : bucket[i] = bucket[j] => i = j
  BY DEF ListsOnce
<1>3. P \in SUBSET (1..len) BY <1>1
<1>4. {bucket[i] : i \in P} = T BY <1>1, <1>2
<1>5. Ending(bucket, texts) = Picked(bucket, P) BY DEF Ending
<1> HIDE DEF P, T, len
<1>6. ArePlaces(P)
  <2>1. IsFiniteSet(1..len) BY <1>1, FS_Interval
  <2>2. IsFiniteSet(P) BY <1>3, <2>1, FS_Subset
  <2>3. P \subseteq Nat BY <1>1, <1>3, NodesAreNumbers
  <2>4. QED BY <2>2, <2>3 DEF ArePlaces
<1>7. \A i, j \in P : bucket[i] = bucket[j] => i = j BY <1>2, <1>3
<1>8. ListsOnce(Picked(bucket, P), {bucket[i] : i \in P}) BY <1>6, <1>7, PickedOnce
<1>9. QED BY <1>4, <1>5, <1>8 DEF T

\* The candidates of a node are the live rules of its kind that name it, each once.
LEMMA CandidatesOnce ==
  ASSUME index = BuildIndex, NEW file, IsAFile(file), NEW n \in DOMAIN file.tree
  PROVE  ListsOnce(Candidates(file, n),
                   {r \in DOMAIN Rules :
                      Live(r) /\ Rules[r].match.kind = file.tree[n].kind /\ Named(file, n, r)})
<1> DEFINE kind == file.tree[n].kind
           written == Texts(file, n)[1]
           canon == Texts(file, n)[2]
           texts == {written, canon}
           last(text) == IF text = <<>> THEN NoName ELSE Last(text)
           endingIn(s) == {r \in OfLast(s) : \E text \in texts : IsSuffix(Rules[r].match.callee, text)}
           all == {r \in DOMAIN Rules : Live(r) /\ Rules[r].match.kind = kind /\ Named(file, n, r)}
           A == In(BuildIndex.byKind, kind)
           B == In(BuildIndex.byCallee, written)
           C == IF canon = written THEN <<>> ELSE In(BuildIndex.byCallee, canon)
           D == Ending(In(BuildIndex.bySuffix, last(written)), texts)
           E == IF last(canon) = last(written) THEN <<>>
                ELSE Ending(In(BuildIndex.bySuffix, last(canon)), texts)
           SA == OfKind(kind)
           SB == OfCallee(written)
           SC == IF canon = written THEN {} ELSE OfCallee(canon)
           SD == endingIn(last(written))
           SE == IF last(canon) = last(written) THEN {} ELSE endingIn(last(canon))
<1>1. ListsOnce(A, SA) /\ ListsOnce(B, SB) /\ ListsOnce(C, SC) BY IndexBuckets, NothingListed
<1>2. ASSUME NEW key PROVE ListsOnce(Ending(In(BuildIndex.bySuffix, key), texts), endingIn(key))
  <2> DEFINE bucket == In(BuildIndex.bySuffix, key)
             S == OfLast(key)
  <2>1. ListsOnce(bucket, S) BY IndexBuckets
  <2> HIDE DEF bucket, S, texts
  <2>2. ListsOnce(Ending(bucket, texts), {r \in S : \E text \in texts : IsSuffix(Rules[r].match.callee, text)})
    BY <2>1, EndingOnce
  <2>3. QED BY <2>2 DEF bucket, S
<1>3. ListsOnce(D, SD) /\ ListsOnce(E, SE) BY <1>2, NothingListed
<1>4. ToSet(Texts(file, n)) = texts
  <2>1. Texts(file, n) = <<written, canon>> BY DEF Texts
  <2> HIDE DEF written, canon
  <2>2. DOMAIN <<written, canon>> = {1, 2} /\ <<written, canon>>[1] = written /\ <<written, canon>>[2] = canon
    OBVIOUS
  <2>3. QED BY <2>1, <2>2 DEF ToSet
<1>5. Candidates(file, n) = A \o (IF kind # "call" THEN <<>> ELSE B \o C \o D \o E)
  BY DEF Candidates, NoName
<1>6. \A r \in DOMAIN Rules : BySuffix(r) =>
        \A text \in texts : IsSuffix(Rules[r].match.callee, text) => last(text) = Last(Rules[r].match.callee)
  <2> SUFFICES ASSUME NEW r \in DOMAIN Rules, BySuffix(r), NEW text \in texts,
                      IsSuffix(Rules[r].match.callee, text)
               PROVE  last(text) = Last(Rules[r].match.callee)
    OBVIOUS
  <2>1. IsASequence(Rules[r].match.callee) /\ Rules[r].match.callee # <<>>
    BY RulesAssumption DEF BySuffix, IsASlice, IsASequence
  <2>2. IsASequence(text) BY TextsAreSlices
  <2>3. text # <<>> /\ Last(text) = Last(Rules[r].match.callee) BY <2>1, <2>2, SuffixesEnd
  <2>4. QED BY <2>3
<1> HIDE DEF written, canon, last, A, B, C, D, E
<1>7. CASE kind # "call"
  <2>1. Candidates(file, n) = A
    <3>1. IsASequence(A) BY <1>1 DEF ListsOnce
    <3>2. Candidates(file, n) = A \o <<>> BY <1>5, <1>7
    <3>3. ListsOnce(A \o <<>>, SA \cup {}) BY <1>1, NothingListed, JoinedOnce
    <3>4. A \o <<>> = A
      <4> DEFINE S == {A[i] : i \in 1..Len(A)}
      <4>1. A \in [1..Len(A) -> S] BY <3>1 DEF IsASequence
      <4>2. A \in Seq(S) BY <3>1, <4>1, SeqDef DEF IsASequence
      <4> HIDE DEF S
      <4>3. QED BY <4>2, ConcatEmptySeq
    <3>5. QED BY <3>2, <3>4
  <2>2. SA = all BY <1>7 DEF OfKind, ByCallee, BySuffix, Named
  <2>3. QED BY <1>1, <2>1, <2>2
<1>8. CASE kind = "call"
  <2>1. SB \cap SC = {} BY DEF OfCallee
  <2>2. (SB \cup SC) \cap SD = {} BY DEF OfCallee, OfLast, ByCallee, BySuffix
  <2>3. (SB \cup SC \cup SD) \cap SE = {} BY DEF OfCallee, OfLast, ByCallee, BySuffix
  <2>4. SA \cap (SB \cup SC \cup SD \cup SE) = {} BY DEF OfKind, OfCallee, OfLast
  <2>5. SA \cup (SB \cup SC \cup SD \cup SE) = all
    <3>1. ASSUME NEW r \in all PROVE r \in SA \cup (SB \cup SC \cup SD \cup SE)
      <4>1. CASE ~ByCallee(r) /\ ~BySuffix(r) BY <4>1 DEF OfKind
      <4>2. CASE ByCallee(r)
        <5>1. Rules[r].match.callee \in texts BY <1>4, <4>2 DEF Named, ByCallee, BySuffix
        <5>2. QED BY <4>2, <5>1 DEF OfCallee
      <4>3. CASE BySuffix(r)
        <5>1. PICK text \in texts : IsSuffix(Rules[r].match.callee, text)
          BY <1>4, <4>3 DEF Named, ByCallee, BySuffix
        <5>2. r \in OfLast(last(text)) BY <1>6, <4>3, <5>1 DEF OfLast
        <5>3. r \in endingIn(last(text)) BY <5>1, <5>2
        <5>4. QED BY <5>3
      <4>4. QED BY <4>1, <4>2, <4>3
    <3>2. ASSUME NEW r \in SA PROVE r \in all BY DEF OfKind, Named
    <3>3. ASSUME NEW r \in SB \cup SC PROVE r \in all
      <4>1. r \in DOMAIN Rules /\ ByCallee(r) /\ Rules[r].match.callee \in texts /\ Live(r)
        BY DEF OfCallee
      <4>2. QED BY <1>4, <1>8, <4>1 DEF Named, ByCallee
    <3>4. ASSUME NEW r \in SD \cup SE PROVE r \in all
      <4>1. /\ r \in DOMAIN Rules /\ BySuffix(r) /\ Live(r)
            /\ \E text \in texts : IsSuffix(Rules[r].match.callee, text)
        BY DEF OfLast
      <4>2. QED BY <1>4, <1>8, <4>1 DEF Named, BySuffix
    <3> HIDE DEF all, SA, SB, SC, SD, SE
    <3>5. QED BY <3>1, <3>2, <3>3, <3>4
  <2> HIDE DEF all, SA, SB, SC, SD, SE
  <2>6. ListsOnce(B \o C, SB \cup SC) BY <1>1, <2>1, JoinedOnce
  <2>7. ListsOnce(B \o C \o D, SB \cup SC \cup SD) BY <1>3, <2>2, <2>6, JoinedOnce
  <2>8. ListsOnce(B \o C \o D \o E, SB \cup SC \cup SD \cup SE) BY <1>3, <2>3, <2>7, JoinedOnce
  <2>9. ListsOnce(A \o (B \o C \o D \o E), SA \cup (SB \cup SC \cup SD \cup SE))
    BY <1>1, <2>4, <2>8, JoinedOnce
  <2>10. QED BY <1>5, <1>8, <2>5, <2>9 DEF all
<1>9. QED BY <1>7, <1>8

------------------------------------------------------------------------------
(* The walk of a unit                                                         *)

Hit(file, r, n) ==
  Rules[r].match.kind = file.tree[n].kind /\ Applies(file, r) /\ Named(file, n, r)
    /\ Fits(file, n, Rules[r].match)

\* One node more is a hit more, if it is one, and due unless an earlier one counts.
LEMMA DueGrows ==
  ASSUME NEW file, IsATree(file.tree), NEW r, NEW n \in DOMAIN file.tree
  PROVE  /\ Hits(file, r, n + 1) = Hits(file, r, n) \cup {m \in {n} : Hit(file, r, n)}
         /\ Due(file, r, n + 1) =
              Due(file, r, n) \cup
                {m \in {n} : Hit(file, r, n) /\ ~(Rules[r].oncePerFile /\ Hits(file, r, n) # {})}
         /\ \A m \in Due(file, r, n) : m < n
<1> DEFINE t == file.tree
           len == Len(t)
           before == Hits(file, r, n)
           after == Hits(file, r, n + 1)
<1>1. len \in Nat /\ DOMAIN t = 1..len BY DEF IsATree, IsASlice
<1>2. n \in Nat BY <1>1
<1>3. \A m \in DOMAIN t : m < n + 1 <=> m < n \/ m = n BY <1>1, <1>2
<1>4. after = before \cup {m \in {n} : Hit(file, r, n)} BY <1>3 DEF Hits, Hit, Of
<1>5. before \subseteq Nat /\ \A m \in before : m < n
  <2>1. before \subseteq DOMAIN t /\ \A m \in before : m < n BY DEF Hits, Of
  <2> HIDE DEF before
  <2>2. QED BY <1>1, <2>1, NodesAreNumbers
<1>6. Due(file, r, n) = IF Rules[r].oncePerFile /\ before # {} THEN {Min(before)} ELSE before
  BY DEF Due
<1>7. Due(file, r, n + 1) = IF Rules[r].oncePerFile /\ after # {} THEN {Min(after)} ELSE after
  BY DEF Due
<1> HIDE DEF before, after, t, len
<1>8. \A m \in Due(file, r, n) : m < n
  <2>1. before # {} => Min(before) \in before BY <1>5, MinOf
  <2>2. QED BY <1>5, <1>6, <2>1
<1>9. CASE ~Rules[r].oncePerFile BY <1>4, <1>6, <1>7, <1>8, <1>9 DEF before, after
<1>10. CASE Rules[r].oncePerFile /\ before = {}
  <2>1. CASE Hit(file, r, n)
    <3>1. after = {n} BY <1>4, <1>10, <2>1
    <3>2. Min({n}) = n
      <4>1. {n} \subseteq Nat /\ {n} # {} BY <1>2
      <4>2. Min({n}) \in {n} BY <4>1, MinOf
      <4>3. QED BY <4>2
    <3>3. Due(file, r, n + 1) = {n} /\ Due(file, r, n) = {} BY <1>6, <1>7, <1>10, <3>1, <3>2
    <3>4. QED BY <1>4, <1>8, <1>10, <2>1, <3>3 DEF before, after
  <2>2. CASE ~Hit(file, r, n)
    <3>1. after = {} BY <1>4, <1>10, <2>2
    <3>2. Due(file, r, n + 1) = {} /\ Due(file, r, n) = {} BY <1>6, <1>7, <1>10, <3>1
    <3>3. QED BY <1>4, <1>8, <2>2, <3>2 DEF before, after
  <2>3. QED BY <2>1, <2>2
<1>11. CASE Rules[r].oncePerFile /\ before # {}
  <2>1. Min(before) \in before /\ \A m \in before : Min(before) <= m BY <1>5, <1>11, MinOf
  <2>2. after # {} /\ after \subseteq Nat BY <1>2, <1>4, <1>5, <1>11
  <2>3. Min(after) \in after /\ \A m \in after : Min(after) <= m BY <2>2, MinOf
  <2>4. Min(before) \in after /\ Min(before) < n BY <1>4, <1>5, <2>1
  <2>5. Min(after) <= Min(before) BY <2>3, <2>4
  <2>6. Min(after) \in before
    <3>1. Min(after) \in Nat /\ Min(before) \in Nat BY <1>5, <2>1, <2>2, <2>3
    <3>2. Min(after) # n BY <1>2, <2>4, <2>5, <3>1
    <3>3. QED BY <1>4, <2>3, <3>2
  <2>7. Min(after) = Min(before)
    <3>1. Min(before) <= Min(after) BY <2>1, <2>6
    <3>2. Min(after) \in Nat /\ Min(before) \in Nat BY <1>5, <2>1, <2>2, <2>3
    <3>3. QED BY <2>5, <3>1, <3>2
  <2>8. Due(file, r, n + 1) = {Min(before)} /\ Due(file, r, n) = {Min(before)}
    BY <1>6, <1>7, <1>11, <2>2, <2>7
  <2>9. QED BY <1>4, <1>8, <1>11, <2>8 DEF before, after
<1>12. QED BY <1>9, <1>10, <1>11

\* The nodes at which rule r is reported.
Found(ms, r) == {ms[i].node : i \in {i \in DOMAIN ms : ms[i].rule = r}}

\* What a walk has reported of the nodes before x.node.
Matched(x, file) ==
  /\ x.node \in 1..Len(file.tree) + 1
  /\ IsASequence(x.matches)
  /\ \A i \in 1..Len(x.matches) : x.matches[i].rule \in DOMAIN Rules
  /\ \A r \in DOMAIN Rules : Found(x.matches, r) = Due(file, r, x.node)
  /\ \A i, j \in 1..Len(x.matches) :
       x.matches[i].rule = x.matches[j].rule /\ x.matches[i].node = x.matches[j].node => i = j
  /\ x.reported = {r \in DOMAIN Rules : Rules[r].oncePerFile /\ Hits(file, r, x.node) # {}}

\* The rules reported at a node are those that hit it, each once, less those that
\* have been reported and may be so only once.
Offered(file, n) ==
  {r \in DOMAIN Rules : Live(r) /\ Rules[r].match.kind = file.tree[n].kind /\ Named(file, n, r)}
Reported(file, n, reported) ==
  {r \in DOMAIN Rules : Hit(file, r, n) /\ ~(Rules[r].oncePerFile /\ r \in reported)}
Chosen(file, n, candidates, reported) ==
  {i \in DOMAIN candidates :
     /\ Considered(file, n, candidates[i], reported)
     /\ Rules[candidates[i]].oncePerFile => \A j \in 1..i - 1 : candidates[j] # candidates[i]}

LEMMA MatchedOnce ==
  ASSUME NEW file, NEW n, NEW candidates, NEW reported, ListsOnce(candidates, Offered(file, n))
  PROVE  ListsOnce(Picked(candidates, Chosen(file, n, candidates, reported)), Reported(file, n, reported))
<1> DEFINE named == Offered(file, n)
           P == Chosen(file, n, candidates, reported)
           T == Reported(file, n, reported)
           len == Len(candidates)
<1>1. len \in Nat /\ DOMAIN candidates = 1..len BY DEF ListsOnce, IsASequence
<1>2. /\ \A i \in 1..len : candidates[i] \in named
      /\ \A r \in named : \E i \in 1..len : candidates[i] = r
      /\ \A i, j \in 1..len : candidates[i] = candidates[j] => i = j
  BY DEF ListsOnce
<1> HIDE DEF len
<1>3. \A i \in 1..len : \A j \in 1..i - 1 : candidates[j] # candidates[i]
  <2> SUFFICES ASSUME NEW i \in 1..len, NEW j \in 1..i - 1 PROVE candidates[j] # candidates[i]
    OBVIOUS
  <2>1. j \in 1..len /\ j # i BY <1>1
  <2>2. QED BY <1>2, <2>1
<1>4. P = {i \in 1..len : Considered(file, n, candidates[i], reported)} BY <1>1, <1>3 DEF Chosen
<1>5. \A r \in named : Considered(file, n, r, reported) <=> r \in T
  BY DEF Considered, Hit, Applies, Offered, Reported
<1>6. T \subseteq named BY DEF Hit, Applies, Offered, Reported
<1>7. {candidates[i] : i \in P} = T
  <2> HIDE DEF P, T, named
  <2>1. \A i \in P : candidates[i] \in T BY <1>2, <1>4, <1>5
  <2>2. \A r \in T : \E i \in P : candidates[i] = r BY <1>2, <1>4, <1>5, <1>6
  <2>3. QED BY <2>1, <2>2
<1>8. P \in SUBSET (1..len) BY <1>4
<1> HIDE DEF P, T
<1>9. ArePlaces(P)
  <2>1. IsFiniteSet(1..len) BY <1>1, FS_Interval
  <2>2. IsFiniteSet(P) BY <1>8, <2>1, FS_Subset
  <2>3. P \subseteq Nat BY <1>1, <1>8, NodesAreNumbers
  <2>4. QED BY <2>2, <2>3 DEF ArePlaces
<1>10. \A i, j \in P : candidates[i] = candidates[j] => i = j BY <1>2, <1>8
<1>11. ListsOnce(Picked(candidates, P), {candidates[i] : i \in P}) BY <1>9, <1>10, PickedOnce
<1>12. QED BY <1>7, <1>11 DEF P, T

\* Adding what is found at the next node.
Reporting(found, matched, n) ==
  /\ DOMAIN found = DOMAIN matched /\ found = [i \in DOMAIN matched |-> found[i]]
  /\ \A i \in DOMAIN matched : found[i].rule = matched[i] /\ found[i].node = n

LEMMA FoundGrows ==
  ASSUME NEW ms, IsASequence(ms), NEW matched, NEW T, ListsOnce(matched, T), NEW n,
         NEW found, Reporting(found, matched, n)
  PROVE  /\ IsASequence(ms \o found)
         /\ \A i \in 1..Len(ms \o found) :
              \/ i \in 1..Len(ms) /\ (ms \o found)[i] = ms[i]
              \/ i - Len(ms) \in 1..Len(matched) /\ (ms \o found)[i] = found[i - Len(ms)]
         /\ \A r : Found(ms \o found, r) = Found(ms, r) \cup {m \in {n} : r \in T}
<1> DEFINE all == ms \o found
           a == Len(ms)
           b == Len(matched)
<1>1. a \in Nat /\ DOMAIN ms = 1..a BY DEF IsASequence
<1>2. b \in Nat /\ DOMAIN matched = 1..b /\ IsASequence(matched) BY DEF ListsOnce, IsASequence
<1>0. /\ DOMAIN found = DOMAIN matched /\ found = [i \in DOMAIN matched |-> found[i]]
      /\ \A i \in DOMAIN matched : found[i].rule = matched[i] /\ found[i].node = n
  BY DEF Reporting
<1>3. IsASequence(found) /\ Len(found) = b BY <1>0, <1>2, SameLength
<1>4. /\ IsASequence(all) /\ Len(all) = a + b
      /\ \A i \in 1..a + b : all[i] = IF i <= a THEN ms[i] ELSE found[i - a]
  BY <1>3, Concatenating
<1> HIDE DEF all, a, b
<1>5. DOMAIN all = 1..a + b BY <1>1, <1>2, <1>4 DEF IsASequence
<1>6. \A i \in 1..a + b :
        \/ i \in 1..a /\ all[i] = ms[i]
        \/ i - a \in 1..b /\ all[i] = found[i - a]
  <2> SUFFICES ASSUME NEW i \in 1..a + b
               PROVE  \/ i \in 1..a /\ all[i] = ms[i]
                      \/ i - a \in 1..b /\ all[i] = found[i - a]
    OBVIOUS
  <2>1. all[i] = IF i <= a THEN ms[i] ELSE found[i - a] BY <1>4
  <2>2. (i <= a => i \in 1..a) /\ (~(i <= a) => i - a \in 1..b) BY <1>1, <1>2
  <2>3. QED BY <2>1, <2>2
<1>7. ASSUME NEW r PROVE Found(all, r) = Found(ms, r) \cup {m \in {n} : r \in T}
  <2>1. ASSUME NEW i \in 1..a + b, all[i].rule = r
        PROVE  all[i].node \in Found(ms, r) \cup {m \in {n} : r \in T}
    <3>1. CASE i \in 1..a /\ all[i] = ms[i]
      <4>1. i \in DOMAIN ms /\ ms[i].rule = r BY <1>1, <2>1, <3>1
      <4>2. ms[i].node \in Found(ms, r) BY <4>1 DEF Found
      <4>3. QED BY <3>1, <4>2
    <3>2. CASE i - a \in 1..b /\ all[i] = found[i - a]
      <4>1. found[i - a].rule = matched[i - a] /\ found[i - a].node = n /\ matched[i - a] \in T
        BY <1>0, <1>2, <3>2 DEF ListsOnce, b
      <4>2. QED BY <2>1, <3>2, <4>1
    <3>3. QED BY <1>6, <3>1, <3>2
  <2>2. ASSUME NEW m \in Found(ms, r) PROVE m \in Found(all, r)
    <3>1. PICK i \in 1..a : ms[i].rule = r /\ m = ms[i].node BY <1>1 DEF Found
    <3>2. i \in 1..a + b /\ i <= a BY <1>1, <1>2
    <3>3. all[i] = ms[i] BY <1>4, <3>2
    <3>4. QED BY <1>5, <3>1, <3>2, <3>3 DEF Found
  <2>3. ASSUME r \in T PROVE n \in Found(all, r)
    <3>1. PICK i \in 1..b : matched[i] = r BY <2>3 DEF ListsOnce, b
    <3>2. i + a \in 1..a + b /\ ~(i + a <= a) /\ (i + a) - a = i BY <1>1, <1>2
    <3>3. all[i + a] = found[i] BY <1>4, <3>2
    <3>4. found[i].rule = r /\ found[i].node = n BY <1>0, <1>2, <3>1
    <3>5. QED BY <1>5, <3>2, <3>3, <3>4 DEF Found
  <2>4. ASSUME NEW m \in Found(all, r) PROVE m \in Found(ms, r) \cup {k \in {n} : r \in T}
    <3>1. PICK i \in 1..a + b : all[i].rule = r /\ m = all[i].node BY <1>5 DEF Found
    <3>2. QED BY <2>1, <3>1
  <2>5. QED BY <2>2, <2>3, <2>4
<1>8. QED BY <1>4, <1>6, <1>7 DEF all, a, b

\* What a worker holds.
IsAWorker(x) ==
  x = [at |-> x.at, file |-> x.file, unit |-> x.unit, node |-> x.node, analysis |-> x.analysis,
       matches |-> x.matches, reported |-> x.reported]

\* The rules of what is reported so far may be reported again unless they are to be
\* reported once: none of it is of the next node.
LEMMA VisitMatches ==
  ASSUME NEW x, NEW file, IsAFile(file), Matched(x, file), x.node \in DOMAIN file.tree,
         NEW matched,
         ListsOnce(matched, Reported(file, x.node, x.reported)),
         NEW found, Reporting(found, matched, x.node),
         NEW y, y.node = x.node + 1, y.matches = x.matches \o found,
         y.reported = x.reported \cup {r \in ToSet(matched) : Rules[r].oncePerFile}
  PROVE  Matched(y, file)
<1> DEFINE t == file.tree
           n == x.node
           ms == x.matches
           all == ms \o found
           a == Len(ms)
           b == Len(matched)
           T == Reported(file, n, x.reported)
<1>1. IsATree(t) /\ Len(t) \in Nat /\ DOMAIN t = 1..Len(t) BY DEF IsAFile, IsATree, IsASlice
<1>2. /\ IsASequence(ms)
      /\ \A i \in 1..a : ms[i].rule \in DOMAIN Rules
      /\ \A r \in DOMAIN Rules : Found(ms, r) = Due(file, r, n)
      /\ \A i, j \in 1..a : ms[i].rule = ms[j].rule /\ ms[i].node = ms[j].node => i = j
      /\ x.reported = {r \in DOMAIN Rules : Rules[r].oncePerFile /\ Hits(file, r, n) # {}}
  BY DEF Matched
<1>3. a \in Nat /\ DOMAIN ms = 1..a BY <1>2 DEF IsASequence
<1>4. /\ b \in Nat /\ DOMAIN matched = 1..b
      /\ \A i \in 1..b : matched[i] \in T
      /\ \A r \in T : \E i \in 1..b : matched[i] = r
      /\ \A i, j \in 1..b : matched[i] = matched[j] => i = j
  BY DEF ListsOnce, IsASequence
<1>5. n \in Nat /\ n \in 1..Len(t) BY <1>1
<1>6. /\ IsASequence(all)
      /\ \A i \in 1..Len(all) :
           \/ i \in 1..a /\ all[i] = ms[i]
           \/ i - a \in 1..b /\ all[i] = found[i - a]
      /\ \A r : Found(all, r) = Found(ms, r) \cup {m \in {n} : r \in T}
  <2> HIDE DEF n, T
  <2>1. ListsOnce(matched, T) BY DEF n, T
  <2>2. Reporting(found, matched, n) BY DEF n
  <2>3. IsASequence(ms) BY <1>2
  <2> HIDE DEF ms, a, b, all
  <2>4. /\ IsASequence(ms \o found)
        /\ \A i \in 1..Len(ms \o found) :
             \/ i \in 1..Len(ms) /\ (ms \o found)[i] = ms[i]
             \/ i - Len(ms) \in 1..Len(matched) /\ (ms \o found)[i] = found[i - Len(ms)]
        /\ \A r : Found(ms \o found, r) = Found(ms, r) \cup {m \in {n} : r \in T}
    BY <2>1, <2>2, <2>3, FoundGrows
  <2>5. QED BY <2>4 DEF a, b, all
<1>7. ToSet(matched) = T
  <2> HIDE DEF T, b
  <2>1. ToSet(matched) = {matched[i] : i \in 1..b} BY <1>4 DEF ToSet
  <2>2. QED BY <1>4, <2>1
<1>8. \A r \in DOMAIN Rules :
        /\ Hits(file, r, n + 1) = Hits(file, r, n) \cup {m \in {n} : Hit(file, r, n)}
        /\ Due(file, r, n + 1) =
             Due(file, r, n) \cup
               {m \in {n} : Hit(file, r, n) /\ ~(Rules[r].oncePerFile /\ Hits(file, r, n) # {})}
        /\ \A m \in Due(file, r, n) : m < n
  BY <1>1, DueGrows
<1>9. \A r \in DOMAIN Rules :
        r \in T <=> Hit(file, r, n) /\ ~(Rules[r].oncePerFile /\ Hits(file, r, n) # {})
  BY <1>2 DEF Reported
<1>10. T \subseteq DOMAIN Rules BY DEF Reported
<1> HIDE DEF T, a, b, ms, n, all
<1>11. y.node \in 1..Len(t) + 1 BY <1>1, <1>5 DEF n
<1>12. \A i \in 1..b : found[i].rule = matched[i] /\ found[i].node = n BY <1>4 DEF n, Reporting
<1>13. ASSUME NEW i \in 1..Len(all) PROVE all[i].rule \in DOMAIN Rules
  <2>1. CASE i \in 1..a /\ all[i] = ms[i] BY <1>2, <2>1
  <2>2. CASE i - a \in 1..b /\ all[i] = found[i - a] BY <1>4, <1>10, <1>12, <2>2
  <2>3. QED BY <1>6, <2>1, <2>2
<1>14. ASSUME NEW r \in DOMAIN Rules PROVE Found(all, r) = Due(file, r, n + 1)
  <2>1. Found(all, r) = Due(file, r, n) \cup {m \in {n} : r \in T} BY <1>2, <1>6
  <2>2. QED BY <1>8, <1>9, <2>1
<1>15. ASSUME NEW i \in 1..a PROVE ms[i].node < n
  <2>1. ms[i].rule \in DOMAIN Rules BY <1>2
  <2>2. ms[i].node \in Found(ms, ms[i].rule) BY <1>3 DEF Found
  <2>3. QED BY <1>2, <1>8, <2>1, <2>2
<1>16. ASSUME NEW i \in 1..Len(all), NEW j \in 1..Len(all),
              all[i].rule = all[j].rule, all[i].node = all[j].node
       PROVE  i = j
  <2>1. CASE i \in 1..a /\ all[i] = ms[i] /\ j \in 1..a /\ all[j] = ms[j] BY <1>2, <1>16, <2>1
  <2>2. CASE i \in 1..a /\ all[i] = ms[i] /\ j - a \in 1..b /\ all[j] = found[j - a]
    <3>1. all[i].node < n /\ all[j].node = n BY <1>12, <1>15, <2>2
    <3>2. ~(n < n) BY <1>5 DEF n
    <3>3. QED BY <1>16, <3>1, <3>2
  <2>3. CASE i - a \in 1..b /\ all[i] = found[i - a] /\ j \in 1..a /\ all[j] = ms[j]
    <3>1. all[j].node < n /\ all[i].node = n BY <1>12, <1>15, <2>3
    <3>2. ~(n < n) BY <1>5 DEF n
    <3>3. QED BY <1>16, <3>1, <3>2
  <2>4. CASE i - a \in 1..b /\ all[i] = found[i - a] /\ j - a \in 1..b /\ all[j] = found[j - a]
    <3>1. matched[i - a] = matched[j - a] BY <1>12, <1>16, <2>4
    <3>2. i - a = j - a BY <1>4, <2>4, <3>1
    <3>3. i \in Int /\ j \in Int BY <1>6 DEF IsASequence
    <3>4. QED BY <1>3, <3>2, <3>3
  <2>5. QED BY <1>6, <2>1, <2>2, <2>3, <2>4
<1>17. y.reported = {r \in DOMAIN Rules : Rules[r].oncePerFile /\ Hits(file, r, n + 1) # {}}
  <2>1. y.reported = x.reported \cup {r \in T : Rules[r].oncePerFile} BY <1>7
  <2>2. \A r \in DOMAIN Rules :
          Hits(file, r, n + 1) # {} <=> Hits(file, r, n) # {} \/ Hit(file, r, n)
    BY <1>8
  <2>3. QED BY <1>2, <1>9, <1>10, <2>1, <2>2
<1>18. y.matches = all /\ y.node = n + 1 BY DEF all, ms, n
<1>19. QED BY <1>6, <1>11, <1>13, <1>14, <1>16, <1>17, <1>18 DEF Matched

LEMMA VisitKeeps ==
  ASSUME index = BuildIndex, NEW w, IsAFile(Analyzed(w)), IsAWorker(worker[w]),
         Matched(worker[w], Analyzed(w)), worker[w].node \in DOMAIN Unit(w).tree
  PROVE  LET y == Visited(w, Candidates(Analyzed(w), worker[w].node))
         IN  /\ IsAWorker(y) /\ Matched(y, Analyzed(w)) /\ y.node = worker[w].node + 1
             /\ y.at = worker[w].at /\ y.file = worker[w].file /\ y.unit = worker[w].unit
             /\ y.analysis = worker[w].analysis
<1> DEFINE x == worker[w]
           file == Analyzed(w)
           n == x.node
           reported == x.reported
           candidates == Candidates(file, n)
           matched == Picked(candidates, Chosen(file, n, candidates, reported))
           found == [i \in DOMAIN matched |->
             [rule |-> matched[i], node |-> n, tainted |-> TaintedBy(file, n, Rules[matched[i]].match.filters)]]
           y == Visited(w, candidates)
<1>1. n \in DOMAIN file.tree BY DEF Analyzed
<1>2. y = [x EXCEPT !.node = n + 1, !.matches = @ \o found,
             !.reported = @ \cup {r \in ToSet(matched) : Rules[r].oncePerFile}]
  BY DEF Visited, Chosen
<1>3. ListsOnce(candidates, Offered(file, n))
  <2> HIDE DEF file, n
  <2>1. IsAFile(file) BY DEF file
  <2>2. QED BY <1>1, <2>1, CandidatesOnce DEF Offered
<1>4. ListsOnce(matched, Reported(file, n, reported))
  <2> HIDE DEF file, n, candidates, reported
  <2>1. QED BY <1>3, MatchedOnce
<1>5. Reporting(found, matched, n)
  <2> HIDE DEF matched, file, n, candidates
  <2>1. QED BY DEF Reporting
<1> HIDE DEF matched, found, y, candidates, file
<1>6. /\ y.node = n + 1 /\ y.matches = x.matches \o found
      /\ y.reported = x.reported \cup {r \in ToSet(matched) : Rules[r].oncePerFile}
      /\ y.at = x.at /\ y.file = x.file /\ y.unit = x.unit /\ y.analysis = x.analysis /\ IsAWorker(y)
  BY <1>2 DEF IsAWorker
<1>7. Matched(y, file)
  <2> DEFINE z == x
  <2>1. IsAFile(file) /\ Matched(z, file) /\ z.node \in DOMAIN file.tree BY <1>1 DEF file
  <2>2. y.node = z.node + 1 /\ y.matches = z.matches \o found BY <1>6
  <2>3. y.reported = z.reported \cup {r \in ToSet(matched) : Rules[r].oncePerFile} BY <1>6
  <2>4. ListsOnce(matched, Reported(file, z.node, z.reported)) BY <1>4
  <2>5. Reporting(found, matched, z.node) BY <1>5
  <2> HIDE DEF z
  <2>6. QED BY <2>1, <2>2, <2>3, <2>4, <2>5, VisitMatches
<1>8. QED BY <1>6, <1>7 DEF y, candidates, file

------------------------------------------------------------------------------
(* Iterations that end                                                        *)

\* Repeating a step until it changes nothing is a function, whether or not it ends.
LEMMA IterationsAre ==
  ASSUME NEW S, NEW g \in [S -> S]
  PROVE  \E f : f = [o \in S |-> IF g[o] = o THEN o ELSE f[g[o]]]
<1> DEFINE Closing(C) == \A p \in C : g[p] \in C
           Orbit(o) == {p \in S : \A C \in SUBSET S : Closing(C) /\ o \in C => p \in C}
           Fixed(o) == {p \in Orbit(o) : g[p] = p}
           f == [o \in S |-> IF Fixed(o) = {} THEN {} ELSE CHOOSE p \in Fixed(o) : TRUE]
<1>1. ASSUME NEW o \in S PROVE o \in Orbit(o) /\ Closing(Orbit(o)) /\ Orbit(o) \in SUBSET S
  <2>1. \A p \in Orbit(o) : g[p] \in S OBVIOUS
  <2>2. \A p \in Orbit(o) : g[p] \in Orbit(o) BY <2>1
  <2>3. QED BY <2>2
<1>2. ASSUME NEW o \in S, g[o] = o PROVE Fixed(o) = {o}
  <2>1. Closing({o}) /\ {o} \in SUBSET S BY <1>2
  <2>2. \A p \in Orbit(o) : p \in {o} BY <2>1
  <2>3. o \in Orbit(o) BY <1>1
  <2> HIDE DEF Orbit
  <2>4. QED BY <1>2, <2>2, <2>3
<1>3. ASSUME NEW o \in S, g[o] # o PROVE Fixed(o) = Fixed(g[o])
  <2>1. g[o] \in S OBVIOUS
  <2>2. \A p \in Orbit(g[o]) : p \in Orbit(o)
    <3>1. g[o] \in Orbit(o) /\ Closing(Orbit(o)) /\ Orbit(o) \in SUBSET S BY <1>1
    <3> DEFINE C == Orbit(o)
    <3>2. Closing(C) /\ g[o] \in C /\ C \in SUBSET S BY <3>1
    <3> HIDE DEF C
    <3>3. \A p \in Orbit(g[o]) : p \in C BY <3>2
    <3>4. QED BY <3>3 DEF C
  <2>3. \A p \in Orbit(o) : p = o \/ p \in Orbit(g[o])
    <3> DEFINE C == {o} \cup Orbit(g[o])
    <3>1. g[o] \in Orbit(g[o]) /\ Closing(Orbit(g[o])) /\ Orbit(g[o]) \in SUBSET S BY <1>1, <2>1
    <3> HIDE DEF Orbit
    <3>2. Closing(C) /\ o \in C /\ C \in SUBSET S BY <3>1
    <3>3. \A p \in C : p = o \/ p \in Orbit(g[o]) OBVIOUS
    <3> HIDE DEF C
    <3>4. \A p \in Orbit(o) : p \in C BY <3>2 DEF Orbit
    <3>5. QED BY <3>3, <3>4
  <2> HIDE DEF Orbit
  <2>4. QED BY <1>3, <2>2, <2>3
<1> HIDE DEF Fixed
<1>4. ASSUME NEW o \in S PROVE f[o] = IF g[o] = o THEN o ELSE f[g[o]]
  <2>1. CASE g[o] = o BY <1>2, <2>1
  <2>2. CASE g[o] # o
    <3>1. Fixed(o) = Fixed(g[o]) /\ g[o] \in S BY <1>3, <2>2
    <3>2. QED BY <2>2, <3>1
  <2>3. QED BY <2>1, <2>2
<1>5. f = [o \in S |-> f[o]] OBVIOUS
<1> HIDE DEF f
<1>6. f = [o \in S |-> IF g[o] = o THEN o ELSE f[g[o]]] BY <1>4, <1>5
<1>7. QED BY <1>6

\* It ends if each step that changes something makes some measure grow.
LEMMA IterationsEnd ==
  ASSUME NEW S, NEW g \in [S -> S], NEW f, f = [o \in S |-> IF g[o] = o THEN o ELSE f[g[o]]],
         NEW J, J \subseteq S, NEW len \in Nat, NEW size \in [J -> 0..len],
         \A o \in J : g[o] \in J /\ (g[o] # o => size[o] < size[g[o]])
  PROVE  \A o \in J : f[o] \in J /\ g[f[o]] = f[o]
<1> DEFINE Bad == {k \in 0..len : \E o \in J : size[o] = len - k /\ ~(f[o] \in J /\ g[f[o]] = f[o])}
<1>1. ASSUME NEW o \in J, ~(f[o] \in J /\ g[f[o]] = f[o]) PROVE FALSE
  <2>1. size[o] \in 0..len OBVIOUS
  <2>2. len - size[o] \in Bad
    <3>1. len - size[o] \in 0..len /\ size[o] = len - (len - size[o]) BY <2>1
    <3>2. QED BY <1>1, <3>1
  <2>3. Bad \subseteq Nat /\ Bad # {}
    <3>1. Bad # {} BY <2>2
    <3>2. Bad \subseteq Nat OBVIOUS
    <3>3. QED BY <3>1, <3>2
  <2>4. PICK k \in Bad : \A y \in Bad : k <= y
    <3> HIDE DEF Bad
    <3>1. QED BY <2>3, LeastOf
  <2>5. PICK p \in J : size[p] = len - k /\ ~(f[p] \in J /\ g[f[p]] = f[p]) BY <2>4
  <2>6. f[p] = IF g[p] = p THEN p ELSE f[g[p]] OBVIOUS
  <2>7. g[p] # p BY <2>5, <2>6
  <2>8. g[p] \in J /\ size[p] < size[g[p]] /\ size[g[p]] \in 0..len BY <2>7
  <2>9. ~(f[g[p]] \in J /\ g[f[g[p]]] = f[g[p]]) BY <2>5, <2>6, <2>7
  <2>10. len - size[g[p]] \in 0..len /\ size[g[p]] = len - (len - size[g[p]]) BY <2>8
  <2>11. len - size[g[p]] \in Bad BY <2>8, <2>9, <2>10
  <2>12. k \in 0..len BY <2>4
  <2>13. k <= len - size[g[p]] BY <2>4, <2>11
  <2>14. QED BY <2>5, <2>8, <2>12, <2>13
<1>2. QED BY <1>1
------------------------------------------------------------------------------
(* Sweeps that settle                                                         *)

\* What leaves a node, of what a family of sets lets in.
Leaving(t, cfg, o, n) ==
  IF Defines(t, n) THEN (Entering(cfg, o, n) \ Defs(t, t[n].lhs)) \cup {n} ELSE Entering(cfg, o, n)
Families(t) == [DOMAIN t -> SUBSET DOMAIN t]
Within(t, o, p) == \A n \in DOMAIN t : o[n] \subseteq p[n]
Rising(t, cfg, o) == \A n \in DOMAIN t : o[n] \subseteq Leaving(t, cfg, o, n)
LeftAlone(t, cfg, o) == \A n \in DOMAIN t : Leaving(t, cfg, o, n) \subseteq o[n]
StartsInside(t, cfg) == \A e \in cfg : e.from \in DOMAIN t

\* More that is let in is more that leaves.
LEMMA LeavingGrows ==
  ASSUME NEW t, NEW cfg, StartsInside(t, cfg), NEW o \in Families(t), NEW p \in Families(t), Within(t, o, p),
         NEW n \in DOMAIN t
  PROVE  /\ Leaving(t, cfg, o, n) \in SUBSET DOMAIN t
         /\ Leaving(t, cfg, o, n) \subseteq Leaving(t, cfg, p, n)
<1>1. \A e \in cfg : o[e.from] \in SUBSET DOMAIN t /\ o[e.from] \subseteq p[e.from]
  BY DEF StartsInside, Within, Families
<1>2. Entering(cfg, o, n) \in SUBSET DOMAIN t BY <1>1 DEF Entering
<1>3. Entering(cfg, o, n) \subseteq Entering(cfg, p, n) BY <1>1 DEF Entering
<1>4. QED BY <1>2, <1>3 DEF Leaving

\* One node of a sweep lets nothing go, and stays within what is left alone.
LEMMA StepRises ==
  ASSUME NEW t, NEW cfg, StartsInside(t, cfg), NEW o \in Families(t), NEW n \in DOMAIN t
  PROVE  /\ Through(t, cfg, o, n) \in Families(t)
         /\ Rising(t, cfg, o) => /\ Rising(t, cfg, Through(t, cfg, o, n))
                                 /\ Within(t, o, Through(t, cfg, o, n))
         /\ \A s \in Families(t) : LeftAlone(t, cfg, s) /\ Within(t, o, s) => Within(t, Through(t, cfg, o, n), s)
<1> DEFINE p == Through(t, cfg, o, n)
<1>1. p = [o EXCEPT ![n] = Leaving(t, cfg, o, n)] BY DEF Through, Leaving
<1>2. Within(t, o, o) BY DEF Within
<1>3. Leaving(t, cfg, o, n) \in SUBSET DOMAIN t BY <1>2, LeavingGrows
<1> HIDE DEF p
<1>4. p[n] = Leaving(t, cfg, o, n) /\ \A m \in DOMAIN t : m # n => p[m] = o[m] BY <1>1 DEF Families
<1>5. p \in Families(t) BY <1>1, <1>3 DEF Families
<1>6. ASSUME Rising(t, cfg, o) PROVE Rising(t, cfg, p) /\ Within(t, o, p)
  <2>1. \A m \in DOMAIN t : o[m] \subseteq Leaving(t, cfg, o, m) BY <1>6 DEF Rising
  <2>2. Within(t, o, p) BY <1>4, <2>1 DEF Within
  <2>3. \A m \in DOMAIN t : Leaving(t, cfg, o, m) \subseteq Leaving(t, cfg, p, m)
    BY <1>5, <2>2, LeavingGrows
  <2>4. \A m \in DOMAIN t : p[m] \subseteq Leaving(t, cfg, p, m) BY <1>4, <2>1, <2>3
  <2>5. QED BY <2>2, <2>4 DEF Rising
<1>7. ASSUME NEW s \in Families(t), LeftAlone(t, cfg, s), Within(t, o, s) PROVE Within(t, p, s)
  <2>1. Leaving(t, cfg, o, n) \subseteq Leaving(t, cfg, s, n) BY <1>7, LeavingGrows
  <2>2. Leaving(t, cfg, s, n) \subseteq s[n] BY <1>7 DEF LeftAlone
  <2>3. \A m \in DOMAIN t : o[m] \subseteq s[m] BY <1>7 DEF Within
  <2>4. \A m \in DOMAIN t : p[m] \subseteq s[m] BY <1>4, <2>1, <2>2, <2>3
  <2>5. QED BY <2>4 DEF Within
<1>8. QED BY <1>5, <1>6, <1>7 DEF p

\* A sweep, node by node.
LEMMA SweepUnfolds ==
  ASSUME NEW t, NEW cfg, NEW out, Len(t) \in Nat
  PROVE  \E g : /\ g[0] = out
                /\ \A n \in 1..Len(t) : g[n] = Through(t, cfg, g[n - 1], n)
                /\ Sweep(t, cfg, out) = g[Len(t)]
<1> DEFINE Is(f, k) == f = [n \in 0..k |-> IF n = 0 THEN out ELSE Through(t, cfg, f[n - 1], n)]
           T == {k \in 0..Len(t) : ~\E f : Is(f, k)}
           g == CHOOSE f : Is(f, Len(t))
<1>1. T = {}
  <2> SUFFICES ASSUME T # {} PROVE FALSE OBVIOUS
  <2>1. T \subseteq Nat OBVIOUS
  <2>2. PICK k \in T : \A y \in T : k <= y
    <3> HIDE DEF T
    <3>1. QED BY <2>1, LeastOf
  <2>3. CASE k = 0
    <3> DEFINE f == [n \in 0..0 |-> out]
    <3>1. Is(f, 0) OBVIOUS
    <3>2. QED BY <2>2, <2>3, <3>1
  <2>4. CASE k # 0
    <3>1. k \in 1..Len(t) /\ k - 1 \in 0..Len(t) /\ k - 1 \notin T
      <4>1. k \in 0..Len(t) BY <2>2
      <4> HIDE DEF T
      <4>2. k \in 1..Len(t) /\ k - 1 \in 0..Len(t) /\ ~(k <= k - 1) BY <2>4, <4>1
      <4>3. QED BY <2>2, <4>2
    <3>2. PICK f : Is(f, k - 1) BY <3>1
    <3> HIDE DEF T
    <3> DEFINE h == [n \in 0..k |-> IF n < k THEN f[n] ELSE Through(t, cfg, f[k - 1], k)]
    <3>3. \A n \in 0..k - 1 : h[n] = f[n] BY <3>1
    <3>4. ASSUME NEW n \in 0..k
          PROVE  h[n] = IF n = 0 THEN out ELSE Through(t, cfg, h[n - 1], n)
      <4>1. CASE n = k
        <5>1. h[n] = Through(t, cfg, f[k - 1], k) /\ n # 0 /\ h[n - 1] = f[k - 1] BY <3>1, <3>3, <4>1
        <5> HIDE DEF h
        <5>2. QED BY <4>1, <5>1
      <4>2. CASE n # k
        <5>1. n \in 0..k - 1 /\ (n # 0 => n - 1 \in 0..k - 1) BY <3>1, <4>2
        <5>2. h[n] = f[n] /\ (n # 0 => h[n - 1] = f[n - 1]) BY <3>3, <5>1
        <5> HIDE DEF h
        <5>3. f[n] = IF n = 0 THEN out ELSE Through(t, cfg, f[n - 1], n) BY <3>2, <5>1
        <5>4. QED BY <5>2, <5>3
      <4>3. QED BY <4>1, <4>2
    <3>5. Is(h, k)
      <4>1. h = [n \in 0..k |-> h[n]] OBVIOUS
      <4> HIDE DEF h
      <4>2. QED BY <3>4, <4>1
    <3>6. k \notin T BY <3>5 DEF T
    <3>7. QED BY <2>2, <3>6
  <2>5. QED BY <2>3, <2>4
<1>2. Is(g, Len(t))
  <2>1. Len(t) \notin T BY <1>1
  <2>2. \E f : Is(f, Len(t)) BY <2>1
  <2> HIDE DEF Is
  <2>3. QED BY <2>2
<1>3. Sweep(t, cfg, out) = g[Len(t)] BY DEF Sweep
<1> HIDE DEF g
<1>4. g[0] = out BY <1>2
<1>5. \A n \in 1..Len(t) : g[n] = Through(t, cfg, g[n - 1], n)
  <2> TAKE n \in 1..Len(t)
  <2>1. n \in 0..Len(t) /\ n # 0 OBVIOUS
  <2>2. QED BY <1>2, <2>1
<1>6. QED BY <1>3, <1>4, <1>5

\* So does a whole sweep.
LEMMA SweepRises ==
  ASSUME NEW t, NEW cfg, Len(t) \in Nat, DOMAIN t = 1..Len(t), StartsInside(t, cfg), NEW o \in Families(t)
  PROVE  /\ Sweep(t, cfg, o) \in Families(t)
         /\ Rising(t, cfg, o) => Rising(t, cfg, Sweep(t, cfg, o)) /\ Within(t, o, Sweep(t, cfg, o))
         /\ \A s \in Families(t) : LeftAlone(t, cfg, s) /\ Within(t, o, s) => Within(t, Sweep(t, cfg, o), s)
<1>1. PICK g : /\ g[0] = o
               /\ \A n \in 1..Len(t) : g[n] = Through(t, cfg, g[n - 1], n)
               /\ Sweep(t, cfg, o) = g[Len(t)]
  BY ONLY Len(t) \in Nat, SweepUnfolds
<1> DEFINE Good(p) == /\ p \in Families(t)
                      /\ Rising(t, cfg, o) => Rising(t, cfg, p) /\ Within(t, o, p)
                      /\ \A s \in Families(t) : LeftAlone(t, cfg, s) /\ Within(t, o, s) => Within(t, p, s)
           T == {k \in 0..Len(t) : ~Good(g[k])}
<1>2. Good(o) BY DEF Within
<1>3. ASSUME NEW p, Good(p), NEW n \in 1..Len(t) PROVE Good(Through(t, cfg, p, n))
  <2> DEFINE q == Through(t, cfg, p, n)
  <2>1. /\ q \in Families(t)
        /\ Rising(t, cfg, p) => Rising(t, cfg, q) /\ Within(t, p, q)
        /\ \A s \in Families(t) : LeftAlone(t, cfg, s) /\ Within(t, p, s) => Within(t, q, s)
    BY <1>3, StepRises
  <2> HIDE DEF q
  <2>2. Within(t, o, p) /\ Within(t, p, q) => Within(t, o, q) BY DEF Within
  <2>3. Good(q) BY <1>3, <2>1, <2>2
  <2>4. QED BY <2>3 DEF q
<1> HIDE DEF Good
<1>4. T = {}
  <2> SUFFICES ASSUME T # {} PROVE FALSE OBVIOUS
  <2>1. T \subseteq Nat OBVIOUS
  <2>2. PICK k \in T : \A y \in T : k <= y
    <3> HIDE DEF T
    <3>1. QED BY <2>1, LeastOf
  <2>3. k # 0 BY <1>1, <1>2, <2>2
  <2>4. k \in 1..Len(t) /\ k - 1 \in 0..Len(t) /\ k - 1 \notin T BY <2>2, <2>3
  <2>5. Good(g[k - 1]) BY <2>4
  <2>6. Good(g[k]) BY <1>1, <1>3, <2>4, <2>5
  <2>7. QED BY <2>2, <2>6
<1>5. Len(t) \in 0..Len(t) /\ Len(t) \notin T BY <1>4
<1>6. Good(Sweep(t, cfg, o)) BY <1>1, <1>5
<1>7. QED BY <1>6 DEF Good

\* How much a family holds.
Held(D, o) == {p \in D \X D : p[2] \in o[p[1]]}

LEMMA HoldingMore ==
  ASSUME NEW D, IsFiniteSet(D), NEW o \in [D -> SUBSET D], NEW p \in [D -> SUBSET D],
         \A n \in D : o[n] \subseteq p[n]
  PROVE  /\ Cardinality(Held(D, o)) \in Nat /\ Cardinality(D \X D) \in Nat
         /\ Cardinality(Held(D, o)) <= Cardinality(D \X D)
         /\ o # p => Cardinality(Held(D, o)) < Cardinality(Held(D, p))
<1> DEFINE all == D \X D
           O == Held(D, o)
           P == Held(D, p)
<1>1. IsFiniteSet(all) BY FS_Product
<1>2. \A n, m \in D : (<<n, m>> \in O <=> m \in o[n]) /\ (<<n, m>> \in P <=> m \in p[n]) BY DEF Held
<1>3. O \in SUBSET all /\ P \in SUBSET all /\ O \in SUBSET P BY DEF Held
<1> HIDE DEF all, O, P
<1>4. IsFiniteSet(O) /\ IsFiniteSet(P) BY <1>1, <1>3, FS_Subset
<1>5. Cardinality(O) \in Nat /\ Cardinality(P) \in Nat /\ Cardinality(all) \in Nat
  BY <1>1, <1>4, FS_CardinalityType
<1>6. Cardinality(O) <= Cardinality(all) BY <1>1, <1>3, FS_Subset
<1>7. Cardinality(O) <= Cardinality(P) /\ (Cardinality(P) = Cardinality(O) => P = O)
  BY <1>3, <1>4, FS_Subset
<1>8. ASSUME O = P PROVE o = p
  <2>1. \A n, m \in D : m \in o[n] <=> m \in p[n] BY <1>2, <1>8
  <2>2. \A n \in D : o[n] \in SUBSET D /\ p[n] \in SUBSET D OBVIOUS
  <2>3. \A n \in D : o[n] = p[n] BY <2>1, <2>2
  <2>4. QED BY <2>3
<1>9. QED BY <1>5, <1>6, <1>7, <1>8 DEF all, O, P

\* What the sweeps settle on is in every family that they would leave alone.
LEMMA SettledIsLeast ==
  ASSUME NEW t, NEW cfg, Len(t) \in Nat, DOMAIN t = 1..Len(t), StartsInside(t, cfg),
         NEW s \in Families(t), LeftAlone(t, cfg, s)
  PROVE  Settled(t, cfg) \in Families(t) /\ Within(t, Settled(t, cfg), s)
<1> DEFINE S == Families(t)
           g == [o \in S |-> Sweep(t, cfg, o)]
           Is(f) == f = [o \in S |-> IF g[o] = o THEN o ELSE f[g[o]]]
           settle == CHOOSE f : Is(f)
           J == {o \in S : Rising(t, cfg, o) /\ Within(t, o, s)}
           D == DOMAIN t
           all == Cardinality(D \X D)
           size == [o \in J |-> Cardinality(Held(D, o))]
           none == [n \in DOMAIN t |-> {}]
<1>1. g \in [S -> S] BY SweepRises
<1>2. \A f : Is(f) <=> f = [o \in S |-> IF Sweep(t, cfg, o) = o THEN o ELSE f[Sweep(t, cfg, o)]] OBVIOUS
<1>3. Settled(t, cfg) = settle[none] BY DEF Settled, Families
<1>4. none \in J BY DEF Families, Rising, Within
<1>5. \A o \in J : g[o] \in J /\ Within(t, o, g[o]) BY SweepRises
<1>6. J \subseteq S OBVIOUS
<1>7. IsFiniteSet(D) BY FS_Interval
<1>8. S = [D -> SUBSET D] /\ \A o, p \in S : Within(t, o, p) => \A n \in D : o[n] \subseteq p[n]
  BY DEF Families, Within
<1> HIDE DEF D
<1>9. \A o \in S : Cardinality(Held(D, o)) \in Nat /\ all \in Nat /\ Cardinality(Held(D, o)) <= all
  BY <1>7, <1>8, HoldingMore
<1>10. size \in [J -> 0..all] /\ all \in Nat
  <2>1. none \in S BY <1>4
  <2> HIDE DEF S, none, all
  <2>2. \A o \in J : Cardinality(Held(D, o)) \in 0..all BY <1>9
  <2>3. QED BY <1>9, <2>1, <2>2
<1>11. ASSUME NEW o \in J, g[o] # o PROVE size[o] < size[g[o]]
  <2>1. o \in S /\ g[o] \in S /\ g[o] \in J /\ Within(t, o, g[o]) BY <1>5, <1>6
  <2> HIDE DEF g, S, J
  <2>2. Cardinality(Held(D, o)) < Cardinality(Held(D, g[o])) BY <1>7, <1>8, <1>11, <2>1, HoldingMore
  <2>3. QED BY <2>1, <2>2
<1> HIDE DEF S, g, J, all, size, none
<1>12. \E f : Is(f) BY <1>1, IterationsAre
<1>13. Is(settle) BY <1>12
<1> HIDE DEF settle
<1>14. \A o \in J : settle[o] \in J BY <1>1, <1>5, <1>6, <1>10, <1>11, <1>13, IterationsEnd
<1>15. settle[none] \in J BY <1>4, <1>14
<1>16. QED BY <1>3, <1>15 DEF J, S
------------------------------------------------------------------------------
(* What control may reach                                                     *)

\* What is passed by whoever comes from d: the last definition of a name stays.
Passed(t, d, reached) == {d} \cup {n \in reached : ~(Defines(t, n) /\ t[n].lhs = t[d].lhs)}

\* Control goes to the successors of all that is passed, and to nothing but such.
LEMMA LiveIsClosed ==
  ASSUME NEW t, Len(t) \in Nat, DOMAIN t = 1..Len(t), NEW d \in DOMAIN t,
         NEW successors \in [DOMAIN t -> SUBSET DOMAIN t],
         NEW P, P \subseteq DOMAIN t, \A n \in DOMAIN t : successors[n] \subseteq P
  PROVE  /\ LiveAt(t, successors, d) \subseteq P
         /\ \A n \in Passed(t, d, LiveAt(t, successors, d)) : successors[n] \subseteq LiveAt(t, successors, d)
<1> DEFINE D == DOMAIN t
           S == SUBSET D
           More(reached) == reached \cup UNION {successors[n] : n \in Passed(t, d, reached)}
           g == [reached \in S |-> More(reached)]
           Is(f) == f = [reached \in S |-> IF g[reached] = reached THEN reached ELSE f[g[reached]]]
           IsLive(f) == f = [reached \in SUBSET DOMAIN t |->
                             LET passed == {d} \cup {n \in reached : ~(Defines(t, n) /\ t[n].lhs = t[d].lhs)}
                                 next == reached \cup UNION {successors[n] : n \in passed}
                             IN  IF next = reached THEN reached ELSE f[next]]
           live == CHOOSE f : IsLive(f)
           J == SUBSET P
           all == Cardinality(D)
           size == [reached \in J |-> Cardinality(reached)]
<1>1. IsFiniteSet(D) /\ D = DOMAIN t
  <2>1. IsFiniteSet(1..Len(t)) BY ONLY Len(t) \in Nat, FS_Interval
  <2>2. QED BY <2>1
<1>2. \A f : Is(f) <=> IsLive(f)
  <2> TAKE f
  <2>1. IsLive(f) <=> f = [reached \in S |-> IF More(reached) = reached THEN reached ELSE f[More(reached)]]
    BY DEF Passed
  <2>2. QED BY <2>1
<1>3. LiveAt(t, successors, d) = live[{}] BY DEF LiveAt
<1> HIDE DEF D
<1>4. \A reached \in S : Passed(t, d, reached) \in SUBSET D BY <1>1 DEF Passed
<1>5. \A reached \in S : More(reached) \in S BY <1>1, <1>4
<1>6. g \in [S -> S] /\ \A reached \in S : g[reached] = More(reached) BY <1>5
<1>7. J \subseteq S /\ {} \in J BY <1>1
<1>8. ASSUME NEW reached \in J PROVE g[reached] \in J /\ reached \subseteq g[reached]
  <2>1. reached \in S BY <1>7
  <2>2. \A n \in Passed(t, d, reached) : successors[n] \subseteq P BY <1>1, <1>4, <2>1
  <2>3. More(reached) \subseteq P BY <2>2
  <2>4. QED BY <1>6, <2>1, <2>3
<1>9. all \in Nat /\ size \in [J -> 0..all]
  <2>1. all \in Nat BY <1>1, FS_CardinalityType
  <2>2. ASSUME NEW reached \in J PROVE Cardinality(reached) \in 0..all
    <3>1. reached \in SUBSET D BY <1>7
    <3>2. IsFiniteSet(reached) /\ Cardinality(reached) <= Cardinality(D) BY <1>1, <3>1, FS_Subset
    <3>3. Cardinality(reached) \in Nat BY <3>2, FS_CardinalityType
    <3>4. QED BY <2>1, <3>2, <3>3
  <2> HIDE DEF all, J
  <2>3. QED BY <2>1, <2>2
<1>10. ASSUME NEW reached \in J, g[reached] # reached PROVE size[reached] < size[g[reached]]
  <2> DEFINE more == g[reached]
  <2>1. more \in J /\ reached \in SUBSET more /\ more # reached /\ more \in SUBSET D BY <1>7, <1>8, <1>10
  <2> HIDE DEF more, J
  <2>2. IsFiniteSet(more) BY <1>1, <2>1, FS_Subset
  <2>3. /\ IsFiniteSet(reached) /\ Cardinality(reached) <= Cardinality(more)
        /\ Cardinality(reached) # Cardinality(more)
    BY <2>1, <2>2, FS_Subset
  <2>4. Cardinality(reached) \in Nat /\ Cardinality(more) \in Nat BY <2>2, <2>3, FS_CardinalityType
  <2>5. size[reached] = Cardinality(reached) /\ size[more] = Cardinality(more) BY <2>1
  <2>6. QED BY <2>3, <2>4, <2>5 DEF more
<1> HIDE DEF S, g, J, all, size, More
<1>11. \E f : Is(f) BY <1>6, IterationsAre
<1>12. Is(live)
  <2> HIDE DEF Is, IsLive
  <2>1. QED BY <1>2, <1>11
<1> HIDE DEF live
<1>13. \A reached \in J : live[reached] \in J /\ g[live[reached]] = live[reached]
  <2>1. \A o \in J : g[o] \in J /\ (g[o] # o => size[o] < size[g[o]]) BY <1>8, <1>10
  <2>2. live = [o \in S |-> IF g[o] = o THEN o ELSE live[g[o]]] BY <1>12
  <2> HIDE DEF Is
  <2>3. g \in [S -> S] /\ J \subseteq S /\ all \in Nat /\ size \in [J -> 0..all] BY <1>6, <1>7, <1>9
  <2>4. QED BY ONLY <2>1, <2>2, <2>3, IterationsEnd
<1> DEFINE R == LiveAt(t, successors, d)
<1>14. R \in J /\ R \in S /\ g[R] = R BY <1>3, <1>7, <1>13
<1> HIDE DEF R
<1>15. R = More(R) BY <1>6, <1>14
<1>16. \A n \in Passed(t, d, R) : successors[n] \subseteq R BY <1>15 DEF More
<1>17. QED BY <1>14, <1>16 DEF J, R

\* Sets that take in the sets of others, whether or not they go round in circles.
Joined(D, own, others, f) == [n \in D |-> own[n] \cup UNION {f[m] : m \in others[n]}]

LEMMA UnionsExist ==
  ASSUME NEW D, NEW own, NEW others \in [D -> SUBSET D]
  PROVE  \E f : f = Joined(D, own, others, f)
<1> DEFINE Closing(C) == \A m \in C : others[m] \subseteq C
           Orbit(n) == {m \in D : \A C \in SUBSET D : Closing(C) /\ n \in C => m \in C}
           f == [n \in D |-> UNION {own[m] : m \in Orbit(n)}]
<1>1. ASSUME NEW n \in D PROVE n \in Orbit(n) /\ Closing(Orbit(n)) /\ Orbit(n) \in SUBSET D
  <2>1. \A m \in Orbit(n) : others[m] \subseteq D OBVIOUS
  <2>2. \A m \in Orbit(n) : others[m] \subseteq Orbit(n) BY <2>1
  <2>3. QED BY <2>2
<1>2. ASSUME NEW n \in D, NEW m \in others[n] PROVE \A p \in Orbit(m) : p \in Orbit(n)
  <2> DEFINE C == Orbit(n)
  <2>1. Closing(C) /\ C \in SUBSET D /\ n \in C BY <1>1
  <2> HIDE DEF C
  <2>2. m \in C BY <2>1
  <2>3. \A p \in Orbit(m) : p \in C BY <2>1, <2>2
  <2>4. QED BY <2>3 DEF C
<1>3. ASSUME NEW n \in D, NEW p \in Orbit(n), p # n PROVE \E m \in others[n] : p \in Orbit(m)
  <2> DEFINE C == {n} \cup UNION {Orbit(m) : m \in others[n]}
  <2>1. \A m \in others[n] : m \in Orbit(m) /\ Closing(Orbit(m)) /\ Orbit(m) \in SUBSET D BY <1>1
  <2> HIDE DEF Orbit
  <2>2. others[n] \subseteq C BY <2>1
  <2>3. Closing(C) /\ C \in SUBSET D /\ n \in C BY <2>1, <2>2
  <2>4. \A q \in C : q = n \/ \E m \in others[n] : q \in Orbit(m) OBVIOUS
  <2> HIDE DEF C
  <2>5. p \in C BY <2>3 DEF Orbit
  <2>6. QED BY <1>3, <2>4, <2>5
<1>4. ASSUME NEW n \in D PROVE f[n] = own[n] \cup UNION {f[m] : m \in others[n]}
  <2>1. n \in Orbit(n) /\ others[n] \subseteq D BY <1>1
  <2> HIDE DEF Orbit
  <2>2. \A m \in others[n] : f[m] \subseteq f[n] BY <1>2, <2>1
  <2>3. own[n] \subseteq f[n] BY <2>1
  <2>4. ASSUME NEW x \in f[n] PROVE x \in own[n] \/ \E m \in others[n] : x \in f[m]
    <3>1. PICK p \in Orbit(n) : x \in own[p] OBVIOUS
    <3>2. CASE p = n BY <3>1, <3>2
    <3>3. CASE p # n
      <4>1. PICK m \in others[n] : p \in Orbit(m) BY <1>3, <3>3
      <4>2. x \in f[m] BY <2>1, <3>1, <4>1
      <4>3. QED BY <4>2
    <3>4. QED BY <3>2, <3>3
  <2> HIDE DEF f
  <2>5. QED BY <2>2, <2>3, <2>4
<1>5. f = [n \in D |-> f[n]] OBVIOUS
<1> HIDE DEF f
<1>6. f = Joined(D, own, others, f) BY <1>4, <1>5 DEF Joined
<1>7. QED BY <1>6

------------------------------------------------------------------------------
(* Statements and blocks                                                      *)

\* What a proof about nesting needs of a tree.
LEMMA TreesNest ==
  ASSUME NEW t, IsATree(t)
  PROVE  /\ Len(t) \in Nat /\ DOMAIN t = 1..Len(t)
         /\ \A n \in DOMAIN t : /\ t[n].last \in n..Len(t) /\ t[n].parent \in 0..n - 1
                                /\ t[n].parent # 0 => t[n].last <= t[t[n].parent].last
                                /\ \A m \in 1..n - 1 : t[m].last >= n => m <= t[n].parent
BY DEF IsATree, IsASlice

\* A block or module is the nearest node but unknown ones around its statements.
LEMMA StatementsAre ==
  ASSUME NEW t, IsATree(t), NEW n \in DOMAIN t, NEW s \in Statements(t, n)
  PROVE  /\ s \in DOMAIN t /\ s > n /\ n \in Ancestors(t, s) /\ s <= t[n].last
         /\ t[s].kind # "unknown"
         /\ \A a \in Ancestors(t, s) : a > n => t[a].kind = "unknown"
<1>1. s \in (n + 1)..t[n].last /\ t[s].kind # "unknown"
      /\ \A a \in Ancestors(t, s) : a > n => t[a].kind = "unknown"
  BY DEF Statements, Descendants
<1>2. n \in 1..Len(t) /\ Len(t) \in Nat /\ DOMAIN t = 1..Len(t) /\ t[n].last \in n..Len(t) BY TreesNest
<1>3. s \in 1..Len(t) /\ s > n /\ n \in 1..s - 1 /\ t[n].last >= s BY <1>1, <1>2
<1>4. QED BY <1>1, <1>2, <1>3 DEF Ancestors

\* A block that has statements has a first and a last one.
LEMMA EndsOfStatements ==
  ASSUME NEW t, IsATree(t), NEW n \in DOMAIN t, Statements(t, n) # {}
  PROVE  /\ Min(Statements(t, n)) \in Statements(t, n) /\ \A s \in Statements(t, n) : Min(Statements(t, n)) <= s
         /\ Max(Statements(t, n)) \in Statements(t, n) /\ \A s \in Statements(t, n) : s <= Max(Statements(t, n))
<1> DEFINE S == Statements(t, n)
<1>1. Len(t) \in Nat /\ DOMAIN t = 1..Len(t) BY TreesNest
<1>2. S \subseteq DOMAIN t BY StatementsAre
<1>3. S \subseteq Nat /\ S \subseteq 0..Len(t) /\ S # {} BY <1>1, <1>2
<1> HIDE DEF S
<1>4. Min(S) \in S /\ \A s \in S : Min(S) <= s BY <1>3, MinOf
<1>5. Max(S) \in S /\ \A s \in S : s <= Max(S) BY <1>1, <1>3, MaxOf
<1>6. QED BY <1>4, <1>5 DEF S

\* A statement has one block or module.
LEMMA OneBody ==
  ASSUME NEW t, IsATree(t), NEW m \in DOMAIN t, NEW n \in DOMAIN t, t[m].kind # "unknown", t[n].kind # "unknown",
         NEW s, s \in Statements(t, m), s \in Statements(t, n)
  PROVE  m = n
<1>1. m \in Ancestors(t, s) /\ n \in Ancestors(t, s) BY StatementsAre
<1>2. ~(m > n) /\ ~(n > m) BY <1>1, StatementsAre
<1>3. m \in Nat /\ n \in Nat BY TreesNest
<1>4. QED BY <1>2, <1>3

\* Around a block lie the node it is of and what is around that, and at most an
\* unknown wrapper.
LEMMA BlocksAre ==
  ASSUME NEW t, IsATree(t), NEW n \in DOMAIN t, t[n].kind # "unknown", NEW b \in Blocks(t, n)
  PROVE  /\ b \in DOMAIN t /\ b > n /\ t[b].kind = "block" /\ n \in Ancestors(t, b) /\ t[b].last <= t[n].last
         /\ \A a \in Ancestors(t, b) : a > n => t[a].kind = "unknown"
<1>1. b \in (n + 1)..t[n].last /\ t[b].kind = "block"
      /\ (t[b].parent = n \/ (t[t[b].parent].kind = "unknown" /\ t[t[b].parent].parent = n))
  <2>1. b \in Descendants(t, n) /\ t[b].kind = "block"
        /\ (t[b].parent = n \/ (t[t[b].parent].kind = "unknown" /\ t[t[b].parent].parent = n))
    BY DEF Blocks
  <2>2. QED BY <2>1 DEF Descendants
<1>2. n \in 1..Len(t) /\ Len(t) \in Nat /\ DOMAIN t = 1..Len(t) /\ t[n].last \in n..Len(t) BY TreesNest
<1>3. b \in 1..Len(t) /\ b > n /\ n \in 1..b - 1 /\ t[n].last >= b BY <1>1, <1>2
<1> DEFINE p == t[b].parent
<1>4. p \in 0..b - 1 /\ (p # 0 => t[b].last <= t[p].last) /\ \A m \in 1..b - 1 : t[m].last >= b => m <= p
  BY <1>2, <1>3, TreesNest
<1>5. n <= p BY <1>3, <1>4
<1>6. p \in DOMAIN t BY <1>2, <1>3, <1>4, <1>5
<1>7. t[b].last \in b..Len(t) /\ t[p].last \in p..Len(t) BY <1>2, <1>3, <1>6, TreesNest
<1> HIDE DEF p
<1>8. CASE p = n
  <2>1. \A a \in 1..b - 1 : t[a].last >= b => ~(a > n) BY <1>2, <1>4, <1>8
  <2>2. QED BY <1>1, <1>2, <1>3, <1>4, <1>8, <2>1 DEF Ancestors
<1>9. CASE p # n
  <2>1. t[p].kind = "unknown" /\ t[p].parent = n BY <1>1, <1>9 DEF p
  <2>2. t[p].last <= t[n].last /\ \A m \in 1..p - 1 : t[m].last >= p => m <= n BY <1>2, <1>6, <2>1, TreesNest
  <2>3. t[b].last <= t[n].last BY <1>2, <1>4, <1>6, <1>7, <2>2
  <2>4. ASSUME NEW a \in 1..b - 1, t[a].last >= b, a > n PROVE t[a].kind = "unknown"
    <3>1. a <= p BY <1>4, <2>4
    <3>2. a \in DOMAIN t /\ t[a].last \in a..Len(t) BY <1>2, <1>3, TreesNest
    <3>3. CASE a = p BY <2>1, <3>3
    <3>4. CASE a # p
      <4>1. a \in Nat /\ a >= 1 /\ p \in Nat /\ p < b /\ t[a].last \in Nat /\ b \in Nat
        BY <1>2, <1>3, <1>4, <3>2
      <4>2. a \in 1..p - 1 BY <3>1, <3>4, <4>1
      <4>3. t[a].last >= p BY <2>4, <4>1
      <4>4. QED BY <1>2, <2>2, <2>4, <4>2, <4>3
    <3>5. QED BY <3>3, <3>4
  <2>5. QED BY <1>1, <1>2, <1>3, <2>3, <2>4 DEF Ancestors
<1>10. QED BY <1>8, <1>9

\* A block is of one node, and a statement of none.
LEMMA OneOwner ==
  ASSUME NEW t, IsATree(t), NEW m \in DOMAIN t, NEW n \in DOMAIN t, t[m].kind # "unknown", t[n].kind # "unknown",
         NEW b, b \in Blocks(t, m), b \in Blocks(t, n)
  PROVE  m = n
<1>1. m \in Ancestors(t, b) /\ n \in Ancestors(t, b) BY BlocksAre
<1>2. ~(m > n) /\ ~(n > m) BY <1>1, BlocksAre
<1>3. m \in Nat /\ n \in Nat BY TreesNest
<1>4. QED BY <1>2, <1>3

LEMMA BlocksAreNoStatements ==
  ASSUME NEW t, IsATree(t), NEW n \in DOMAIN t, t[n].kind \notin {"unknown", "block", "module"}, NEW b \in Blocks(t, n),
         NEW m \in DOMAIN t, t[m].kind \in {"block", "module"}
  PROVE  b \notin Statements(t, m)
<1> SUFFICES ASSUME b \in Statements(t, m) PROVE FALSE OBVIOUS
<1>1. m \in Ancestors(t, b) /\ \A a \in Ancestors(t, b) : a > m => t[a].kind = "unknown" BY StatementsAre
<1>2. n \in Ancestors(t, b) /\ \A a \in Ancestors(t, b) : a > n => t[a].kind = "unknown" BY BlocksAre
<1>3. ~(m > n) /\ ~(n > m) BY <1>1, <1>2
<1>4. m \in Nat /\ n \in Nat /\ m # n BY TreesNest
<1>5. QED BY <1>3, <1>4

\* The last statement of a block of an if or a try has that around it.
LEMMA AroundTheLast ==
  ASSUME NEW t, IsATree(t), NEW n \in DOMAIN t, t[n].kind \in {"if", "try"}, NEW b \in Blocks(t, n), NEW s \in Statements(t, b)
  PROVE  Around(t, s) = n
<1> DEFINE kinds == {"if", "for", "while", "try", "function", "class"}
           found == {m \in Ancestors(t, s) : t[m].kind \in kinds}
<1>1. /\ b \in DOMAIN t /\ b > n /\ t[b].kind = "block" /\ n \in Ancestors(t, b) /\ t[b].last <= t[n].last
      /\ \A a \in Ancestors(t, b) : a > n => t[a].kind = "unknown"
  BY BlocksAre
<1>2. /\ s \in DOMAIN t /\ s > b /\ s <= t[b].last
      /\ \A a \in Ancestors(t, s) : a > b => t[a].kind = "unknown"
  BY <1>1, StatementsAre
<1>3. Len(t) \in Nat /\ DOMAIN t = 1..Len(t) /\ \A m \in DOMAIN t : t[m].last \in m..Len(t) BY TreesNest
<1>4. n \in found
  <2>1. n \in 1..s - 1 /\ t[n].last >= s BY <1>1, <1>2, <1>3
  <2>2. QED BY <2>1 DEF Ancestors
<1>5. ASSUME NEW a \in found PROVE a <= n
  <2>1. a \in Ancestors(t, s) /\ t[a].kind \in kinds OBVIOUS
  <2>2. a \in 1..s - 1 /\ t[a].last >= s /\ a \in DOMAIN t /\ t[a].last \in Nat BY <1>2, <1>3, <2>1 DEF Ancestors
  <2>3. ~(a > b) /\ a # b BY <1>1, <1>2, <2>1
  <2>4. a \in 1..b - 1 /\ t[a].last >= b BY <1>1, <1>2, <1>3, <2>2, <2>3
  <2>5. a \in Ancestors(t, b) BY <2>4 DEF Ancestors
  <2>6. ~(a > n) BY <1>1, <2>1, <2>5
  <2>7. QED BY <1>3, <2>2, <2>6
<1>6. found \subseteq 0..Len(t) BY <1>2, <1>3 DEF Ancestors
<1> HIDE DEF found
<1>7. Max(found) \in found /\ n <= Max(found) BY <1>3, <1>4, <1>6, MaxOf
<1>8. Max(found) <= n BY <1>5, <1>7
<1>9. Max(found) = n
  <2>1. Max(found) \in 0..Len(t) BY <1>6, <1>7
  <2>2. n \in Nat BY <1>3
  <2>3. QED BY <1>3, <1>7, <1>8, <2>1, <2>2
<1>10. Around(t, s) = IF found = {} THEN 0 ELSE Max(found) BY DEF Around, Nearest, found
<1>11. QED BY <1>4, <1>9, <1>10

------------------------------------------------------------------------------
(* Where control leaves a statement, and where it goes                        *)

ExitsOf(t, exits, block) ==
  LET s == Statements(t, block) IN IF s = {} THEN {} ELSE exits[Max(s)]
ExitsAt(t, exits, n) ==
  CASE t[n].kind = "return" -> {}
    [] t[n].kind = "if" -> (UNION {ExitsOf(t, exits, b) : b \in Blocks(t, n)})
                             \cup (IF Cardinality(Blocks(t, n)) < 2 THEN {n} ELSE {})
    [] t[n].kind = "try" /\ Blocks(t, n) # {} -> ExitsOf(t, exits, Min(Blocks(t, n)))
    [] OTHER -> {n}

\* The exits of a node, from those of the nodes within it.
LEMMA ExitsUnfold ==
  ASSUME NEW t, IsATree(t), NEW n \in DOMAIN t
  PROVE  ExitNodes(t)[n] = ExitsAt(t, ExitNodes(t), n)
<1> DEFINE D == DOMAIN t
           Kind(m) == t[m].kind
           Into(m) == {b \in Blocks(t, m) : Statements(t, b) # {} /\
                            (Kind(m) = "if" \/ (Kind(m) = "try" /\ b = Min(Blocks(t, m))))}
           own == [m \in D |-> IF Kind(m) = "return" \/ (Kind(m) = "if" /\ ~(Cardinality(Blocks(t, m)) < 2))
                                    \/ (Kind(m) = "try" /\ Blocks(t, m) # {})
                               THEN {} ELSE {m}]
           others == [m \in D |-> {Max(Statements(t, b)) : b \in Into(m)}]
           Is(f) == f = [m \in D |-> ExitsAt(t, f, m)]
           exits == CHOOSE f : Is(f)
<1>1. others \in [D -> SUBSET D]
  <2> SUFFICES ASSUME NEW m \in D, NEW b \in Into(m) PROVE Max(Statements(t, b)) \in D OBVIOUS
  <2>1. b \in Blocks(t, m) /\ Statements(t, b) # {} /\ Kind(m) # "unknown" OBVIOUS
  <2>2. b \in DOMAIN t BY <2>1, BlocksAre
  <2>3. Max(Statements(t, b)) \in Statements(t, b) BY <2>1, <2>2, EndsOfStatements
  <2>4. QED BY <2>2, <2>3, StatementsAre
<1>2. PICK f : f = Joined(D, own, others, f)
  <2> HIDE DEF own, others, D
  <2>1. QED BY <1>1, UnionsExist
<1>3. ASSUME NEW m \in D PROVE f[m] = ExitsAt(t, f, m)
  <2>1. f[m] = own[m] \cup UNION {f[k] : k \in others[m]}
    <3> HIDE DEF own, others
    <3>1. QED BY <1>2 DEF Joined
  <2>2. ASSUME NEW x PROVE x \in UNION {f[k] : k \in others[m]} <=> \E b \in Into(m) : x \in ExitsOf(t, f, b)
    <3>1. \A b \in Into(m) : ExitsOf(t, f, b) = f[Max(Statements(t, b))] BY DEF ExitsOf
    <3>2. others[m] = {Max(Statements(t, b)) : b \in Into(m)} OBVIOUS
    <3> HIDE DEF others, Into
    <3>3. x \in UNION {f[k] : k \in others[m]} <=> \E b \in Into(m) : x \in f[Max(Statements(t, b))] BY <3>2
    <3>4. QED BY <3>1, <3>3
  <2>3. \A b : Statements(t, b) = {} => ExitsOf(t, f, b) = {} BY DEF ExitsOf
  <2>4. own[m] = IF Kind(m) = "return" \/ (Kind(m) = "if" /\ ~(Cardinality(Blocks(t, m)) < 2))
                      \/ (Kind(m) = "try" /\ Blocks(t, m) # {}) THEN {} ELSE {m}
    OBVIOUS
  <2> DEFINE rest == UNION {f[k] : k \in others[m]}
  <2>5. CASE Kind(m) = "if"
    <3>1. Into(m) = {b \in Blocks(t, m) : Statements(t, b) # {}} BY <2>5
    <3> HIDE DEF rest, Into, own, others
    <3>2. \A x : x \in rest <=> \E b \in Blocks(t, m) : x \in ExitsOf(t, f, b) BY <2>2, <2>3, <3>1 DEF rest
    <3>3. rest = UNION {ExitsOf(t, f, b) : b \in Blocks(t, m)} BY <3>2
    <3>4. own[m] = IF Cardinality(Blocks(t, m)) < 2 THEN {m} ELSE {} BY <2>4, <2>5
    <3>5. ExitsAt(t, f, m) = (UNION {ExitsOf(t, f, b) : b \in Blocks(t, m)})
                               \cup (IF Cardinality(Blocks(t, m)) < 2 THEN {m} ELSE {})
      BY <2>5 DEF ExitsAt
    <3>6. QED BY <2>1, <3>3, <3>4, <3>5 DEF rest
  <2>6. CASE Kind(m) = "try" /\ Blocks(t, m) # {}
    <3> DEFINE c == Min(Blocks(t, m))
    <3>1. c \in Blocks(t, m)
      <4>1. \A b \in Blocks(t, m) : b \in DOMAIN t BY <2>6, BlocksAre
      <4>2. Blocks(t, m) \subseteq Nat BY <4>1, TreesNest
      <4>3. QED BY <2>6, <4>2, MinOf
    <3>2. \A b : b \in Into(m) <=> b = c /\ Statements(t, c) # {} BY <2>6, <3>1
    <3> HIDE DEF rest, Into, own, others, c
    <3>3. \A x : x \in rest <=> x \in ExitsOf(t, f, c) BY <2>2, <2>3, <3>2 DEF rest
    <3>4. own[m] = {} BY <2>4, <2>6
    <3>5. ExitsAt(t, f, m) = ExitsOf(t, f, c) BY <2>6 DEF ExitsAt, c
    <3>6. QED BY <2>1, <3>3, <3>4, <3>5 DEF rest
  <2>7. CASE Kind(m) # "if" /\ ~(Kind(m) = "try" /\ Blocks(t, m) # {})
    <3>1. Into(m) = {} BY <2>7
    <3> HIDE DEF rest, Into, own, others
    <3>2. rest = {} BY <2>2, <3>1 DEF rest
    <3>3. own[m] = IF Kind(m) = "return" THEN {} ELSE {m} BY <2>4, <2>7
    <3>4. ExitsAt(t, f, m) = IF Kind(m) = "return" THEN {} ELSE {m} BY <2>7 DEF ExitsAt
    <3>5. QED BY <2>1, <3>2, <3>3, <3>4 DEF rest
  <2>8. QED BY <2>5, <2>6, <2>7
<1>4. Is(f)
  <2>1. f = [m \in D |-> f[m]]
    <3> HIDE DEF own, others
    <3>1. QED BY <1>2 DEF Joined
  <2>2. QED BY <1>3, <2>1
<1>5. ExitNodes(t) = exits BY DEF ExitNodes, ExitsAt, ExitsOf
<1> HIDE DEF Is
<1>6. Is(exits) BY <1>4
<1>7. ExitNodes(t) = [m \in D |-> ExitsAt(t, ExitNodes(t), m)] BY <1>5, <1>6 DEF Is
<1>8. QED BY <1>7

Following(t, n) == {s \in Statements(t, Max(Body(t, n))) : s > n}
AfterAt(t, after, n) ==
  IF Body(t, n) = {} THEN {} ELSE IF Following(t, n) # {} THEN {Min(Following(t, n))}
  ELSE IF Around(t, n) = 0 \/ t[Around(t, n)].kind = "function" THEN {}
  ELSE IF t[Around(t, n)].kind \in {"for", "while"} THEN {Around(t, n)}
  ELSE after[Around(t, n)]

\* The statement around a node comes before it.
LEMMA AroundIs ==
  ASSUME NEW t, IsATree(t), NEW n \in DOMAIN t, Around(t, n) # 0
  PROVE  Around(t, n) \in DOMAIN t /\ Around(t, n) < n
<1> DEFINE found == {m \in Ancestors(t, n) : t[m].kind \in {"if", "for", "while", "try", "function", "class"}}
<1>1. Len(t) \in Nat /\ DOMAIN t = 1..Len(t) BY TreesNest
<1>2. found \subseteq 1..n - 1 BY DEF Ancestors
<1>3. Around(t, n) = IF found = {} THEN 0 ELSE Max(found) BY DEF Around, Nearest
<1> HIDE DEF found
<1>4. found # {} /\ Around(t, n) = Max(found) BY <1>3
<1>5. n \in Nat /\ found \subseteq 0..n BY <1>1, <1>2
<1>6. Max(found) \in found BY <1>4, <1>5, MaxOf
<1>7. Max(found) \in 1..n - 1 BY <1>2, <1>6
<1>8. QED BY <1>1, <1>4, <1>7

\* What runs after a statement, from what runs after the one around it.
LEMMA AfterUnfolds ==
  ASSUME NEW t, IsATree(t), NEW n \in DOMAIN t
  PROVE  After(t)[n] = AfterAt(t, After(t), n)
<1> DEFINE D == DOMAIN t
           Ends(m) == Body(t, m) = {} \/ Following(t, m) # {} \/ Around(t, m) = 0
                        \/ t[Around(t, m)].kind \in {"function", "for", "while"}
           others == [m \in D |-> IF Ends(m) THEN {} ELSE {Around(t, m)}]
           own == [m \in D |-> IF Ends(m) THEN AfterAt(t, <<>>, m) ELSE {}]
           Is(f) == f = [m \in D |-> AfterAt(t, f, m)]
           after == CHOOSE f : Is(f)
<1>1. others \in [D -> SUBSET D] BY AroundIs
<1>2. PICK f : f = Joined(D, own, others, f)
  <2> HIDE DEF own, others, D
  <2>1. QED BY <1>1, UnionsExist
<1>3. ASSUME NEW m \in D PROVE f[m] = AfterAt(t, f, m)
  <2>1. f[m] = own[m] \cup UNION {f[k] : k \in others[m]}
    <3> HIDE DEF own, others
    <3>1. QED BY <1>2 DEF Joined
  <2>2. CASE Ends(m)
    <3>1. own[m] = AfterAt(t, <<>>, m) /\ others[m] = {} BY <2>2
    <3>2. AfterAt(t, <<>>, m) = AfterAt(t, f, m) BY <2>2 DEF AfterAt
    <3> HIDE DEF own, others, Ends
    <3>3. QED BY <2>1, <3>1, <3>2
  <2>3. CASE ~Ends(m)
    <3>1. own[m] = {} /\ others[m] = {Around(t, m)} BY <2>3
    <3>2. AfterAt(t, f, m) = f[Around(t, m)] BY <2>3 DEF AfterAt
    <3> HIDE DEF own, others, Ends
    <3>3. QED BY <2>1, <3>1, <3>2
  <2>4. QED BY <2>2, <2>3
<1>4. Is(f)
  <2>1. f = [m \in D |-> f[m]]
    <3> HIDE DEF own, others
    <3>1. QED BY <1>2 DEF Joined
  <2>2. QED BY <1>3, <2>1
<1>5. After(t) = after BY DEF After, AfterAt, Following
<1> HIDE DEF Is
<1>6. Is(after) BY <1>4
<1>7. After(t) = [m \in D |-> AfterAt(t, After(t), m)] BY <1>5, <1>6 DEF Is
<1>8. QED BY <1>7

\* The block or module of a statement.
LEMMA BodyIs ==
  ASSUME NEW t, IsATree(t), NEW b \in DOMAIN t, t[b].kind \in {"block", "module"}, NEW s \in Statements(t, b)
  PROVE  s \in DOMAIN t /\ Body(t, s) # {} /\ Max(Body(t, s)) = b
<1>1. s \in DOMAIN t BY StatementsAre
<1>2. b \in Body(t, s) BY DEF Body
<1>3. ASSUME NEW m \in Body(t, s) PROVE m = b
  <2>1. m \in DOMAIN t /\ t[m].kind \in {"block", "module"} /\ s \in Statements(t, m) BY DEF Body
  <2>2. t[m].kind # "unknown" /\ t[b].kind # "unknown" BY <2>1
  <2>3. QED BY <2>1, <2>2, OneBody
<1>4. Body(t, s) = {b} BY <1>2, <1>3
<1>5. b \in Nat BY TreesNest
<1>6. Max({b}) = b
  <2>1. {b} \subseteq 0..b /\ {b} # {} BY <1>5
  <2>2. Max({b}) \in {b} BY <1>5, <2>1, MaxOf
  <2>3. QED BY <2>2
<1>7. QED BY <1>1, <1>2, <1>4, <1>6

\* The statement of a module or block: it goes where the last one of its blocks does.
Placed(t, n) == \E b \in DOMAIN t : t[b].kind \in {"block", "module"} /\ n \in Statements(t, b)

LEMMA AfterTheLast ==
  ASSUME NEW t, IsATree(t), NEW n \in DOMAIN t, t[n].kind \in {"if", "try"}, NEW b \in Blocks(t, n),
         Statements(t, b) # {}
  PROVE  /\ Max(Statements(t, b)) \in DOMAIN t /\ Max(Statements(t, b)) > n
         /\ Placed(t, Max(Statements(t, b)))
         /\ After(t)[Max(Statements(t, b))] = After(t)[n]
<1> DEFINE s == Max(Statements(t, b))
<1>1. t[n].kind # "unknown" OBVIOUS
<1>2. b \in DOMAIN t /\ b > n /\ t[b].kind = "block" BY <1>1, BlocksAre
<1>3. s \in Statements(t, b) /\ \A m \in Statements(t, b) : m <= s BY <1>2, EndsOfStatements
<1> HIDE DEF s
<1>4. s \in DOMAIN t /\ s > b BY <1>2, <1>3, StatementsAre
<1>5. Body(t, s) # {} /\ Max(Body(t, s)) = b
  <2>1. t[b].kind \in {"block", "module"} BY <1>2
  <2>2. QED BY <1>2, <1>3, <2>1, BodyIs
<1>6. Following(t, s) = {}
  <2>1. \A m \in Statements(t, b) : m <= s /\ m \in Nat /\ s \in Nat BY <1>2, <1>3, StatementsAre, TreesNest
  <2>2. \A m \in Statements(t, b) : ~(m > s) BY <2>1
  <2>3. QED BY <1>5, <2>2 DEF Following
<1>7. Around(t, s) = n BY <1>3, AroundTheLast
<1>8. n # 0 BY TreesNest
<1>9. After(t)[s] = AfterAt(t, After(t), s) BY <1>4, AfterUnfolds
<1>10. AfterAt(t, After(t), s) = After(t)[n] BY <1>5, <1>6, <1>7, <1>8 DEF AfterAt
<1>11. s > n
  <2>1. s \in Nat /\ b \in Nat /\ n \in Nat BY <1>2, <1>4, TreesNest
  <2>2. QED BY <1>2, <1>4, <2>1
<1>12. Placed(t, s)
  <2>1. t[b].kind \in {"block", "module"} BY <1>2
  <2>2. QED BY <1>2, <1>3, <2>1 DEF Placed
<1>13. QED BY <1>4, <1>9, <1>10, <1>11, <1>12 DEF s

\* Control leaves a statement at one that goes where the whole of it does.
LeavesFor(t, s, x) ==
  /\ x \in DOMAIN t /\ t[x].kind # "return"
  /\ t[x].kind = "if" => Cardinality(Blocks(t, x)) < 2
  /\ x = s \/ Placed(t, x)
  /\ After(t)[x] = After(t)[s]

\* Every exit is such a one: a least counterexample, from the end of the file.
LEMMA ExitsAre ==
  ASSUME NEW t, IsATree(t)
  PROVE  \A s \in DOMAIN t : \A x \in ExitNodes(t)[s] : LeavesFor(t, s, x)
<1> DEFINE Good(s) == \A x \in ExitNodes(t)[s] : LeavesFor(t, s, x)
           Bad == {s \in DOMAIN t : ~Good(s)}
<1> SUFFICES Bad = {} OBVIOUS
<1> SUFFICES ASSUME Bad # {} PROVE FALSE OBVIOUS
<1>1. Len(t) \in Nat /\ DOMAIN t = 1..Len(t) BY TreesNest
<1>2. PICK s \in Bad : \A m \in Bad : m <= s
  <2>1. Bad \subseteq 0..Len(t) BY <1>1
  <2> HIDE DEF Bad
  <2>2. Max(Bad) \in Bad /\ \A m \in Bad : m <= Max(Bad) BY <1>1, <2>1, MaxOf
  <2>3. QED BY <2>2
<1>3. s \in DOMAIN t /\ ~Good(s) OBVIOUS
<1>4. \A m \in DOMAIN t : m > s => Good(m) BY <1>1, <1>2, <1>3
<1> HIDE DEF Bad
<1>5. PICK x \in ExitNodes(t)[s] : ~LeavesFor(t, s, x) BY <1>3
<1>6. x \in ExitsAt(t, ExitNodes(t), s) BY <1>3, <1>5, ExitsUnfold
<1>7. ASSUME t[s].kind \in {"if", "try"}, NEW b \in Blocks(t, s), x \in ExitsOf(t, ExitNodes(t), b) PROVE FALSE
  <2> DEFINE last == Max(Statements(t, b))
  <2>1. Statements(t, b) # {} /\ x \in ExitNodes(t)[last] BY <1>7 DEF ExitsOf
  <2>2. last \in DOMAIN t /\ last > s /\ Placed(t, last) /\ After(t)[last] = After(t)[s]
    BY <1>3, <1>7, <2>1, AfterTheLast
  <2> HIDE DEF last
  <2>3. LeavesFor(t, last, x) BY <1>4, <2>1, <2>2
  <2>4. LeavesFor(t, s, x) BY <2>2, <2>3 DEF LeavesFor
  <2>5. QED BY <1>5, <2>4
<1>8. x # s \/ t[s].kind = "return" \/ (t[s].kind = "if" /\ ~(Cardinality(Blocks(t, s)) < 2))
  BY <1>3, <1>5 DEF LeavesFor
<1>9. CASE t[s].kind = "return" BY <1>6, <1>9 DEF ExitsAt
<1>10. CASE t[s].kind = "if"
  <2>1. ~(\E b \in Blocks(t, s) : x \in ExitsOf(t, ExitNodes(t), b)) BY <1>7, <1>10
  <2>2. x \notin UNION {ExitsOf(t, ExitNodes(t), b) : b \in Blocks(t, s)} BY <2>1
  <2>3. QED BY <1>6, <1>8, <1>10, <2>2 DEF ExitsAt
<1>11. CASE t[s].kind = "try" /\ Blocks(t, s) # {}
  <2>1. Min(Blocks(t, s)) \in Blocks(t, s)
    <3>1. \A b \in Blocks(t, s) : b \in DOMAIN t BY <1>3, <1>11, BlocksAre
    <3>2. Blocks(t, s) \subseteq Nat BY <1>1, <3>1
    <3>3. QED BY <1>11, <3>2, MinOf
  <2>2. x \in ExitsOf(t, ExitNodes(t), Min(Blocks(t, s))) BY <1>6, <1>11 DEF ExitsAt
  <2>3. QED BY <1>7, <1>11, <2>1, <2>2
<1>12. CASE t[s].kind \notin {"return", "if"} /\ ~(t[s].kind = "try" /\ Blocks(t, s) # {})
  <2>1. ExitsAt(t, ExitNodes(t), s) = {s} BY <1>12 DEF ExitsAt
  <2>2. QED BY <1>6, <1>8, <1>12, <2>1
<1>13. QED BY <1>9, <1>10, <1>11, <1>12

\* Control goes to statements and to the tests of loops.
Places(t) == {n \in DOMAIN t : Placed(t, n) \/ t[n].kind \in {"for", "while"}}

\* What runs after a statement is one of these: a least counterexample.
LEMMA AfterIsAPlace ==
  ASSUME NEW t, IsATree(t)
  PROVE  \A n \in DOMAIN t : After(t)[n] \subseteq Places(t)
<1> DEFINE Bad == {n \in DOMAIN t : ~(After(t)[n] \subseteq Places(t))}
<1> SUFFICES ASSUME Bad # {} PROVE FALSE OBVIOUS
<1>1. Len(t) \in Nat /\ DOMAIN t = 1..Len(t) BY TreesNest
<1>2. PICK n \in Bad : \A m \in Bad : n <= m
  <2>1. Bad \subseteq Nat BY <1>1
  <2> HIDE DEF Bad
  <2>2. QED BY <2>1, LeastOf
<1>3. n \in DOMAIN t /\ ~(After(t)[n] \subseteq Places(t)) OBVIOUS
<1>4. \A m \in DOMAIN t : m < n => After(t)[m] \subseteq Places(t) BY <1>1, <1>2, <1>3
<1> HIDE DEF Bad
<1>5. After(t)[n] = AfterAt(t, After(t), n) BY <1>3, AfterUnfolds
<1> DEFINE b == Max(Body(t, n))
<1>6. Body(t, n) # {} /\ Following(t, n) # {} => Min(Following(t, n)) \in Places(t)
  <2> SUFFICES ASSUME Body(t, n) # {}, Following(t, n) # {} PROVE Min(Following(t, n)) \in Places(t) OBVIOUS
  <2>1. Body(t, n) \subseteq 0..Len(t) BY <1>1 DEF Body
  <2>2. b \in Body(t, n) BY <1>1, <2>1, MaxOf
  <2>3. b \in DOMAIN t /\ t[b].kind \in {"block", "module"} BY <2>2 DEF Body
  <2>4. Following(t, n) \subseteq Statements(t, b) BY DEF Following
  <2> HIDE DEF b
  <2>5. \A s \in Statements(t, b) : s \in DOMAIN t BY <2>3, StatementsAre
  <2>6. Following(t, n) \subseteq Nat BY <1>1, <2>4, <2>5
  <2>7. Min(Following(t, n)) \in Following(t, n) BY <2>6, MinOf
  <2>8. QED BY <2>3, <2>4, <2>5, <2>7 DEF Places, Placed
<1>7. Around(t, n) # 0 => Around(t, n) \in DOMAIN t /\ Around(t, n) < n BY <1>3, AroundIs
<1>8. Around(t, n) # 0 /\ t[Around(t, n)].kind \in {"for", "while"} => Around(t, n) \in Places(t)
  BY <1>7 DEF Places
<1>9. Around(t, n) # 0 => After(t)[Around(t, n)] \subseteq Places(t) BY <1>4, <1>7
<1>10. AfterAt(t, After(t), n) \subseteq Places(t) BY <1>6, <1>8, <1>9 DEF AfterAt
<1>11. QED BY <1>3, <1>5, <1>10

\* A statement that is no return, nor an if with two blocks, lets control go on.
LEMMA SuccessorsAre ==
  ASSUME NEW t, IsATree(t)
  PROVE  /\ Places(t) \subseteq DOMAIN t
         /\ Successors(t) \in [DOMAIN t -> SUBSET DOMAIN t]
         /\ \A n \in DOMAIN t :
              /\ Successors(t)[n] \subseteq Places(t)
              /\ t[n].kind # "return" /\ (t[n].kind = "if" => Cardinality(Blocks(t, n)) < 2)
                   => After(t)[n] \subseteq Successors(t)[n]
<1> DEFINE Entered(n) == {Min(Statements(t, b)) : b \in {b \in Blocks(t, n) : Statements(t, b) # {}}}
           At(n) == CASE t[n].kind = "return" -> {}
                      [] t[n].kind = "function" -> After(t)[n]
                      [] t[n].kind = "if" /\ Cardinality(Blocks(t, n)) >= 2 -> Entered(n)
                      [] OTHER -> Entered(n) \cup After(t)[n]
<1>1. Places(t) \subseteq DOMAIN t BY DEF Places
<1>2. Successors(t) = [n \in DOMAIN t |-> At(n)] BY DEF Successors
<1>3. ASSUME NEW n \in DOMAIN t PROVE Entered(n) \subseteq Places(t)
  <2> SUFFICES ASSUME NEW b \in Blocks(t, n), Statements(t, b) # {} PROVE Min(Statements(t, b)) \in Places(t)
    OBVIOUS
  <2>1. b \in DOMAIN t /\ t[b].kind = "block"
    <3>1. b \in (n + 1)..t[n].last /\ t[b].kind = "block" BY DEF Blocks, Descendants
    <3>2. Len(t) \in Nat /\ DOMAIN t = 1..Len(t) /\ t[n].last \in n..Len(t) BY TreesNest
    <3>3. QED BY <3>1, <3>2
  <2> DEFINE s == Min(Statements(t, b))
  <2>2. s \in Statements(t, b) BY <2>1, EndsOfStatements
  <2> HIDE DEF s
  <2>3. s \in DOMAIN t BY <2>1, <2>2, StatementsAre
  <2>4. Placed(t, s) BY <2>1, <2>2 DEF Placed
  <2>5. QED BY <2>3, <2>4 DEF Places, s
<1>4. \A n \in DOMAIN t : After(t)[n] \subseteq Places(t) BY AfterIsAPlace
<1> HIDE DEF Entered
<1>5. ASSUME NEW n \in DOMAIN t
      PROVE  /\ At(n) \subseteq Places(t)
             /\ t[n].kind # "return" /\ (t[n].kind = "if" => ~(Cardinality(Blocks(t, n)) >= 2))
                  => After(t)[n] \subseteq At(n)
  BY <1>3, <1>4
<1>6. ASSUME NEW n \in DOMAIN t, t[n].kind = "if"
      PROVE  Cardinality(Blocks(t, n)) < 2 => ~(Cardinality(Blocks(t, n)) >= 2)
  <2>1. Len(t) \in Nat /\ DOMAIN t = 1..Len(t) /\ t[n].last \in n..Len(t) BY TreesNest
  <2> DEFINE first == n + 1
             last == t[n].last
  <2>2. IsFiniteSet(first..last)
    <3>1. first \in Int /\ last \in Int BY <2>1
    <3> HIDE DEF first, last
    <3>2. QED BY <3>1, FS_Interval
  <2>3. Blocks(t, n) \in SUBSET ((n + 1)..t[n].last) BY DEF Blocks, Descendants
  <2>4. Cardinality(Blocks(t, n)) \in Nat BY <2>2, <2>3, FS_Subset, FS_CardinalityType
  <2>5. QED BY <2>4
<1> HIDE DEF At
<1>7. \A n \in DOMAIN t : Successors(t)[n] = At(n) BY <1>2
<1>8. Successors(t) \in [DOMAIN t -> SUBSET DOMAIN t] BY <1>1, <1>2, <1>5
<1>9. QED BY <1>1, <1>5, <1>6, <1>7, <1>8

------------------------------------------------------------------------------
(* The graph goes nowhere that control does not                               *)

Bodied == {"if", "for", "while", "try"}

\* An edge leads into a block or out of one, to the end, or to the statement after.
Leads(t, e) ==
  \/ \E n \in DOMAIN t : t[n].kind \in Bodied /\ e.from = n /\ e.to \in Blocks(t, n)
  \/ \E n \in DOMAIN t : t[n].kind \in {"for", "while"} /\ e.to = n /\ e.from \in Blocks(t, n)
  \/ e.to = Exit /\ e.from \in DOMAIN t
  \/ \E b \in DOMAIN t : \E s \in Statements(t, b) :
       LET next == {m \in Statements(t, b) : m > s} IN
       /\ t[b].kind \in {"block", "module"} /\ next # {}
       /\ e.to = Min(next) /\ e.from \in ExitNodes(t)[s]

LEMMA BranchesLead ==
  ASSUME NEW t, IsATree(t), NEW e \in Branches(t)
  PROVE  Leads(t, e)
<1> DEFINE first(n) == Min(Blocks(t, n))
           bodied(kinds) == {n \in DOMAIN t : t[n].kind \in kinds /\ Blocks(t, n) # {}}
<1>1. ASSUME NEW n \in DOMAIN t, t[n].kind \in Bodied, Blocks(t, n) # {} PROVE first(n) \in Blocks(t, n)
  <2>1. t[n].kind # "unknown" BY <1>1 DEF Bodied
  <2>2. \A b \in Blocks(t, n) : b \in DOMAIN t BY <2>1, BlocksAre
  <2>3. Blocks(t, n) \subseteq Nat BY <2>2, TreesNest
  <2>4. QED BY <1>1, <2>3, MinOf
<1>2. \/ e \in {Edge(n, first(n), "true") : n \in bodied({"if"})}
      \/ e \in UNION {{Edge(n, b, "false") : b \in Blocks(t, n) \ {first(n)}} : n \in bodied({"if"})}
      \/ e \in UNION {{Edge(n, first(n), "loop"), Edge(first(n), n, "loop-back")} : n \in bodied({"for", "while"})}
      \/ e \in {Edge(n, first(n), "normal") : n \in bodied({"try"})}
      \/ e \in {Edge(n, Exit, "return") : n \in Of(t, "return")}
  BY DEF Branches
<1>3. \A m, n, kind : Edge(m, n, kind).from = m /\ Edge(m, n, kind).to = n BY DEF Edge
<1> HIDE DEF first
<1>4. CASE e \in {Edge(n, first(n), "true") : n \in bodied({"if"})}
  <2>1. PICK n \in bodied({"if"}) : e = Edge(n, first(n), "true") BY <1>4
  <2>2. n \in DOMAIN t /\ t[n].kind \in Bodied /\ Blocks(t, n) # {} BY DEF Bodied
  <2>3. QED BY <1>1, <1>3, <2>1, <2>2 DEF Leads
<1>5. CASE e \in UNION {{Edge(n, b, "false") : b \in Blocks(t, n) \ {first(n)}} : n \in bodied({"if"})}
  <2>1. PICK n \in bodied({"if"}) : \E b \in Blocks(t, n) : e = Edge(n, b, "false") BY <1>5
  <2>2. n \in DOMAIN t /\ t[n].kind \in Bodied BY DEF Bodied
  <2>3. PICK b \in Blocks(t, n) : e = Edge(n, b, "false") BY <2>1
  <2>4. QED BY <1>3, <2>2, <2>3 DEF Leads
<1>6. CASE e \in UNION {{Edge(n, first(n), "loop"), Edge(first(n), n, "loop-back")} : n \in bodied({"for", "while"})}
  <2>1. PICK n \in bodied({"for", "while"}) : e = Edge(n, first(n), "loop") \/ e = Edge(first(n), n, "loop-back")
    BY <1>6
  <2>2. n \in DOMAIN t /\ t[n].kind \in {"for", "while"} /\ t[n].kind \in Bodied /\ Blocks(t, n) # {}
    BY DEF Bodied
  <2>3. first(n) \in Blocks(t, n) BY <1>1, <2>2
  <2>4. QED BY <1>3, <2>1, <2>2, <2>3 DEF Leads
<1>7. CASE e \in {Edge(n, first(n), "normal") : n \in bodied({"try"})}
  <2>1. PICK n \in bodied({"try"}) : e = Edge(n, first(n), "normal") BY <1>7
  <2>2. n \in DOMAIN t /\ t[n].kind \in Bodied /\ Blocks(t, n) # {} BY DEF Bodied
  <2>3. QED BY <1>1, <1>3, <2>1, <2>2 DEF Leads
<1>8. CASE e \in {Edge(n, Exit, "return") : n \in Of(t, "return")}
  <2>1. PICK n \in Of(t, "return") : e = Edge(n, Exit, "return") BY <1>8
  <2>2. n \in DOMAIN t BY DEF Of
  <2>3. QED BY <1>3, <2>1, <2>2 DEF Leads
<1>9. QED BY <1>2, <1>4, <1>5, <1>6, <1>7, <1>8

LEMMA EdgesLead ==
  ASSUME NEW t, IsATree(t), NEW e \in CFG(t)
  PROVE  Leads(t, e)
<1>1. CASE e \in Branches(t) BY <1>1, BranchesLead
<1>2. CASE e \in FallThrough(t)
  <2> DEFINE after(n, s) == {m \in Statements(t, n) : m > s}
  <2>1. PICK n \in Of(t, "module") \cup Of(t, "block") :
          \E s \in Statements(t, n) : \E x \in ExitNodes(t)[s] :
            after(n, s) # {} /\ e = Edge(x, Min(after(n, s)), "normal")
    BY <1>2 DEF FallThrough
  <2>2. n \in DOMAIN t /\ t[n].kind \in {"block", "module"} BY DEF Of
  <2>3. PICK s \in Statements(t, n) : \E x \in ExitNodes(t)[s] :
          after(n, s) # {} /\ e = Edge(x, Min(after(n, s)), "normal")
    BY <2>1
  <2>4. PICK x \in ExitNodes(t)[s] : after(n, s) # {} /\ e = Edge(x, Min(after(n, s)), "normal") BY <2>3
  <2>5. e.from = x /\ e.to = Min(after(n, s)) BY <2>4 DEF Edge
  <2>6. QED BY <2>2, <2>4, <2>5 DEF Leads
<1>3. QED BY <1>1, <1>2 DEF CFG

LEMMA EdgesStartInside == ASSUME NEW t, IsATree(t) PROVE StartsInside(t, CFG(t))
<1> SUFFICES ASSUME NEW e \in CFG(t) PROVE e.from \in DOMAIN t BY DEF StartsInside
<1>1. Leads(t, e) BY EdgesLead
<1>2. CASE \E n \in DOMAIN t : t[n].kind \in {"for", "while"} /\ e.to = n /\ e.from \in Blocks(t, n)
  <2>1. PICK n \in DOMAIN t : t[n].kind \in {"for", "while"} /\ e.from \in Blocks(t, n) BY <1>2
  <2>2. t[n].kind # "unknown" BY <2>1
  <2>3. QED BY <2>1, <2>2, BlocksAre
<1>3. CASE \E b \in DOMAIN t : \E s \in Statements(t, b) : e.from \in ExitNodes(t)[s]
  <2>1. PICK b \in DOMAIN t : \E s \in Statements(t, b) : e.from \in ExitNodes(t)[s] BY <1>3
  <2>2. PICK s \in Statements(t, b) : e.from \in ExitNodes(t)[s] BY <2>1
  <2>3. s \in DOMAIN t BY StatementsAre
  <2>4. LeavesFor(t, s, e.from) BY <2>2, <2>3, ExitsAre
  <2>5. QED BY <2>4 DEF LeavesFor
<1>4. QED BY <1>1, <1>2, <1>3 DEF Leads

\* The nodes that a definition passes, and with them the blocks it comes to.
PassedBy(t, d) == Passed(t, d, LiveAt(t, Successors(t), d))
CarriesInto(t, d, m) == \E n \in DOMAIN t : t[n].kind \in Bodied /\ n \in PassedBy(t, d) /\ m \in Blocks(t, n)
Carried(t) ==
  [m \in DOMAIN t |-> {d \in DOMAIN t : Defines(t, d) /\ (m \in PassedBy(t, d) \/ CarriesInto(t, d, m))}]

\* Wherever the graph carries a definition on, control goes too.
LEMMA ControlFollows ==
  ASSUME NEW t, IsATree(t), NEW e \in CFG(t), e.to \in DOMAIN t, NEW d \in Carried(t)[e.from]
  PROVE  e.to \in LiveAt(t, Successors(t), d) \/ CarriesInto(t, d, e.to)
<1> DEFINE live == LiveAt(t, Successors(t), d)
<1>1. /\ e.from \in DOMAIN t /\ d \in DOMAIN t /\ Defines(t, d)
      /\ e.from \in PassedBy(t, d) \/ CarriesInto(t, d, e.from)
  <2>1. e.from \in DOMAIN t BY EdgesStartInside DEF StartsInside
  <2>2. QED BY <2>1 DEF Carried
<1>2. t[d].kind = "assignment" BY <1>1 DEF Defines
<1>3. live \subseteq Places(t) /\ \A n \in PassedBy(t, d) : Successors(t)[n] \subseteq live
  <2>1. /\ Places(t) \subseteq DOMAIN t /\ Successors(t) \in [DOMAIN t -> SUBSET DOMAIN t]
        /\ \A n \in DOMAIN t : Successors(t)[n] \subseteq Places(t)
    BY SuccessorsAre
  <2>2. Len(t) \in Nat /\ DOMAIN t = 1..Len(t) BY TreesNest
  <2>3. QED BY <1>1, <2>1, <2>2, LiveIsClosed DEF PassedBy
<1>4. \A n \in PassedBy(t, d) : n = d \/ n \in live BY DEF PassedBy, Passed
<1>5. \A n \in PassedBy(t, d) : n \in DOMAIN t /\ (n = d \/ Placed(t, n) \/ t[n].kind \in {"for", "while"})
  BY <1>1, <1>3, <1>4 DEF Places
<1> HIDE DEF live
<1>6. Leads(t, e) BY EdgesLead
\* No block is a statement: to be in one is to come from what it is of.
<1>7. ASSUME NEW n \in DOMAIN t, t[n].kind \in Bodied, e.from \in Blocks(t, n)
      PROVE  n \in PassedBy(t, d)
  <2>1. t[n].kind # "unknown" /\ t[n].kind \notin {"unknown", "block", "module"} BY <1>7 DEF Bodied
  <2>2. t[e.from].kind = "block" BY <1>7, <2>1, BlocksAre
  <2>3. ~Placed(t, e.from)
    <3>1. \A m \in DOMAIN t : t[m].kind \in {"block", "module"} => e.from \notin Statements(t, m)
      BY <1>7, <2>1, BlocksAreNoStatements
    <3>2. QED BY <3>1 DEF Placed
  <2>4. e.from # d BY <1>2, <2>2
  <2>5. e.from \notin PassedBy(t, d) BY <1>5, <2>2, <2>3, <2>4
  <2>6. PICK m \in DOMAIN t : t[m].kind \in Bodied /\ m \in PassedBy(t, d) /\ e.from \in Blocks(t, m)
    BY <1>1, <2>5 DEF CarriesInto
  <2>7. t[m].kind # "unknown" BY <2>6 DEF Bodied
  <2>8. m = n BY <1>7, <2>1, <2>6, <2>7, OneOwner
  <2>9. QED BY <2>6, <2>8
<1>8. ASSUME t[e.from].kind # "block" PROVE e.from \in PassedBy(t, d)
  <2>1. ASSUME CarriesInto(t, d, e.from) PROVE FALSE
    <3>1. PICK n \in DOMAIN t : t[n].kind \in Bodied /\ e.from \in Blocks(t, n) BY <2>1 DEF CarriesInto
    <3>2. t[n].kind # "unknown" BY <3>1 DEF Bodied
    <3>3. t[e.from].kind = "block" BY <3>1, <3>2, BlocksAre
    <3>4. QED BY <1>8, <3>3
  <2>2. QED BY <1>1, <2>1
<1>9. CASE \E n \in DOMAIN t : t[n].kind \in Bodied /\ e.from = n /\ e.to \in Blocks(t, n)
  <2>1. t[e.from].kind \in Bodied /\ e.to \in Blocks(t, e.from) BY <1>9
  <2>2. t[e.from].kind # "block" BY <2>1 DEF Bodied
  <2>3. e.from \in PassedBy(t, d) BY <1>8, <2>2
  <2>4. CarriesInto(t, d, e.to) BY <1>1, <2>1, <2>3 DEF CarriesInto
  <2>5. QED BY <2>4
<1>10. CASE \E n \in DOMAIN t : t[n].kind \in {"for", "while"} /\ e.to = n /\ e.from \in Blocks(t, n)
  <2>1. PICK n \in DOMAIN t : t[n].kind \in {"for", "while"} /\ e.to = n /\ e.from \in Blocks(t, n) BY <1>10
  <2>2. t[n].kind \in Bodied /\ t[n].kind # "assignment" BY <2>1 DEF Bodied
  <2>3. n \in PassedBy(t, d) BY <1>7, <2>1, <2>2
  <2>4. n # d BY <1>2, <2>2
  <2>5. n \in live BY <1>4, <2>3, <2>4
  <2>6. QED BY <2>1, <2>5 DEF live
<1>11. CASE e.to = Exit
  <2>1. 0 \notin DOMAIN t BY TreesNest
  <2>2. QED BY <1>11, <2>1 DEF Exit
<1>12. ASSUME NEW b \in DOMAIN t, NEW s \in Statements(t, b), t[b].kind \in {"block", "module"},
              {m \in Statements(t, b) : m > s} # {}, e.to = Min({m \in Statements(t, b) : m > s}),
              e.from \in ExitNodes(t)[s]
       PROVE  e.to \in live
  <2>1. s \in DOMAIN t /\ Body(t, s) # {} /\ Max(Body(t, s)) = b BY <1>12, BodyIs
  <2>2. Following(t, s) = {m \in Statements(t, b) : m > s} BY <2>1 DEF Following
  <2>3. After(t)[s] = {e.to}
    <3>1. After(t)[s] = AfterAt(t, After(t), s) BY <2>1, AfterUnfolds
    <3>2. AfterAt(t, After(t), s) = {Min(Following(t, s))} BY <1>12, <2>1, <2>2 DEF AfterAt
    <3>3. QED BY <1>12, <2>2, <3>1, <3>2
  <2>4. LeavesFor(t, s, e.from) BY <1>12, <2>1, ExitsAre
  <2>5. /\ t[e.from].kind # "return" /\ (t[e.from].kind = "if" => Cardinality(Blocks(t, e.from)) < 2)
        /\ e.from = s \/ Placed(t, e.from)
        /\ After(t)[e.from] = {e.to}
    BY <2>3, <2>4 DEF LeavesFor
  <2>6. Placed(t, e.from) BY <1>12, <2>5 DEF Placed
  <2>7. e.from \in PassedBy(t, d)
    <3> SUFFICES ASSUME CarriesInto(t, d, e.from) PROVE FALSE BY <1>1
    <3>1. PICK n \in DOMAIN t : t[n].kind \in Bodied /\ e.from \in Blocks(t, n) BY DEF CarriesInto
    <3>2. t[n].kind \notin {"unknown", "block", "module"} BY <3>1 DEF Bodied
    <3>3. QED BY <2>6, <3>1, <3>2, BlocksAreNoStatements DEF Placed
  <2>8. After(t)[e.from] \subseteq Successors(t)[e.from] BY <1>1, <2>5, SuccessorsAre
  <2>9. QED BY <1>3, <2>5, <2>7, <2>8
<1>13. CASE \E b \in DOMAIN t : \E s \in Statements(t, b) :
              LET next == {m \in Statements(t, b) : m > s} IN
              /\ t[b].kind \in {"block", "module"} /\ next # {}
              /\ e.to = Min(next) /\ e.from \in ExitNodes(t)[s]
  BY <1>12, <1>13 DEF live
<1>14. QED BY <1>6, <1>9, <1>10, <1>11, <1>13 DEF Leads

\* What control carries is what the sweeps would leave alone.
LEMMA CarriedIsClosed ==
  ASSUME NEW t, IsATree(t)
  PROVE  Carried(t) \in Families(t) /\ LeftAlone(t, CFG(t), Carried(t))
<1>1. Carried(t) \in Families(t) BY DEF Carried, Families
<1>2. ASSUME NEW m \in DOMAIN t, NEW d \in Leaving(t, CFG(t), Carried(t), m) PROVE d \in Carried(t)[m]
  <2>1. CASE Defines(t, m) /\ d = m
    <3>1. m \in PassedBy(t, m) BY DEF PassedBy, Passed
    <3>2. QED BY <2>1, <3>1 DEF Carried
  <2>2. CASE ~(Defines(t, m) /\ d = m)
    <3>1. d \in Entering(CFG(t), Carried(t), m) /\ (Defines(t, m) => d \notin Defs(t, t[m].lhs))
      BY <1>2, <2>2 DEF Leaving
    <3>2. PICK e \in CFG(t) : e.to = m /\ d \in Carried(t)[e.from] BY <3>1 DEF Entering
    <3>3. d \in DOMAIN t /\ Defines(t, d) BY <3>2, EdgesStartInside DEF StartsInside, Carried
    <3>4. m \in LiveAt(t, Successors(t), d) \/ CarriesInto(t, d, m) BY <3>2, ControlFollows
    <3>5. Defines(t, m) => t[m].lhs # t[d].lhs BY <3>1, <3>3 DEF Defs, Of, Defines
    <3>6. m \in PassedBy(t, d) \/ CarriesInto(t, d, m) BY <3>4, <3>5 DEF PassedBy, Passed
    <3>7. QED BY <3>3, <3>6 DEF Carried
  <2>3. QED BY <2>1, <2>2
<1>3. QED BY <1>1, <1>2 DEF LeftAlone

\* What reaches an assignment was carried there.
LEMMA ReachingIsLive ==
  ASSUME NEW t, IsATree(t), NEW d \in DOMAIN t, NEW n \in Of(t, "assignment"), d \in ReachingDefs(t)[n]
  PROVE  n \in LiveAt(t, Successors(t), d)
<1>1. n \in DOMAIN t /\ t[n].kind = "assignment" BY DEF Of
<1>2. d \in Entering(CFG(t), Settled(t, CFG(t)), n) BY <1>1 DEF ReachingDefs
<1>3. PICK e \in CFG(t) : e.to = n /\ d \in Settled(t, CFG(t))[e.from] BY <1>2 DEF Entering
<1>4. StartsInside(t, CFG(t)) /\ e.from \in DOMAIN t BY EdgesStartInside DEF StartsInside
<1>5. Within(t, Settled(t, CFG(t)), Carried(t))
  <2>1. Len(t) \in Nat /\ DOMAIN t = 1..Len(t) BY TreesNest
  <2>2. QED BY <1>4, <2>1, CarriedIsClosed, SettledIsLeast
<1>6. d \in Carried(t)[e.from] BY <1>3, <1>4, <1>5 DEF Within
<1>7. n \in LiveAt(t, Successors(t), d) \/ CarriesInto(t, d, n) BY <1>1, <1>3, <1>6, ControlFollows
<1>8. ASSUME CarriesInto(t, d, n) PROVE FALSE
  <2>1. PICK m \in DOMAIN t : t[m].kind \in Bodied /\ n \in Blocks(t, m) BY <1>8 DEF CarriesInto
  <2>2. t[m].kind # "unknown" BY <2>1 DEF Bodied
  <2>3. t[n].kind = "block" BY <2>1, <2>2, BlocksAre
  <2>4. QED BY <1>1, <2>3
<1>9. QED BY <1>7, <1>8

------------------------------------------------------------------------------
(* The invariant of the workers                                               *)

\* A tree that stands further down its file is a tree.
LEMMA RebasedIsATree ==
  ASSUME NEW t, IsATree(t), NEW first
  PROVE  IsATree(Rebased(t, first))
<1> DEFINE s == Rebased(t, first)
           len == Len(t)
           fields == {"kind", "text", "parent", "last", "line", "endLine", "lhs", "rhs", "augmented",
                      "name", "params", "value", "stack", "handlers"}
<1>1. len \in Nat /\ DOMAIN t = 1..len BY DEF IsATree, IsASlice
<1>2. s = [n \in 1..len |-> s[n]] /\ DOMAIN s = 1..len BY <1>1 DEF Rebased
<1>3. Len(s) = len BY <1>1, <1>2
<1>4. ASSUME NEW n \in 1..len
      PROVE  /\ DOMAIN t[n] = fields /\ DOMAIN s[n] = DOMAIN t[n]
             /\ s[n].last = t[n].last /\ s[n].parent = t[n].parent /\ s[n].lhs = t[n].lhs
  <2>1. DOMAIN t[n] = DOMAIN Blank BY <1>1 DEF IsATree
  <2>2. DOMAIN t[n] = fields
    <3>1. DOMAIN Blank = fields BY ZenonT(30) DEF Blank
    <3>2. QED BY <2>1, <3>1
  <2>3. s[n] = [t[n] EXCEPT !.line = @ + first - 1, !.endLine = @ + first - 1] BY <1>1 DEF Rebased
  <2>4. QED BY <2>2, <2>3
<1> HIDE DEF s, len, fields
<1>5. ASSUME NEW n \in 1..len
      PROVE  /\ DOMAIN s[n] = DOMAIN Blank
             /\ s[n].last \in n..Len(s) /\ s[n].parent \in 0..n - 1
             /\ s[n].parent # 0 => s[n].last <= s[s[n].parent].last
             /\ \A m \in 1..n - 1 : s[m].last >= n => m <= s[n].parent
             /\ IsASlice(s[n].lhs) /\ (Len(s[n].lhs) = 1 => s[n].lhs[1] # NoName)
  <2>1. /\ DOMAIN t[n] = DOMAIN Blank
        /\ t[n].last \in n..len /\ t[n].parent \in 0..n - 1
        /\ t[n].parent # 0 => t[n].last <= t[t[n].parent].last
        /\ \A m \in 1..n - 1 : t[m].last >= n => m <= t[n].parent
        /\ IsASlice(t[n].lhs) /\ (Len(t[n].lhs) = 1 => t[n].lhs[1] # NoName)
    BY <1>1 DEF IsATree, NoName, len
  <2>2. t[n].parent # 0 => t[n].parent \in 1..len BY <1>1, <2>1
  <2>3. t[n].parent # 0 => s[t[n].parent].last = t[t[n].parent].last BY <1>4, <2>2
  <2>4. \A m \in 1..n - 1 : m \in 1..len BY <1>1
  <2>5. \A m \in 1..n - 1 : s[m].last = t[m].last BY <1>4, <2>4
  <2>6. QED BY <1>3, <1>4, <2>1, <2>3, <2>5
<1>6. IsASlice(s) BY <1>1, <1>2, <1>3 DEF IsASlice
<1>7. QED BY <1>2, <1>5, <1>6 DEF IsATree, NoName, s

\* A unit that a worker is at is a file.
LEMMA UnitsAreFiles ==
  ASSUME content \in Contents, NEW w, worker[w].file \in DOMAIN content,
         worker[w].unit \in DOMAIN content[worker[w].file].units
  PROVE  IsATree(Unit(w).tree) /\ IsAFile(Analyzed(w)) /\ Analyzed(w).tree = Unit(w).tree
<1> DEFINE unit == content[worker[w].file].units[worker[w].unit]
<1>1. IsATree(unit.tree) /\ \A name \in DOMAIN unit.aliases : IsASlice(unit.aliases[name])
  BY ContentsAssumption
<1>2. Unit(w).tree = Rebased(unit.tree, unit.first) /\ Unit(w).aliases = unit.aliases BY DEF Unit
<1>3. IsATree(Unit(w).tree) BY <1>1, <1>2, RebasedIsATree
<1>4. Analyzed(w).tree = Unit(w).tree /\ Analyzed(w).aliases = Unit(w).aliases BY DEF Analyzed
<1>5. QED BY <1>1, <1>2, <1>3, <1>4 DEF IsAFile

\* What each worker has done so far: the verdicts are those on the tree of its unit,
\* and what it has reported is what the nodes before the next one ask for.
Tracked(w) ==
  LET x == worker[w]
  IN  /\ IsAWorker(x) /\ x.at \in {"idle", "analyze", "match"}
      /\ x.at # "idle" => x.file \in DOMAIN content /\ x.unit \in DOMAIN content[x.file].units
      /\ x.at = "match" => /\ x.analysis = Analyze(Unit(w).tree, Unit(w).language, EnableGraphs)
                           /\ Matched(x, Analyzed(w))

WalksInv ==
  /\ content \in Contents /\ index = BuildIndex
  /\ IsASlice(queue) /\ \A i \in 1..Len(queue) : queue[i] \in DOMAIN content
  /\ worker = [w \in Workers |-> worker[w]]
  /\ \A w \in Workers : Tracked(w)

\* A step of one worker is none of the others'.
LEMMA TheOthers ==
  ASSUME WalksInv, NEW w \in Workers, worker' = [worker EXCEPT ![w] = worker'[w]],
         content' = content
  PROVE  /\ worker' = [v \in Workers |-> worker'[v]]
         /\ \A v \in Workers \ {w} : Tracked(v)'
<1>1. worker = [v \in Workers |-> worker[v]] /\ \A v \in Workers : Tracked(v) BY DEF WalksInv
<1>2. worker' = [v \in Workers |-> worker'[v]]
  <2> DEFINE x == worker'[w]
  <2>1. worker' = [v \in Workers |-> IF v = w THEN x ELSE worker[v]]
    <3> HIDE DEF x
    <3>1. worker' = [worker EXCEPT ![w] = x] BY DEF x
    <3>2. QED BY <1>1, <3>1
  <2>2. QED BY <2>1
<1>3. ASSUME NEW v \in Workers \ {w} PROVE Tracked(v)'
  <2>1. worker'[v] = worker[v]
    <3> DEFINE x == worker'[w]
    <3> HIDE DEF x
    <3>1. worker' = [worker EXCEPT ![w] = x] BY DEF x
    <3>2. QED BY <1>1, <3>1
  <2>2. Unit(v)' = Unit(v) BY <2>1 DEF Unit
  <2>3. Analyzed(v)' = Analyzed(v) BY <2>1, <2>2 DEF Analyzed
  <2>4. Tracked(v) BY <1>1
  <2>5. QED BY <2>1, <2>2, <2>3, <2>4 DEF Tracked
<1>4. QED BY <1>2, <1>3

LEMMA NothingTaken == IsAWorker(NoFile) /\ NoFile.at = "idle"
BY DEF IsAWorker, NoFile

\* A worker that has yet to analyze a unit.
Starting(f, u) == [NoFile EXCEPT !.at = "analyze", !.file = f, !.unit = u]

LEMMA UnitStarts ==
  ASSUME NEW f, NEW u
  PROVE  /\ IsAWorker(Starting(f, u)) /\ Starting(f, u).at = "analyze"
         /\ Starting(f, u).file = f /\ Starting(f, u).unit = u
<1>1. Starting(f, u) = [NoFile EXCEPT !.at = "analyze", !.file = f, !.unit = u] BY DEF Starting
<1>2. QED BY <1>1, NothingTaken DEF IsAWorker

LEMMA InitWalks == Init => WalksInv
<1> SUFFICES ASSUME Init PROVE WalksInv OBVIOUS
<1>1. content \in Contents /\ index = BuildIndex /\ queue = [f \in DOMAIN content |-> f]
      /\ worker = [w \in Workers |-> NoFile]
  BY DEF Init
<1>2. Len(content) \in Nat /\ DOMAIN content = 1..Len(content) BY <1>1, ContentsAssumption DEF IsASlice
<1>3. IsASlice(queue) /\ \A i \in 1..Len(queue) : queue[i] \in DOMAIN content
  <2> DEFINE len == Len(content)
  <2>1. queue = [f \in 1..len |-> f] /\ len \in Nat BY <1>1, <1>2
  <2> HIDE DEF len
  <2>2. Len(queue) = len BY <2>1
  <2>3. QED BY <1>2, <2>1, <2>2 DEF IsASlice, len
<1>4. \A w \in Workers : worker[w] = NoFile BY <1>1
<1>5. \A w \in Workers : Tracked(w) BY <1>4, NothingTaken DEF Tracked
<1>6. worker = [w \in Workers |-> worker[w]] BY <1>1
<1>7. QED BY <1>1, <1>3, <1>5, <1>6 DEF WalksInv

LEMMA SlicesShrink ==
  ASSUME NEW s, IsASlice(s), s # <<>>
  PROVE  /\ Len(s) \in Nat /\ Len(s) >= 1 /\ Head(s) = s[1]
         /\ IsASlice(Tail(s)) /\ Len(Tail(s)) = Len(s) - 1
         /\ \A i \in 1..Len(s) - 1 : Tail(s)[i] = s[i + 1]
<1> DEFINE S == {s[n] : n \in 1..Len(s)}
           len == Len(s)
           tail == Tail(s)
<1>1. len \in Nat /\ s = [n \in 1..len |-> s[n]] BY DEF IsASlice
<1>2. s \in Seq(S)
  <2>1. s \in [1..len -> S] BY <1>1
  <2> HIDE DEF S
  <2>2. QED BY <1>1, <2>1, SeqDef
<1> HIDE DEF S
<1>3. len >= 1
  <2>1. len \in Nat \ {0} BY <1>2, EmptySeq
  <2>2. QED BY <2>1
<1>4. Head(s) = s[1] BY <1>2
<1>5. tail \in Seq(S) /\ Len(tail) = len - 1 /\ \A i \in 1..len - 1 : tail[i] = s[i + 1]
  BY <1>2, HeadTailProperties
<1> HIDE DEF tail, len
<1>6. IsASlice(tail)
  <2>1. Len(tail) \in Nat /\ tail \in [1..Len(tail) -> S] BY <1>5, LenProperties
  <2>2. QED BY <2>1 DEF IsASlice
<1>7. QED BY <1>1, <1>3, <1>4, <1>5, <1>6 DEF tail, len

LEMMA NobodyMoves ==
  ASSUME \A v \in Workers : Tracked(v), worker' = worker, content' = content
  PROVE  \A v \in Workers : Tracked(v)'
<1> SUFFICES ASSUME NEW v \in Workers PROVE Tracked(v)' OBVIOUS
<1>1. Unit(v)' = Unit(v) BY DEF Unit
<1>2. Analyzed(v)' = Analyzed(v) BY <1>1 DEF Analyzed
<1>3. Tracked(v) OBVIOUS
<1>4. QED BY <1>1, <1>2, <1>3 DEF Tracked

\* A file that is not skipped has a unit of its own.
LEMMA TakeFileWalks ==
  ASSUME WalksInv, NEW w \in Workers, TakeFile(w)
  PROVE  WalksInv'
<1> DEFINE f == Head(queue)
<1>1. /\ content \in Contents /\ index = BuildIndex
      /\ IsASlice(queue) /\ \A i \in 1..Len(queue) : queue[i] \in DOMAIN content
      /\ worker = [v \in Workers |-> worker[v]] /\ \A v \in Workers : Tracked(v)
  BY DEF WalksInv
<1>2. /\ queue # <<>> /\ queue' = Tail(queue) /\ content' = content /\ index' = index
      /\ worker' = IF Skipped(f) THEN worker
                   ELSE [worker EXCEPT ![w] = [NoFile EXCEPT !.at = "analyze", !.file = f, !.unit = 1]]
  BY DEF TakeFile
<1>3. /\ Len(queue) \in Nat /\ Len(queue) >= 1 /\ f = queue[1]
      /\ IsASlice(queue') /\ Len(queue') = Len(queue) - 1
      /\ \A i \in 1..Len(queue) - 1 : queue'[i] = queue[i + 1]
  BY <1>1, <1>2, SlicesShrink
<1>4. \A i \in 1..Len(queue') : queue'[i] \in DOMAIN content
  <2> SUFFICES ASSUME NEW i \in 1..Len(queue') PROVE queue'[i] \in DOMAIN content OBVIOUS
  <2>1. i \in 1..Len(queue) - 1 /\ i + 1 \in 1..Len(queue) BY <1>3
  <2>2. QED BY <1>1, <1>3, <2>1
<1>5. IsASlice(queue') /\ \A i \in 1..Len(queue') : queue'[i] \in DOMAIN content BY <1>3, <1>4
<1>6. f \in DOMAIN content BY <1>1, <1>3
<1> HIDE DEF f
<1>7. CASE Skipped(f)
  <2>1. worker' = worker BY <1>2, <1>7
  <2>2. \A v \in Workers : Tracked(v)' BY <1>1, <1>2, <2>1, NobodyMoves
  <2>3. QED BY <1>1, <1>2, <1>5, <2>1, <2>2 DEF WalksInv
<1>8. CASE ~Skipped(f)
  <2> DEFINE x == Starting(f, 1)
  <2>1. worker' = [worker EXCEPT ![w] = x] BY <1>2, <1>8 DEF Starting
  <2>2. IsAWorker(x) /\ x.at = "analyze" /\ x.file = f /\ x.unit = 1 BY UnitStarts
  <2> HIDE DEF x
  <2>3. worker'[w] = x BY <1>1, <2>1
  <2>4. worker' = [v \in Workers |-> worker'[v]] /\ \A v \in Workers \ {w} : Tracked(v)'
    BY <1>2, <2>1, <2>3, TheOthers
  <2>5. 1 \in DOMAIN content[f].units
    <3>1. content[f].language # "unknown" BY <1>8 DEF Skipped
    <3>2. IsASlice(content[f].units) /\ content[f].units # <<>> BY <1>1, <1>6, <3>1, ContentsAssumption
    <3>3. QED BY <3>2, EmptySeq DEF IsASlice
  <2>6. Tracked(w)' BY <1>2, <1>6, <2>2, <2>3, <2>5 DEF Tracked
  <2>7. \A v \in Workers : Tracked(v)' BY <2>4, <2>6
  <2>8. QED BY <1>1, <1>2, <1>5, <2>4, <2>7 DEF WalksInv
<1>9. QED BY <1>7, <1>8

\* Before the first node nothing is due, and nothing reported.
LEMMA WalkStarts ==
  ASSUME NEW x, NEW file, IsATree(file.tree), x.node = Root, x.matches = <<>>, x.reported = {}
  PROVE  Matched(x, file)
<1>1. Len(file.tree) \in Nat /\ DOMAIN file.tree = 1..Len(file.tree) BY DEF IsATree, IsASlice
<1>2. x.node \in 1..Len(file.tree) + 1 /\ x.node = 1 BY <1>1 DEF Root
<1>3. \A r : Hits(file, r, 1) = {}
  <2>1. \A n \in DOMAIN file.tree : ~(n < 1) BY <1>1
  <2>2. QED BY <2>1 DEF Hits, Of
<1>4. \A r \in DOMAIN Rules : Due(file, r, 1) = {} BY <1>3 DEF Due
<1>5. IsASequence(x.matches) /\ Len(x.matches) = 0 BY EmptyIsASequence
<1>6. DOMAIN x.matches = {} BY <1>5 DEF IsASequence
<1>7. \A r : Found(x.matches, r) = {} BY <1>6 DEF Found
<1>8. 1..Len(x.matches) = {} BY <1>5
<1>9. x.reported = {r \in DOMAIN Rules : Rules[r].oncePerFile /\ Hits(file, r, x.node) # {}}
  BY <1>2, <1>3
<1>10. QED BY <1>2, <1>4, <1>5, <1>7, <1>8, <1>9 DEF Matched

\* What becomes of a worker that begins to match.
Begun(x, at, node, analysis, ms, reported) ==
  [x EXCEPT !.at = at, !.node = node, !.matches = ms, !.reported = reported, !.analysis = analysis]

LEMMA FieldsChange ==
  ASSUME NEW x, IsAWorker(x), NEW at, NEW node, NEW analysis, NEW ms, NEW reported
  PROVE  Begun(x, at, node, analysis, ms, reported)
           = [at |-> at, file |-> x.file, unit |-> x.unit, node |-> node, analysis |-> analysis,
              matches |-> ms, reported |-> reported]
<1> DEFINE y == [x EXCEPT !.at = at, !.node = node, !.matches = ms, !.reported = reported, !.analysis = analysis]
           z == [at |-> at, file |-> x.file, unit |-> x.unit, node |-> node, analysis |-> analysis,
                 matches |-> ms, reported |-> reported]
           fields == {"at", "file", "unit", "node", "analysis", "matches", "reported"}
<1>1. x = [f \in fields |-> x[f]] BY DEF IsAWorker
<1>2. y = [f \in fields |-> y[f]] BY <1>1
<1>3. z = [f \in fields |-> z[f]] OBVIOUS
<1>4. y.at = z.at /\ y.file = z.file /\ y.unit = z.unit BY <1>1
<1>5. y.node = z.node /\ y.analysis = z.analysis BY <1>1
<1>6. y.matches = z.matches /\ y.reported = z.reported BY <1>1
<1> HIDE DEF y, z
<1>7. \A f \in fields : y[f] = z[f] BY <1>4, <1>5, <1>6
<1> HIDE DEF fields
<1>8. y = z BY <1>2, <1>3, <1>7
<1>9. QED BY <1>8 DEF y, z, Begun

LEMMA AnalyzeUnitWalks ==
  ASSUME WalksInv, NEW w \in Workers, AnalyzeUnit(w)
  PROVE  WalksInv'
<1> DEFINE x == worker[w]
           verdicts == Analyze(Unit(w).tree, Unit(w).language, EnableGraphs)
           walking == "match"
           none == <<>>
           nobody == {}
           y == [x EXCEPT !.at = walking, !.node = Root, !.matches = none, !.reported = nobody,
                          !.analysis = verdicts]
<1>1. /\ content \in Contents /\ index = BuildIndex
      /\ IsASlice(queue) /\ \A i \in 1..Len(queue) : queue[i] \in DOMAIN content
      /\ worker = [v \in Workers |-> worker[v]] /\ Tracked(w)
  BY DEF WalksInv
<1>2. /\ x.at = "analyze" /\ content' = content /\ queue' = queue /\ index' = index
      /\ worker' = [worker EXCEPT ![w] = y]
  BY DEF AnalyzeUnit
<1>3. IsAWorker(x) /\ x.file \in DOMAIN content /\ x.unit \in DOMAIN content[x.file].units
  BY <1>1, <1>2 DEF Tracked
<1> HIDE DEF x, verdicts
<1>4. /\ IsAWorker(y) /\ y.at = "match" /\ y.file = x.file /\ y.unit = x.unit /\ y.node = Root
      /\ y.matches = <<>> /\ y.reported = {} /\ y.analysis = verdicts
  <2> HIDE DEF walking, none, nobody
  <2>1. y = [at |-> walking, file |-> x.file, unit |-> x.unit, node |-> Root, analysis |-> verdicts,
             matches |-> none, reported |-> nobody]
    <3>1. y = Begun(x, walking, Root, verdicts, none, nobody) BY DEF Begun
    <3> HIDE DEF y
    <3>2. QED BY <1>3, <3>1, FieldsChange
  <2> HIDE DEF y
  <2>2. /\ y.at = walking /\ y.file = x.file /\ y.unit = x.unit /\ y.node = Root
        /\ y.matches = none /\ y.reported = nobody /\ y.analysis = verdicts
    BY <2>1
  <2>3. IsAWorker(y) BY <2>1, <2>2 DEF IsAWorker
  <2>4. QED BY <2>2, <2>3 DEF walking, none, nobody
<1> HIDE DEF y
<1>5. worker'[w] = y BY <1>1, <1>2
<1>6. worker' = [v \in Workers |-> worker'[v]] /\ \A v \in Workers \ {w} : Tracked(v)'
  BY <1>2, <1>5, TheOthers
<1>7. Unit(w)' = Unit(w) BY <1>2, <1>4, <1>5 DEF Unit, x
<1>8. IsATree(Unit(w).tree) BY <1>1, <1>3, UnitsAreFiles DEF x
<1>9. Analyzed(w)'.tree = Unit(w).tree BY <1>7 DEF Analyzed
<1>10. Matched(worker'[w], Analyzed(w)')
  <2> DEFINE file == Analyzed(w)'
             z == worker'[w]
  <2>1. IsATree(file.tree) BY <1>8, <1>9
  <2>2. z.node = Root /\ z.matches = <<>> /\ z.reported = {} BY <1>4, <1>5
  <2> HIDE DEF file, z
  <2>3. Matched(z, file) BY <2>1, <2>2, WalkStarts
  <2>4. QED BY <2>3 DEF file, z
<1>11. worker'[w].analysis = Analyze(Unit(w)'.tree, Unit(w)'.language, EnableGraphs)
  BY <1>4, <1>5, <1>7 DEF verdicts
<1>12. Tracked(w)' BY <1>2, <1>3, <1>4, <1>5, <1>10, <1>11 DEF Tracked
<1>13. \A v \in Workers : Tracked(v)' BY <1>6, <1>12
<1>14. QED BY <1>1, <1>2, <1>6, <1>13 DEF WalksInv

LEMMA VisitNodeWalks ==
  ASSUME WalksInv, NEW w \in Workers, VisitNode(w)
  PROVE  WalksInv'
<1> DEFINE x == worker[w]
           y == Visited(w, Candidates(Analyzed(w), worker[w].node))
<1>1. /\ content \in Contents /\ index = BuildIndex
      /\ IsASlice(queue) /\ \A i \in 1..Len(queue) : queue[i] \in DOMAIN content
      /\ worker = [v \in Workers |-> worker[v]] /\ Tracked(w)
  BY DEF WalksInv
<1>2. /\ x.at = "match" /\ x.node \in DOMAIN Unit(w).tree
      /\ content' = content /\ queue' = queue /\ index' = index
      /\ worker' = [worker EXCEPT ![w] = y]
  BY DEF VisitNode
<1>3. /\ IsAWorker(x) /\ x.file \in DOMAIN content /\ x.unit \in DOMAIN content[x.file].units
      /\ x.analysis = Analyze(Unit(w).tree, Unit(w).language, EnableGraphs)
      /\ Matched(x, Analyzed(w))
  BY <1>1, <1>2 DEF Tracked
<1>4. IsAFile(Analyzed(w)) BY <1>1, <1>3, UnitsAreFiles
<1>5. /\ IsAWorker(y) /\ Matched(y, Analyzed(w)) /\ y.at = x.at /\ y.file = x.file
      /\ y.unit = x.unit /\ y.analysis = x.analysis
  BY <1>1, <1>2, <1>3, <1>4, VisitKeeps
<1> HIDE DEF x, y
<1>6. worker'[w] = y BY <1>1, <1>2
<1>7. worker' = [v \in Workers |-> worker'[v]] /\ \A v \in Workers \ {w} : Tracked(v)'
  BY <1>2, <1>6, TheOthers
<1>8. Unit(w)' = Unit(w) BY <1>2, <1>5, <1>6 DEF Unit, x
<1>9. Analyzed(w)' = Analyzed(w) BY <1>5, <1>6, <1>8 DEF Analyzed, x
<1>10. Matched(worker'[w], Analyzed(w)') BY <1>5, <1>6, <1>9
<1>11. worker'[w].analysis = Analyze(Unit(w)'.tree, Unit(w)'.language, EnableGraphs)
  BY <1>3, <1>5, <1>6, <1>8
<1>12. Tracked(w)' BY <1>2, <1>3, <1>5, <1>6, <1>10, <1>11 DEF Tracked
<1>13. \A v \in Workers : Tracked(v)' BY <1>7, <1>12
<1>14. QED BY <1>1, <1>2, <1>7, <1>13 DEF WalksInv

LEMMA EndUnitWalks ==
  ASSUME WalksInv, NEW w \in Workers, EndUnit(w)
  PROVE  WalksInv'
<1> DEFINE x == worker[w]
           f == x.file
           next == {u \in DOMAIN content[f].units : u > x.unit /\ content[f].units[u].tree # <<>>}
           y == IF next = {} THEN NoFile ELSE Starting(f, Min(next))
<1>1. /\ content \in Contents /\ index = BuildIndex
      /\ IsASlice(queue) /\ \A i \in 1..Len(queue) : queue[i] \in DOMAIN content
      /\ worker = [v \in Workers |-> worker[v]] /\ Tracked(w)
  BY DEF WalksInv
<1>2. /\ x.at = "match" /\ content' = content /\ queue' = queue /\ index' = index
      /\ worker' = [worker EXCEPT ![w] = y]
  BY DEF EndUnit, Starting
<1>3. f \in DOMAIN content BY <1>1, <1>2 DEF Tracked
<1>4. next # {} => Min(next) \in DOMAIN content[f].units
  <2>1. IsASlice(content[f].units) BY <1>1, <1>3, ContentsAssumption
  <2>2. DOMAIN content[f].units \subseteq Nat BY <2>1 DEF IsASlice
  <2>3. next \subseteq DOMAIN content[f].units OBVIOUS
  <2> HIDE DEF next
  <2>4. QED BY <2>2, <2>3, MinOf
<1> HIDE DEF next, f, x
<1>5. /\ IsAWorker(y) /\ y.at \in {"idle", "analyze"}
      /\ y.at # "idle" => y.file = f /\ y.unit \in DOMAIN content[f].units
  <2>1. CASE next = {} BY <2>1, NothingTaken
  <2>2. CASE next # {}
    <3>1. y = Starting(f, Min(next)) BY <2>2
    <3> HIDE DEF y
    <3>2. QED BY <1>4, <2>2, <3>1, UnitStarts
  <2>3. QED BY <2>1, <2>2
<1> HIDE DEF y
<1>6. worker'[w] = y BY <1>1, <1>2
<1>7. worker' = [v \in Workers |-> worker'[v]] /\ \A v \in Workers \ {w} : Tracked(v)'
  BY <1>2, <1>6, TheOthers
<1>8. Tracked(w)' BY <1>2, <1>3, <1>5, <1>6 DEF Tracked
<1>9. \A v \in Workers : Tracked(v)' BY <1>7, <1>8
<1>10. QED BY <1>1, <1>2, <1>7, <1>9 DEF WalksInv

\* Of each worker, at each of its steps: the file and the unit it is at exist, the
\* verdicts it goes by are those on the tree of that unit, and what it has reported
\* is what is due of the nodes before the next one; and the index is the one that
\* was built (engine.go:140-172: the index that all workers share is read only).
THEOREM WalksAreTracked == Spec => []WalksInv
<1>1. Init => WalksInv BY InitWalks
<1>2. WalksInv /\ [Next]_matchingVars => WalksInv'
  <2> SUFFICES ASSUME WalksInv, [Next]_matchingVars PROVE WalksInv' OBVIOUS
  <2>1. ASSUME NEW w \in Workers, TakeFile(w) PROVE WalksInv' BY <2>1, TakeFileWalks
  <2>2. ASSUME NEW w \in Workers, AnalyzeUnit(w) PROVE WalksInv' BY <2>2, AnalyzeUnitWalks
  <2>3. ASSUME NEW w \in Workers, VisitNode(w) PROVE WalksInv' BY <2>3, VisitNodeWalks
  <2>4. ASSUME NEW w \in Workers, EndUnit(w) PROVE WalksInv' BY <2>4, EndUnitWalks
  <2>5. CASE UNCHANGED matchingVars
    <3>1. content' = content /\ queue' = queue /\ index' = index /\ worker' = worker
      BY <2>5 DEF matchingVars
    <3>2. \A w \in Workers : Tracked(w)' BY <3>1, NobodyMoves DEF WalksInv
    <3>3. QED BY <3>1, <3>2 DEF WalksInv
  <2>6. QED BY <2>1, <2>2, <2>3, <2>4, <2>5 DEF Next
<1>3. QED BY <1>1, <1>2, PTL DEF Spec

\* However the workers interleave, the walk of a unit reports each live rule of its
\* language at each node that it fits, once, and a once-per-file rule at the first of
\* them only (engine.go:155-172).
THEOREM WalksMissNothing == Spec => []MatchIsExhaustive
<1>1. WalksInv => MatchIsExhaustive
  <2> SUFFICES ASSUME WalksInv, NEW w \in {w \in Workers : Walked(w)}
               PROVE  LET ms == worker[w].matches
                      IN  /\ \A r \in DOMAIN Rules :
                               {ms[i].node : i \in {i \in DOMAIN ms : ms[i].rule = r}}
                                 = Due(Analyzed(w), r, worker[w].node)
                          /\ \A i, j \in DOMAIN ms :
                               ms[i].rule = ms[j].rule /\ ms[i].node = ms[j].node => i = j
    BY DEF MatchIsExhaustive
  <2> DEFINE x == worker[w]
             ms == x.matches
             file == Analyzed(w)
  <2>1. Tracked(w) /\ x.at = "match" BY DEF WalksInv, Walked
  <2>2. Matched(x, file) BY <2>1 DEF Tracked
  <2> HIDE DEF file
  <2>3. DOMAIN ms = 1..Len(ms) BY <2>2 DEF Matched, IsASequence
  <2>4. \A r \in DOMAIN Rules : Found(ms, r) = Due(file, r, x.node) BY <2>2 DEF Matched
  <2>5. \A i, j \in DOMAIN ms : ms[i].rule = ms[j].rule /\ ms[i].node = ms[j].node => i = j
    BY <2>2, <2>3 DEF Matched
  <2>6. QED BY <2>4, <2>5 DEF Found, file
<1>2. QED BY <1>1, WalksAreTracked, PTL

\* What a worker goes by when it starts to match.
LEMMA JustAnalyzedIs ==
  ASSUME WalksInv, NEW w \in Workers, JustAnalyzed(w)
  PROVE  /\ IsATree(Unit(w).tree)
         /\ \E graphs, reaching : worker[w].analysis = BuildContext(Unit(w).tree, graphs, reaching)
<1>1. Tracked(w) /\ worker[w].at = "match" /\ content \in Contents BY DEF WalksInv, JustAnalyzed
<1>2. /\ worker[w].file \in DOMAIN content
      /\ worker[w].unit \in DOMAIN content[worker[w].file].units
      /\ worker[w].analysis = Analyze(Unit(w).tree, Unit(w).language, EnableGraphs)
  BY <1>1 DEF Tracked
<1>3. IsATree(Unit(w).tree) BY <1>1, <1>2, UnitsAreFiles
<1>4. \E graphs, reaching : worker[w].analysis = BuildContext(Unit(w).tree, graphs, reaching)
  BY <1>2 DEF Analyze
<1>5. QED BY <1>3, <1>4

\* A name that is tainted and not weakly so got its value from a source of the file,
\* by some chain of its assignments (taint.go:33-48).
THEOREM StrongTaintHasASource == Spec => []StrongHasSource
<1>1. WalksInv => StrongHasSource
  <2> SUFFICES ASSUME WalksInv, NEW w \in {w \in Workers : JustAnalyzed(w)}
               PROVE  worker[w].analysis.tainted \ worker[w].analysis.weak \subseteq FromSource(Unit(w).tree)
    BY DEF StrongHasSource
  <2>1. PICK graphs, reaching : worker[w].analysis = BuildContext(Unit(w).tree, graphs, reaching)
    BY JustAnalyzedIs
  <2>2. IsATree(Unit(w).tree) BY JustAnalyzedIs
  <2>3. QED BY <2>1, <2>2, StrongNamesHaveSources
<1>2. QED BY <1>1, WalksAreTracked, PTL

\* The path of a tainted name ends at the last assignment to it, and each step of it
\* refers to a name that the step before assigns (taint.go:224-247).
THEOREM PathsLeadToNames == Spec => []PathsAreChains
<1>1. WalksInv => PathsAreChains
  <2> SUFFICES ASSUME WalksInv, NEW w \in {w \in Workers : JustAnalyzed(w)}
               PROVE  LET t == Unit(w).tree
                          paths == worker[w].analysis.paths
                          assigning(v) == {n \in Of(t, "assignment") :
                                             t[n].lhs # <<>> /\ v \in ToSet(LhsNames(t, n))}
                          follows(m, n) ==
                            \/ ToSet(t[m].lhs) \cap NamesIn(t, Subtree(t, LastChild(t, n))) # {}
                            \/ t[n].augmented /\ ToSet(t[m].lhs) \cap ToSet(t[n].lhs) # {}
                      IN  \A v \in DOMAIN paths : paths[v] # <<>> =>
                            /\ Last(paths[v]) = Max(assigning(v))
                            /\ \A i \in 2..Len(paths[v]) : follows(paths[v][i - 1], paths[v][i])
    BY DEF PathsAreChains
  <2> DEFINE t == Unit(w).tree
             paths == worker[w].analysis.paths
             assigning(v) == {n \in Of(t, "assignment") : t[n].lhs # <<>> /\ v \in ToSet(LhsNames(t, n))}
  <2>1. PICK graphs, reaching : worker[w].analysis = BuildContext(t, graphs, reaching)
    BY JustAnalyzedIs
  <2>2. IsATree(t) BY JustAnalyzedIs
  <2> HIDE DEF t
  <2>3. \A v \in DOMAIN paths : paths[v] # <<>> =>
          /\ Last(paths[v]) = Max(assigning(v))
          /\ \A i \in 2..Len(paths[v]) : Follows(t, paths[v][i - 1], paths[v][i])
    <3> DEFINE r == BuildContext(t, graphs, reaching)
    <3>1. \A v \in DOMAIN r.paths : r.paths[v] # <<>> =>
            /\ Last(r.paths[v]) = Max(assigning(v))
            /\ \A i \in 2..Len(r.paths[v]) : Follows(t, r.paths[v][i - 1], r.paths[v][i])
      BY <2>2, PathsFollow
    <3>2. paths = r.paths BY <2>1
    <3> HIDE DEF r, paths, assigning
    <3>3. QED BY <3>1, <3>2
  <2>4. QED BY <2>3 DEF Follows, t
<1>2. QED BY <1>1, WalksAreTracked, PTL

\* A definition that the graph lets into an assignment reaches it when the program
\* runs: an if with an else, a try and a return do not fall through (graph.go:116-150).
THEOREM TheGraphIsSound == Spec => []ReachingIsSound
<1>1. WalksInv => ReachingIsSound
  <2> SUFFICES ASSUME WalksInv,
                      NEW w \in {w \in Workers : JustAnalyzed(w) /\ EnableGraphs /\ Unit(w).language = "python"}
               PROVE  LET t == Unit(w).tree
                          reaching == ReachingDefs(t)
                          successors == Successors(t)
                      IN  \A d \in {d \in Of(t, "assignment") : Defines(t, d)} :
                            {n \in Of(t, "assignment") : d \in reaching[n]} \subseteq LiveAt(t, successors, d)
    BY DEF ReachingIsSound
  <2> DEFINE t == Unit(w).tree
  <2>1. IsATree(t) BY JustAnalyzedIs
  <2> HIDE DEF t
  <2>2. ASSUME NEW d \in Of(t, "assignment"), NEW n \in Of(t, "assignment"), d \in ReachingDefs(t)[n]
        PROVE  n \in LiveAt(t, Successors(t), d)
    <3>1. d \in DOMAIN t BY DEF Of
    <3>2. QED BY <2>1, <2>2, <3>1, ReachingIsLive
  <2>3. QED BY <2>2 DEF t
<1>2. QED BY <1>1, WalksAreTracked, PTL
=================================================================================
