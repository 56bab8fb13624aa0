-------------------------------- MODULE Callees --------------------------------
(***************************************************************************)
(* What a rule says of a callee and what a file says of it.  A dotted text *)
(* is the sequence of its segments, and a pattern a record of just what it *)
(* asks for.                                                               *)
(***************************************************************************)
EXTENDS Tree

Has(f, constraint) == constraint \in DOMAIN f

\* attributeText: the identifiers of a dotted chain, however it nests.
Segments(t, n) ==
  LET chained(m) == \A a \in Ancestors(t, m) : a >= n => t[a].kind = "attribute"
      parts == {m \in Identifiers(t, Subtree(t, n)) : t[m].text # "" /\ chained(m)}
  IN  Picked([m \in DOMAIN t |-> t[m].text], parts)

CalleeText(t, n) ==
  LET heads == {m \in ChildrenOf(t, n) :
                  t[m].kind \in {"identifier", "attribute"} /\ Segments(t, m) # <<>>}
  IN  IF heads = {} THEN <<>> ELSE Segments(t, Min(heads))

CanonicalAlias(file, text) ==
  IF text # <<>> /\ Head(text) \in DOMAIN file.aliases THEN file.aliases[Head(text)] \o Tail(text)
  ELSE text
================================================================================
