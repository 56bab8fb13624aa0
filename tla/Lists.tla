--------------------------------- MODULE Lists ---------------------------------
(***************************************************************************)
(* What a loop that walks a slice and appends some of its elements to      *)
(* another one returns.                                                    *)
(***************************************************************************)
EXTENDS Integers, FiniteSets, Sequences

\* A slice, as a function from its places.
IsASlice(s) == Len(s) \in Nat /\ s = [n \in 1..Len(s) |-> s[n]]

\* The elements of a sequence at the places in S, in order.
Picked(seq, S) ==
  [n \in 1..Cardinality(S) |-> seq[CHOOSE k \in S : Cardinality({j \in S : j <= k}) = n]]

\* The elements of a sequence whose key no earlier one has, in order.
FirstBy(seq, Key(_)) ==
  Picked(seq, {n \in DOMAIN seq : \A k \in 1..(n - 1) : Key(seq[k]) # Key(seq[n])})
================================================================================
