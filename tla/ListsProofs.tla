------------------------------ MODULE ListsProofs ------------------------------
(***************************************************************************)
(* What Picked and FirstBy return, for sequences of any length: the        *)
(* elements asked for, each once, in their order.                          *)
(***************************************************************************)
EXTENDS Lists, TLAPS, FiniteSetTheorems, FunctionTheorems, SequenceTheorems

\* How many places of S are not after k, and the n-th place of S.
Rank(S, k) == Cardinality({j \in S : j <= k})
Place(S, n) == CHOOSE k \in S : Cardinality({j \in S : j <= k}) = n

\* A set of naturals that is not empty has a least element.
LEMMA LeastOf ==
  ASSUME NEW T, T \subseteq Nat, T # {}
  PROVE  \E x \in T : \A y \in T : x <= y
<1>1. PICK x \in T : \A y \in T : ~(<<y, x>> \in OpToRel(<, Nat))
  BY WFMin, NatLessThanWellFounded
<1>2. \A y \in T : ~(y < x)
  BY <1>1 DEF OpToRel
<1>3. QED BY <1>2

\* Later places have higher ranks, and the ranks of S are 1 to its size.
LEMMA RanksGrow ==
  ASSUME NEW S, S \subseteq Nat, IsFiniteSet(S)
  PROVE  /\ Cardinality(S) \in Nat
         /\ \A k \in S : Rank(S, k) \in Nat /\ Rank(S, k) \in 1..Cardinality(S)
         /\ \A k, m \in S : k < m => Rank(S, k) < Rank(S, m)
<1> DEFINE Upto(k) == {j \in S : j <= k}
<1>1. Cardinality(S) \in Nat BY FS_CardinalityType
<1>2. ASSUME NEW k \in S PROVE Rank(S, k) \in Nat /\ Rank(S, k) \in 1..Cardinality(S)
  <2>1. IsFiniteSet(Upto(k)) /\ Cardinality(Upto(k)) <= Cardinality(S)
    <3>1. Upto(k) \in SUBSET S OBVIOUS
    <3>2. QED BY <3>1, FS_Subset
  <2>2. Cardinality(Upto(k)) \in Nat BY <2>1, FS_CardinalityType
  <2>3. k \in Upto(k) OBVIOUS
  <2>4. Cardinality(Upto(k)) # 0 BY <2>1, <2>3, FS_EmptySet
  <2>5. QED BY <1>1, <2>1, <2>2, <2>4 DEF Rank
<1>3. ASSUME NEW k \in S, NEW m \in S, k < m PROVE Rank(S, k) < Rank(S, m)
  <2>1. IsFiniteSet(Upto(m))
    <3>1. Upto(m) \in SUBSET S OBVIOUS
    <3>2. QED BY <3>1, FS_Subset
  <2>2. Upto(k) \in SUBSET Upto(m)
    <3>1. \A j \in S : j <= k => j <= m
      <4>1. \A j \in S : j \in Nat /\ k \in Nat /\ m \in Nat OBVIOUS
      <4>2. QED BY <4>1, <1>3
    <3>2. QED BY <3>1
  <2>3. Upto(k) # Upto(m)
    <3>1. m \in Upto(m) /\ m \notin Upto(k) BY <1>3
    <3>2. QED BY <3>1
  <2> HIDE DEF Upto
  <2>4. /\ Cardinality(Upto(k)) <= Cardinality(Upto(m))
        /\ Cardinality(Upto(k)) # Cardinality(Upto(m))
    BY <2>1, <2>2, <2>3, FS_Subset
  <2>5. Cardinality(Upto(k)) \in Nat /\ Cardinality(Upto(m)) \in Nat
    BY <1>2 DEF Rank, Upto
  <2>6. QED BY <2>4, <2>5 DEF Rank, Upto
<1>4. QED BY <1>1, <1>2, <1>3

\* Place is the inverse of Rank.
LEMMA PlacesExist ==
  ASSUME NEW S, S \subseteq Nat, IsFiniteSet(S), NEW n \in 1..Cardinality(S)
  PROVE  Place(S, n) \in S /\ Rank(S, Place(S, n)) = n
<1> DEFINE rank == [k \in S |-> Rank(S, k)]
           T == 1..Cardinality(S)
<1>1. Cardinality(S) \in Nat BY RanksGrow
<1>2. rank \in [S -> T] BY RanksGrow
<1>3. \A a, b \in S : rank[a] = rank[b] => a = b
  <2> SUFFICES ASSUME NEW a \in S, NEW b \in S, a # b PROVE rank[a] # rank[b] OBVIOUS
  <2>1. a < b \/ b < a OBVIOUS
  <2>2. Rank(S, a) < Rank(S, b) \/ Rank(S, b) < Rank(S, a) BY <2>1, RanksGrow
  <2>3. Rank(S, a) \in Nat /\ Rank(S, b) \in Nat BY RanksGrow
  <2>4. QED BY <2>2, <2>3
<1>4. IsFiniteSet(T) /\ Cardinality(T) = Cardinality(S)
  BY <1>1, FS_Interval
<1>5. rank \in Injection(S, T)
  <2> HIDE DEF rank, T
  <2>1. QED BY <1>2, <1>3, Fun_IsInj
<1>6. rank \in Surjection(S, T)
  <2> HIDE DEF rank, T
  <2>1. QED BY <1>4, <1>5, FS_Injection
<1>7. \E k \in S : Rank(S, k) = n
  <2>1. \A t \in T : \E k \in S : rank[k] = t
    <3> HIDE DEF rank, T
    <3>1. QED BY <1>6, Fun_SurjectionProperties
  <2>2. QED BY <2>1
<1>8. QED BY <1>7 DEF Place, Rank

\* What is picked: each place of S once, and in order.
LEMMA Picking ==
  ASSUME NEW seq, NEW S, S \subseteq Nat, IsFiniteSet(S)
  PROVE  LET picked == Picked(seq, S) IN
         /\ Cardinality(S) \in Nat
         /\ DOMAIN picked = 1..Cardinality(S)
         /\ \A n \in DOMAIN picked :
              Place(S, n) \in S /\ Rank(S, Place(S, n)) = n /\ picked[n] = seq[Place(S, n)]
         /\ \A k \in S : Rank(S, k) \in DOMAIN picked /\ picked[Rank(S, k)] = seq[k]
<1> DEFINE picked == Picked(seq, S)
<1>1. Cardinality(S) \in Nat BY RanksGrow
<1>2. DOMAIN picked = 1..Cardinality(S) BY DEF Picked
<1>3. ASSUME NEW n \in DOMAIN picked
      PROVE  Place(S, n) \in S /\ Rank(S, Place(S, n)) = n /\ picked[n] = seq[Place(S, n)]
  <2>1. Place(S, n) \in S /\ Rank(S, Place(S, n)) = n BY <1>2, PlacesExist
  <2>2. picked[n] = seq[Place(S, n)] BY <1>2 DEF Picked, Place
  <2>3. QED BY <2>1, <2>2
<1>4. ASSUME NEW k \in S
      PROVE  Rank(S, k) \in DOMAIN picked /\ picked[Rank(S, k)] = seq[k]
  <2> DEFINE n == Rank(S, k)
  <2>1. n \in DOMAIN picked BY <1>2, RanksGrow
  <2>2. Place(S, n) \in S /\ Rank(S, Place(S, n)) = n /\ picked[n] = seq[Place(S, n)]
    BY <1>3, <2>1
  <2>3. Place(S, n) = k
    <3> DEFINE p == Place(S, n)
    <3>1. p \in S /\ Rank(S, p) = Rank(S, k) BY <2>2
    <3> HIDE DEF p
    <3>2. Rank(S, k) \in Nat BY RanksGrow
    <3>3. ~(p < k) /\ ~(k < p)
      <4>1. p < k => Rank(S, p) < Rank(S, k) BY <3>1, RanksGrow
      <4>2. k < p => Rank(S, k) < Rank(S, p) BY <3>1, RanksGrow
      <4>3. QED BY <3>1, <3>2, <4>1, <4>2
    <3>4. p = k BY <3>1, <3>3
    <3>5. QED BY <3>4 DEF p
  <2>4. QED BY <2>1, <2>2, <2>3
<1>5. QED BY <1>1, <1>2, <1>3, <1>4

\* The places where a key is seen first.
Firsts(keys) == {n \in DOMAIN keys : \A k \in 1..(n - 1) : keys[k] # keys[n]}

\* Each key has one first place.
LEMMA OneFirstEach ==
  ASSUME NEW keys, NEW len \in Nat, DOMAIN keys = 1..len
  PROVE  /\ Firsts(keys) \subseteq 1..len /\ IsFiniteSet(Firsts(keys))
         /\ \A n \in 1..len : \E k \in Firsts(keys) : k <= n /\ keys[k] = keys[n]
         /\ \A k, m \in Firsts(keys) : keys[k] = keys[m] => k = m
<1>1. Firsts(keys) \subseteq 1..len BY DEF Firsts
<1>2. IsFiniteSet(Firsts(keys)) BY <1>1, FS_Interval, FS_Subset
<1>3. ASSUME NEW n \in 1..len PROVE \E k \in Firsts(keys) : k <= n /\ keys[k] = keys[n]
  <2> DEFINE T == {k \in 1..len : keys[k] = keys[n]}
  <2>1. T \subseteq Nat /\ n \in T OBVIOUS
  <2>2. PICK k \in T : \A y \in T : k <= y
    <3> HIDE DEF T
    <3>1. QED BY <2>1, LeastOf
  <2>3. ASSUME NEW m \in 1..(k - 1) PROVE keys[m] # keys[k]
    <3>1. m \in 1..len /\ ~(k <= m) OBVIOUS
    <3>2. m \notin T BY <2>2, <3>1
    <3>3. QED BY <3>1, <3>2
  <2>4. k \in Firsts(keys) BY <2>3 DEF Firsts
  <2>5. QED BY <2>1, <2>2, <2>4
<1>4. ASSUME NEW k \in Firsts(keys), NEW m \in Firsts(keys), keys[k] = keys[m]
      PROVE  k = m
  <2>1. k \in 1..len /\ m \in 1..len BY <1>1
  <2>2. k \notin 1..(m - 1) /\ m \notin 1..(k - 1) BY <1>4 DEF Firsts
  <2>3. QED BY <2>1, <2>2
<1>5. QED BY <1>1, <1>2, <1>3, <1>4

\* Two finite sets of which one is counted through the other.
LEMMA CountedThrough ==
  ASSUME NEW A, NEW B, IsFiniteSet(B), NEW g \in [A -> B],
         \A a, b \in A : g[a] = g[b] => a = b,
         \A b \in B : \E a \in A : g[a] = b
  PROVE  IsFiniteSet(A) /\ Cardinality(A) = Cardinality(B)
<1>1. g \in Injection(A, B) BY Fun_IsInj
<1>2. g \in Surjection(A, B) BY Fun_IsSurj
<1>3. QED BY <1>1, <1>2, FS_Injection

\* list has the elements of seq at the places in P, each once.
EachOnce(list, seq, P) ==
  \E at \in [DOMAIN list -> P] :
    /\ \A n \in DOMAIN list : list[n] = seq[at[n]]
    /\ \A m, n \in DOMAIN list : at[m] = at[n] => m = n
    /\ \A p \in P : \E n \in DOMAIN list : at[n] = p

\* A list of chosen elements has each of them at one place.
LEMMA PickedEach ==
  ASSUME NEW S, NEW seq \in Seq(S), NEW P, P \subseteq DOMAIN seq
  PROVE  /\ Picked(seq, P) \in Seq(S)
         /\ IsFiniteSet(P) /\ Cardinality(P) \in Nat /\ Len(Picked(seq, P)) = Cardinality(P)
         /\ EachOnce(Picked(seq, P), seq, P)
<1> DEFINE picked == Picked(seq, P)
           at == [n \in DOMAIN picked |-> Place(P, n)]
<1>1. Len(seq) \in Nat /\ DOMAIN seq = 1..Len(seq) /\ \A n \in DOMAIN seq : seq[n] \in S
  BY LenProperties
<1>2. P \subseteq Nat /\ IsFiniteSet(P)
  <2>1. IsFiniteSet(1..Len(seq)) BY <1>1, FS_Interval
  <2>2. P \in SUBSET (1..Len(seq)) BY <1>1
  <2>3. IsFiniteSet(P) BY <2>1, <2>2, FS_Subset
  <2>4. QED BY <1>1, <2>2, <2>3
<1>3. /\ Cardinality(P) \in Nat
      /\ DOMAIN picked = 1..Cardinality(P)
      /\ \A n \in DOMAIN picked :
           Place(P, n) \in P /\ Rank(P, Place(P, n)) = n /\ picked[n] = seq[Place(P, n)]
      /\ \A k \in P : Rank(P, k) \in DOMAIN picked /\ picked[Rank(P, k)] = seq[k]
  BY <1>2, Picking
<1>4. picked \in Seq(S) /\ Len(picked) = Cardinality(P)
  <2>1. picked = [n \in 1..Cardinality(P) |-> picked[n]] BY <1>3 DEF Picked
  <2>2. \A n \in 1..Cardinality(P) : picked[n] \in S BY <1>1, <1>3
  <2> HIDE DEF picked
  <2>3. picked \in [1..Cardinality(P) -> S] BY <2>1, <2>2
  <2>4. picked \in Seq(S) BY <1>3, <2>3, SeqDef
  <2>5. QED BY <1>3, <2>4, LenProperties
<1>5. /\ at \in [DOMAIN picked -> P]
      /\ \A n \in DOMAIN picked : picked[n] = seq[at[n]] /\ Rank(P, at[n]) = n
  BY <1>3
<1>6. \A m, n \in DOMAIN picked : at[m] = at[n] => m = n
  <2> HIDE DEF at, picked
  <2>1. QED BY <1>5
<1>7. ASSUME NEW p \in P PROVE \E n \in DOMAIN picked : at[n] = p
  <2> DEFINE n == Rank(P, p)
  <2>1. n \in DOMAIN picked BY <1>3
  <2>2. at[n] \in P /\ Rank(P, at[n]) = Rank(P, p) BY <1>5, <2>1
  <2>3. at[n] = p
    <3> DEFINE q == at[n]
    <3>1. q \in P /\ Rank(P, q) = Rank(P, p) BY <2>2
    <3> HIDE DEF q
    <3>2. Rank(P, p) \in Nat BY <1>2, RanksGrow
    <3>3. (q < p => Rank(P, q) < Rank(P, p)) /\ (p < q => Rank(P, p) < Rank(P, q))
      BY <1>2, <3>1, RanksGrow
    <3>4. q = p
      <4>1. q \in Nat /\ p \in Nat BY <1>2, <3>1
      <4>2. QED BY <3>1, <3>2, <3>3, <4>1
    <3>5. QED BY <3>4 DEF q
  <2>4. QED BY <2>1, <2>3
<1>8. EachOnce(picked, seq, P)
  <2> HIDE DEF at, picked
  <2>1. QED BY <1>5, <1>6, <1>7 DEF EachOnce
<1>9. QED BY <1>2, <1>3, <1>4, <1>8

\* Splitting a list in two and joining the halves again rearranges it.
LEMMA Rearranged ==
  ASSUME NEW S, NEW seq \in Seq(S), NEW P, NEW Q, P \cup Q = DOMAIN seq, P \cap Q = {}
  PROVE  LET whole == Picked(seq, Q) \o Picked(seq, P) IN
         /\ whole \in Seq(S) /\ Len(whole) = Len(seq)
         /\ EachOnce(whole, seq, DOMAIN seq)
<1> DEFINE left == Picked(seq, Q)
           right == Picked(seq, P)
           whole == left \o right
<1>1. /\ left \in Seq(S) /\ IsFiniteSet(Q) /\ Cardinality(Q) \in Nat /\ Len(left) = Cardinality(Q)
      /\ EachOnce(left, seq, Q)
  <2>1. Q \subseteq DOMAIN seq OBVIOUS
  <2>2. QED BY <2>1, PickedEach
<1>2. /\ right \in Seq(S) /\ IsFiniteSet(P) /\ Cardinality(P) \in Nat /\ Len(right) = Cardinality(P)
      /\ EachOnce(right, seq, P)
  <2>1. P \subseteq DOMAIN seq OBVIOUS
  <2>2. QED BY <2>1, PickedEach
<1> HIDE DEF left, right
<1>3. PICK l \in [DOMAIN left -> Q] :
        /\ \A n \in DOMAIN left : left[n] = seq[l[n]]
        /\ \A m, n \in DOMAIN left : l[m] = l[n] => m = n
        /\ \A p \in Q : \E n \in DOMAIN left : l[n] = p
  BY <1>1 DEF EachOnce
<1>4. PICK r \in [DOMAIN right -> P] :
        /\ \A n \in DOMAIN right : right[n] = seq[r[n]]
        /\ \A m, n \in DOMAIN right : r[m] = r[n] => m = n
        /\ \A p \in P : \E n \in DOMAIN right : r[n] = p
  BY <1>2 DEF EachOnce
<1>5. /\ Len(left) \in Nat /\ Len(right) \in Nat
      /\ DOMAIN left = 1..Len(left) /\ DOMAIN right = 1..Len(right)
      /\ whole \in Seq(S) /\ Len(whole) = Len(left) + Len(right)
      /\ DOMAIN whole = 1..Len(left) + Len(right)
      /\ \A i \in DOMAIN whole : whole[i] = IF i <= Len(left) THEN left[i] ELSE right[i - Len(left)]
  <2> left \in Seq(S) /\ right \in Seq(S) BY <1>1, <1>2
  <2>1. whole \in Seq(S) /\ Len(whole) = Len(left) + Len(right) BY ConcatProperties
  <2>2. \A i \in 1..Len(left) + Len(right) :
          whole[i] = IF i <= Len(left) THEN left[i] ELSE right[i - Len(left)]
    BY ConcatProperties
  <2>3. DOMAIN whole = 1..Len(whole) BY <2>1, LenProperties
  <2>4. QED BY <1>1, <1>2, <2>1, <2>2, <2>3, LenProperties
<1>6. Len(left) + Len(right) = Len(seq)
  <2>1. Len(seq) \in Nat /\ DOMAIN seq = 1..Len(seq) BY LenProperties
  <2>2. IsFiniteSet(DOMAIN seq) /\ Cardinality(DOMAIN seq) = Len(seq)
    <3>1. IsFiniteSet(1..Len(seq)) /\ Cardinality(1..Len(seq)) = IF 1 > Len(seq) THEN 0 ELSE Len(seq) - 1 + 1
      BY <2>1, FS_Interval
    <3>2. QED BY <2>1, <3>1
  <2>3. Cardinality(P \cup Q) = Cardinality(P) + Cardinality(Q) - Cardinality(P \cap Q)
    BY <1>1, <1>2, FS_Union
  <2>4. Cardinality(P \cap Q) = 0 /\ Cardinality(P \cup Q) = Len(seq) BY <2>2, FS_EmptySet
  <2>5. Len(left) = Cardinality(Q) /\ Len(right) = Cardinality(P) /\ Cardinality(P) \in Nat /\ Cardinality(Q) \in Nat
    BY <1>1, <1>2
  <2>6. QED BY <2>1, <2>3, <2>4, <2>5
<1> HIDE DEF whole
<1> DEFINE at == [n \in DOMAIN whole |-> IF n <= Len(left) THEN l[n] ELSE r[n - Len(left)]]
<1>7. ASSUME NEW n \in DOMAIN whole
      PROVE  /\ n \in Nat
             /\ n <= Len(left) => /\ n \in DOMAIN left /\ at[n] = l[n] /\ at[n] \in Q
                                  /\ whole[n] = seq[at[n]]
             /\ ~(n <= Len(left)) => /\ n - Len(left) \in DOMAIN right /\ at[n] = r[n - Len(left)]
                                     /\ at[n] \in P /\ whole[n] = seq[at[n]]
  <2>1. n \in 1..Len(left) + Len(right) BY <1>5
  <2>2. CASE n <= Len(left)
    <3>1. n \in DOMAIN left BY <1>5, <2>1, <2>2
    <3>2. QED BY <1>3, <1>5, <2>1, <2>2, <3>1
  <2>3. CASE ~(n <= Len(left))
    <3>1. n - Len(left) \in DOMAIN right BY <1>5, <2>1, <2>3
    <3>2. QED BY <1>4, <1>5, <2>1, <2>3, <3>1
  <2>4. QED BY <2>2, <2>3
<1>8. at \in [DOMAIN whole -> DOMAIN seq] /\ \A n \in DOMAIN whole : whole[n] = seq[at[n]]
  <2>1. \A n \in DOMAIN whole : at[n] \in DOMAIN seq /\ whole[n] = seq[at[n]] BY <1>7
  <2>2. at = [n \in DOMAIN whole |-> at[n]] OBVIOUS
  <2> HIDE DEF at
  <2>3. QED BY <2>1, <2>2
<1>9. ASSUME NEW m \in DOMAIN whole, NEW n \in DOMAIN whole, at[m] = at[n] PROVE m = n
  <2> HIDE DEF at
  <2>1. CASE m <= Len(left) /\ n <= Len(left) BY <1>3, <1>7, <1>9, <2>1
  <2>2. CASE ~(m <= Len(left)) /\ ~(n <= Len(left))
    <3>1. m - Len(left) = n - Len(left) BY <1>4, <1>7, <1>9, <2>2
    <3>2. m \in Nat /\ n \in Nat BY <1>7
    <3>3. QED BY <1>5, <3>1, <3>2
  <2>3. CASE (m <= Len(left)) # (n <= Len(left))
    <3>1. (at[m] \in P /\ at[n] \in Q) \/ (at[m] \in Q /\ at[n] \in P) BY <1>7, <2>3
    <3>2. QED BY <1>9, <3>1
  <2>4. QED BY <2>1, <2>2, <2>3
<1>10. ASSUME NEW k \in DOMAIN seq PROVE \E n \in DOMAIN whole : at[n] = k
  <2>1. CASE k \in Q
    <3>1. PICK n \in DOMAIN left : l[n] = k BY <1>3, <2>1
    <3>2. n \in DOMAIN whole /\ n <= Len(left) BY <1>5
    <3>3. QED BY <3>1, <3>2
  <2>2. CASE k \in P
    <3>1. PICK n \in DOMAIN right : r[n] = k BY <1>4, <2>2
    <3>2. n \in Nat /\ 1 <= n /\ n <= Len(right) BY <1>5
    <3> DEFINE m == Len(left) + n
    <3>3. m \in DOMAIN whole /\ ~(m <= Len(left)) /\ m - Len(left) = n BY <1>5, <3>2
    <3> HIDE DEF at, m
    <3>4. at[m] = r[n] BY <1>7, <3>3
    <3>5. QED BY <3>1, <3>3, <3>4
  <2>3. QED BY <2>1, <2>2
<1>11. EachOnce(whole, seq, DOMAIN seq)
  <2> HIDE DEF at
  <2>1. QED BY <1>8, <1>9, <1>10 DEF EachOnce
<1>12. whole \in Seq(S) /\ Len(whole) = Len(seq) BY <1>5, <1>6
<1>13. QED BY <1>11, <1>12 DEF whole, left, right

------------------------------------------------------------------------------
(* Sequences, of whatever their elements are.                                 *)

IsASequence(s) == Len(s) \in Nat /\ s = [n \in 1..Len(s) |-> s[n]]

\* Appending to a sequence, of whatever its elements are.
LEMMA Appending ==
  ASSUME NEW s, NEW e, IsASequence(s)
  PROVE  /\ IsASequence(Append(s, e)) /\ Len(Append(s, e)) = Len(s) + 1
         /\ \A n \in 1..Len(s) : Append(s, e)[n] = s[n]
         /\ Append(s, e)[Len(s) + 1] = e
<1> DEFINE S == {s[n] : n \in 1..Len(s)} \cup {e}
           t == Append(s, e)
<1>1. s \in Seq(S)
  <2>1. s \in [1..Len(s) -> S] BY DEF IsASequence
  <2>2. QED BY <2>1, SeqDef DEF IsASequence
<1>2. e \in S OBVIOUS
<1> HIDE DEF S
<1>3. /\ t \in Seq(S) /\ Len(t) = Len(s) + 1
      /\ \A n \in 1..Len(s) : t[n] = s[n]
      /\ t[Len(s) + 1] = e
  BY <1>1, <1>2, AppendProperties
<1>4. IsASequence(t) BY <1>3, LenProperties DEF IsASequence
<1>5. QED BY <1>3, <1>4

\* Concatenating two sequences, of whatever their elements are.
LEMMA Concatenating ==
  ASSUME NEW s, NEW t, IsASequence(s), IsASequence(t)
  PROVE  /\ IsASequence(s \o t) /\ Len(s \o t) = Len(s) + Len(t)
         /\ \A n \in 1..Len(s) + Len(t) :
              (s \o t)[n] = IF n <= Len(s) THEN s[n] ELSE t[n - Len(s)]
<1> DEFINE S == {s[n] : n \in 1..Len(s)} \cup {t[n] : n \in 1..Len(t)}
           c == s \o t
<1>1. s \in Seq(S)
  <2>1. s \in [1..Len(s) -> S] BY DEF IsASequence
  <2>2. QED BY <2>1, SeqDef DEF IsASequence
<1>2. t \in Seq(S)
  <2>1. t \in [1..Len(t) -> S] BY DEF IsASequence
  <2>2. QED BY <2>1, SeqDef DEF IsASequence
<1> HIDE DEF S
<1>3. /\ c \in Seq(S) /\ Len(c) = Len(s) + Len(t)
      /\ \A n \in 1..Len(s) + Len(t) : c[n] = IF n <= Len(s) THEN s[n] ELSE t[n - Len(s)]
  BY <1>1, <1>2, ConcatProperties
<1>4. IsASequence(c) BY <1>3, LenProperties DEF IsASequence
<1>5. QED BY <1>3, <1>4

ArePlaces(S) == S \subseteq Nat /\ IsFiniteSet(S)

\* What is picked from a sequence is a sequence of its elements.
LEMMA PickingFrom ==
  ASSUME NEW seq, NEW S, ArePlaces(S)
  PROVE  /\ IsASequence(Picked(seq, S))
         /\ \A n \in 1..Len(Picked(seq, S)) : \E k \in S : Picked(seq, S)[n] = seq[k]
<1> DEFINE picked == Picked(seq, S)
<1>1. Cardinality(S) \in Nat BY RanksGrow DEF ArePlaces
<1>2. picked = [n \in 1..Cardinality(S) |-> seq[Place(S, n)]] BY DEF Picked, Place
<1>3. \A n \in 1..Cardinality(S) : Place(S, n) \in S BY PlacesExist DEF ArePlaces
<1> HIDE DEF picked
<1>4. Len(picked) = Cardinality(S) BY <1>1, <1>2
<1>5. IsASequence(picked) BY <1>1, <1>2, <1>4 DEF IsASequence
<1>6. \A n \in 1..Len(picked) : \E k \in S : picked[n] = seq[k] BY <1>2, <1>3, <1>4
<1>7. QED BY <1>5, <1>6 DEF picked

LEMMA EmptyIsASequence == IsASequence(<<>>) /\ Len(<<>>) = 0
BY EmptySeq DEF IsASequence

LEMMA SameLength ==
  ASSUME NEW s, IsASequence(s), NEW t, t = [n \in DOMAIN s |-> t[n]]
  PROVE  IsASequence(t) /\ Len(t) = Len(s)
<1>1. DOMAIN s = 1..Len(s) /\ Len(s) \in Nat BY DEF IsASequence
<1>2. t = [n \in 1..Len(s) |-> t[n]] BY <1>1
<1>3. Len(t) = Len(s) BY <1>1, <1>2
<1>4. QED BY <1>1, <1>2, <1>3 DEF IsASequence

LEMMA AppendedAre ==
  ASSUME NEW s, IsASequence(s), NEW e, NEW T, e \in T, \A n \in 1..Len(s) : s[n] \in T
  PROVE  \A n \in 1..Len(Append(s, e)) : Append(s, e)[n] \in T
<1>1. /\ Len(Append(s, e)) = Len(s) + 1 /\ Len(s) \in Nat
      /\ \A n \in 1..Len(s) : Append(s, e)[n] = s[n]
      /\ Append(s, e)[Len(s) + 1] = e
  BY Appending DEF IsASequence
<1>2. \A n \in 1..Len(Append(s, e)) : n \in 1..Len(s) \/ n = Len(s) + 1 BY <1>1
<1>3. QED BY <1>1, <1>2
================================================================================
