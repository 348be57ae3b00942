---------------------------- MODULE MemoryProofs ----------------------------
(***************************************************************************)
(* What the agent remembers, proved for every fold schedule, buffer size,  *)
(* number of turns, knowledge base, merchant and number of faults.         *)
(*                                                                         *)
(* First the lists: what Python's comprehension leaves, in which order.    *)
(*                                                                         *)
(* CallMemory.  Its facts rest on one description of the state, Shape:     *)
(* which actor can be doing what.  The turn loop runs only while the call  *)
(* talks, a cost write belongs to the turn or the fold that began it, at   *)
(* most one fold is in flight, and none is once the ledger may be written. *)
(*                                                                         *)
(* Recall.  A seeder's transaction rewrites whole articles; a summary is   *)
(* written once, with its chunk or without; what a search found and what a *)
(* prompt quotes of it stay in the merchant's scope, in order, in budget.  *)
(***************************************************************************)
EXTENDS CallMemory, Recall, FiniteSetTheorems, WellFoundedInduction, SequenceTheorems,
        TLAPS

-----------------------------------------------------------------------------
(* Lists.                                                                  *)

\* A set of numbers has a least one.
LEMMA Least ==
  ASSUME NEW T, T \subseteq Nat, T # {}
  PROVE  \E n \in T : \A m \in T : n <= m
<1> DEFINE R == OpToRel(<, Nat)
<1>1. IsWellFoundedOn(R, Nat)
  BY NatLessThanWellFounded
<1>2. \A x, y \in Nat : <<x, y>> \in R <=> x < y
  BY DEF OpToRel
<1> HIDE DEF R
<1>3. PICK n \in T : \A m \in T : ~(<<m, n>> \in R)
  BY <1>1, WFMin
<1>4. \A m \in T : n \in Nat /\ m \in Nat /\ ~(m < n)
  BY <1>2, <1>3
<1>5. \A m \in T : n <= m
  BY <1>4
<1> QED BY <1>5

\* Induction up to a bound, on the set of the numbers that have been reached.
LEMMA Climbs ==
  ASSUME NEW N \in Nat, NEW G, 0 \in G,
         \A n \in 1..N : n - 1 \in G => n \in G
  PROVE  \A n \in 0..N : n \in G
<1> DEFINE T == {n \in 0..N : n \notin G}
<1>1. SUFFICES ASSUME T # {} PROVE FALSE OBVIOUS
<1>2. T \subseteq Nat OBVIOUS
<1>3. PICK n \in T : \A m \in T : n <= m BY <1>1, <1>2, Least
<1>4. n \in 0..N /\ n \notin G OBVIOUS
<1>5. n \in 1..N BY <1>4
<1>6. n - 1 \in 0..N /\ ~(n <= n - 1) BY <1>5
<1>7. n - 1 \notin T BY <1>3, <1>6
<1>8. n - 1 \in G BY <1>6, <1>7
<1> QED BY <1>4, <1>5, <1>8

\* f[n] is what n steps make of the base.
Iterated(f, S, base, step, N) ==
  f \in [0..N -> S] /\ f[0] = base /\ \A n \in 1..N : f[n] = step[n][f[n - 1]]

\* A step taken N times from a base: the function a recursive definition asks for.
LEMMA Iterates ==
  ASSUME NEW S, NEW base \in S, NEW N \in Nat, NEW step \in [1..N -> [S -> S]]
  PROVE  \E f : Iterated(f, S, base, step, N)
<1> DEFINE To(m, f) == f[0] = base /\ \A n \in 1..m : f[n] = step[n][f[n - 1]]
           G == {m \in 0..N : \E f \in [0..m -> S] : To(m, f)}
<1>1. 0 \in G
  <2> DEFINE f == [n \in 0..0 |-> base]
  <2>1. f \in [0..0 -> S] /\ To(0, f) OBVIOUS
  <2>2. 0 \in 0..N OBVIOUS
  <2> HIDE DEF f, To
  <2> QED BY <2>1, <2>2
<1>2. ASSUME NEW m \in 1..N, m - 1 \in G PROVE m \in G
  <2>0. m \in Nat /\ 1 <= m /\ m <= N OBVIOUS
  <2>1. PICK f \in [0..(m - 1) -> S] : To(m - 1, f) BY <1>2
  <2> DEFINE g == [n \in 0..m |-> IF n = m THEN step[m][f[m - 1]] ELSE f[n]]
  <2>2. f[m - 1] \in S
    <3>1. m - 1 \in 0..(m - 1) BY <2>0
    <3> QED BY <3>1
  <2>3. step[m][f[m - 1]] \in S BY <2>2
  <2>4. g \in [0..m -> S]
    <3> SUFFICES ASSUME NEW n \in 0..m PROVE g[n] \in S OBVIOUS
    <3>1. CASE n = m BY <3>1, <2>3
    <3>2. CASE n # m
      <4>1. n \in 0..(m - 1) BY <3>2
      <4> QED BY <4>1, <3>2
    <3> QED BY <3>1, <3>2
  <2>5. g[0] = base
    <3>1. 0 \in 0..m /\ 0 # m OBVIOUS
    <3> QED BY <3>1, <2>1
  <2>6. ASSUME NEW n \in 1..m PROVE g[n] = step[n][g[n - 1]]
    <3>1. n - 1 \in 0..m /\ n - 1 # m BY <2>6
    <3>2. g[n - 1] = f[n - 1] BY <3>1
    <3>3. CASE n = m
      <4>1. m \in 0..m BY <2>0
      <4>2. g[m] = step[m][f[m - 1]] BY <4>1
      <4> QED BY <3>2, <3>3, <4>2
    <3>4. CASE n # m
      <4>1. n \in 1..(m - 1) /\ n \in 0..m BY <2>6, <3>4
      <4>2. g[n] = f[n] BY <3>4, <4>1
      <4> QED BY <2>1, <3>2, <4>1, <4>2
    <3> QED BY <3>3, <3>4
  <2> HIDE DEF g
  <2>7. To(m, g) BY <2>5, <2>6
  <2>8. m \in 0..N BY <2>0
  <2> HIDE DEF To
  <2> QED BY <2>4, <2>7, <2>8
<1> HIDE DEF G
<1>3. N \in G
  <2>1. \A n \in 1..N : n - 1 \in G => n \in G BY <1>2
  <2>2. \A n \in 0..N : n \in G BY <1>1, <2>1, Climbs
  <2> QED BY <2>2
<1> QED BY <1>3 DEF G, To, Iterated

-----------------------------------------------------------------------------
\* w has the entries of seq's first n that are not in out, each from its place.
Picked(seq, out, n, w, at) ==
  /\ at \in [1..Len(w) -> 1..n]
  /\ \A k \in 1..Len(w) : w[k] = seq[at[k]]
  /\ \A j, k \in 1..Len(w) : j < k => at[j] < at[k]
  /\ \A k \in 1..Len(w) : seq[at[k]] \notin out
  /\ \A i \in 1..n : seq[i] \notin out => \E k \in 1..Len(w) : at[k] = i

Picks(seq, out, n, w) == \E at : Picked(seq, out, n, w, at)

Longer(seq, out, n, w) == IF seq[n] \in out THEN w ELSE Append(w, seq[n])

LEMMA PicksMore ==
  ASSUME NEW S, NEW seq \in Seq(S), NEW out, NEW n \in 1..Len(seq),
         NEW w \in Seq(S), Picks(seq, out, n - 1, w)
  PROVE  Longer(seq, out, n, w) \in Seq(S) /\ Picks(seq, out, n, Longer(seq, out, n, w))
<1>p. PICK at : Picked(seq, out, n - 1, w, at) BY DEF Picks
<1>0. Len(w) \in Nat /\ n \in Nat /\ Len(seq) \in Nat OBVIOUS
<1>1. CASE seq[n] \in out
  <2>1. at \in [1..Len(w) -> 1..n]
    <3>1. 1..(n - 1) \subseteq 1..n BY <1>0
    <3> QED BY <1>p, <3>1 DEF Picked
  <2>2. ASSUME NEW i \in 1..n, seq[i] \notin out PROVE \E k \in 1..Len(w) : at[k] = i
    <3>1. i # n BY <1>1, <2>2
    <3>2. i \in 1..(n - 1) BY <3>1, <1>0
    <3> QED BY <1>p, <3>2, <2>2 DEF Picked
  <2>3. Picked(seq, out, n, w, at) BY <1>p, <2>1, <2>2 DEF Picked
  <2> QED BY <1>1, <2>3 DEF Picks, Longer
<1>2. CASE seq[n] \notin out
  <2> DEFINE v == Append(w, seq[n])
             L == Len(w) + 1
             to == [k \in 1..L |-> IF k = L THEN n ELSE at[k]]
  <2>1. seq[n] \in S OBVIOUS
  <2>2. /\ v \in Seq(S) /\ Len(v) = L /\ v[L] = seq[n]
        /\ \A k \in 1..Len(w) : v[k] = w[k]
    BY <2>1
  <2>3. \A k \in 1..L : k = L \/ k \in 1..Len(w) BY <1>0
  <2>4. \A k \in 1..Len(w) : k \in 1..L /\ k # L /\ to[k] = at[k] BY <1>0
  <2>5. to[L] = n BY <1>0
  <2>6. L \in 1..L /\ n \in 1..n BY <1>0
  <2> HIDE DEF v
  <2>7. to \in [1..L -> 1..n]
    <3> SUFFICES ASSUME NEW k \in 1..L PROVE to[k] \in 1..n OBVIOUS
    <3>1. CASE k = L BY <3>1, <2>5, <2>6
    <3>2. CASE k \in 1..Len(w)
      <4>1. at[k] \in 1..(n - 1) BY <1>p, <3>2 DEF Picked
      <4> QED BY <4>1, <3>2, <2>4, <1>0
    <3> QED BY <3>1, <3>2, <2>3
  <2> HIDE DEF to
  <2>8. \A k \in 1..L : v[k] = seq[to[k]] /\ seq[to[k]] \notin out
    BY <1>p, <1>2, <2>2, <2>3, <2>4, <2>5 DEF Picked
  <2>9. ASSUME NEW j \in 1..L, NEW k \in 1..L, j < k PROVE to[j] < to[k]
    <3>1. j \in 1..Len(w) BY <2>9, <1>0
    <3>2. CASE k = L
      <4>1. at[j] \in 1..(n - 1) BY <1>p, <3>1 DEF Picked
      <4> QED BY <4>1, <3>1, <3>2, <2>4, <2>5, <1>0
    <3>3. CASE k \in 1..Len(w)
      <4>1. at[j] < at[k] BY <1>p, <2>9, <3>1, <3>3 DEF Picked
      <4> QED BY <4>1, <3>1, <3>3, <2>4
    <3> QED BY <3>2, <3>3, <2>3
  <2>10. ASSUME NEW i \in 1..n, seq[i] \notin out PROVE \E k \in 1..L : to[k] = i
    <3>1. CASE i = n BY <3>1, <2>5, <2>6
    <3>2. CASE i # n
      <4>1. i \in 1..(n - 1) BY <3>2, <1>0
      <4>2. PICK k \in 1..Len(w) : at[k] = i BY <1>p, <4>1, <2>10 DEF Picked
      <4> QED BY <4>2, <2>4
    <3> QED BY <3>1, <3>2
  <2> HIDE DEF L
  <2>11. Picked(seq, out, n, v, to)
    BY <1>p, <2>2, <2>7, <2>8, <2>9, <2>10 DEF Picked
  <2> QED BY <1>2, <2>2, <2>11 DEF v, Picks, Longer
<1> QED BY <1>1, <1>2

\* Without(seq, out) is what it says.
LEMMA WithoutFacts ==
  ASSUME NEW S, NEW seq \in Seq(S), NEW out
  PROVE  /\ Without(seq, out) \in Seq(S)
         /\ Picks(seq, out, Len(seq), Without(seq, out))
<1> DEFINE N == Len(seq)
           Step(n, w) == Longer(seq, out, n, w)
           step == [n \in 1..N |-> [w \in Seq(S) |-> Step(n, w)]]
           Body(f, n) == IF n = 0 THEN <<>> ELSE Step(n, f[n - 1])
           Is(f) == f = [n \in 0..N |-> Body(f, n)]
<1>0. N \in Nat OBVIOUS
<1>1. ASSUME NEW n \in 1..N, NEW w \in Seq(S)
      PROVE  Step(n, w) \in Seq(S) /\ step[n][w] = Step(n, w)
  <2>1. seq[n] \in S OBVIOUS
  <2>2. Append(w, seq[n]) \in Seq(S) BY <2>1
  <2> QED BY <2>2 DEF Longer
<1>2. step \in [1..N -> [Seq(S) -> Seq(S)]]
  <2> SUFFICES ASSUME NEW n \in 1..N, NEW w \in Seq(S) PROVE Step(n, w) \in Seq(S) OBVIOUS
  <2> QED BY <1>1
<1>3. <<>> \in Seq(S) OBVIOUS
<1> HIDE DEF N, step, Step
<1>4. PICK f : Iterated(f, Seq(S), <<>>, step, N)
  <2> DEFINE T == Seq(S)
  <2>1. <<>> \in T /\ step \in [1..N -> [T -> T]] BY <1>2, <1>3
  <2> HIDE DEF T
  <2>2. \E f : Iterated(f, T, <<>>, step, N) BY <1>0, <2>1, Iterates
  <2> QED BY <2>2 DEF T
<1>5. ASSUME NEW n \in 0..N PROVE f[n] = Body(f, n)
  <2>1. CASE n = 0 BY <2>1, <1>4 DEF Iterated
  <2>2. CASE n # 0
    <3>1. n \in 1..N /\ n - 1 \in 0..N BY <2>2, <1>0
    <3>2. f[n - 1] \in Seq(S) BY <3>1, <1>4 DEF Iterated
    <3> QED BY <2>2, <3>1, <3>2, <1>1, <1>4 DEF Iterated
  <2> QED BY <2>1, <2>2
<1>6. Is(f)
  <2>1. f = [n \in 0..N |-> f[n]] BY <1>4 DEF Iterated
  <2> QED BY <2>1, <1>5
<1> DEFINE g == CHOOSE h : Is(h)
<1>7. Is(g) BY <1>6
<1>8. Without(seq, out) = g[N] BY DEF Without, N, Step, Longer
<1> HIDE DEF g
<1>9. \A n \in 0..N : g[n] = Body(g, n) BY <1>7
<1> DEFINE G == {n \in 0..N : g[n] \in Seq(S) /\ Picks(seq, out, n, g[n])}
<1>10. 0 \in G
  <2>0. 0 \in 0..N BY <1>0
  <2>1. g[0] = <<>> BY <2>0, <1>9
  <2>2. Picks(seq, out, 0, <<>>)
    <3> DEFINE at == [k \in 1..0 |-> 0]
    <3>1. Picked(seq, out, 0, <<>>, at) BY DEF Picked
    <3> QED BY <3>1 DEF Picks
  <2> QED BY <2>0, <1>3, <2>1, <2>2
<1>11. ASSUME NEW n \in 1..N, n - 1 \in G PROVE n \in G
  <2>1. n \in 0..N /\ n # 0 BY <1>0, <1>11
  <2>2. g[n] = Step(n, g[n - 1]) BY <2>1, <1>9
  <2>3. g[n - 1] \in Seq(S) /\ Picks(seq, out, n - 1, g[n - 1]) BY <1>11
  <2>4. n \in 1..Len(seq) BY <1>11 DEF N
  <2>5. /\ Longer(seq, out, n, g[n - 1]) \in Seq(S)
        /\ Picks(seq, out, n, Longer(seq, out, n, g[n - 1]))
    BY <2>3, <2>4, PicksMore
  <2> QED BY <2>1, <2>2, <2>5 DEF Step
<1> HIDE DEF G, Body
<1>12. \A n \in 0..N : n \in G BY <1>0, <1>10, <1>11, Climbs
<1>13. N \in G BY <1>0, <1>12
<1> QED BY <1>8, <1>13 DEF G, N

\* What is left out of a list, what stays, and which entry comes first.
LEMMA WithoutIs ==
  ASSUME NEW S, NEW seq \in Seq(S), NEW out, NEW w, w = Without(seq, out)
  PROVE  /\ w \in Seq(S)
         /\ ToSet(w) = ToSet(seq) \ out
         /\ IsInjective(seq) => IsInjective(w)
         /\ w # <<>> => \E i \in 1..Len(seq) :
              /\ w[1] = seq[i] /\ seq[i] \notin out
              /\ \A j \in 1..Len(seq) : j < i => seq[j] \in out
<1>1. w \in Seq(S) /\ Picks(seq, out, Len(seq), w) BY WithoutFacts
<1>2. PICK at : Picked(seq, out, Len(seq), w, at) BY <1>1 DEF Picks
<1>3. /\ at \in [1..Len(w) -> 1..Len(seq)]
      /\ \A k \in 1..Len(w) : w[k] = seq[at[k]] /\ seq[at[k]] \notin out
  BY <1>2 DEF Picked
<1>4. \A i \in 1..Len(seq) : seq[i] \notin out => \E k \in 1..Len(w) : at[k] = i
  BY <1>2 DEF Picked
<1>5. \A j, k \in 1..Len(w) : j < k => at[j] < at[k] BY <1>2 DEF Picked
<1>6. Len(w) \in Nat /\ Len(seq) \in Nat /\ DOMAIN w = 1..Len(w) /\ DOMAIN seq = 1..Len(seq)
  BY <1>1
<1>7. ToSet(w) = ToSet(seq) \ out
  <2>1. \A e \in ToSet(w) : e \in ToSet(seq) \ out
    <3> SUFFICES ASSUME NEW k \in 1..Len(w) PROVE w[k] \in ToSet(seq) \ out
      BY <1>6 DEF ToSet
    <3>1. at[k] \in 1..Len(seq) /\ w[k] = seq[at[k]] /\ seq[at[k]] \notin out BY <1>3
    <3> QED BY <1>6, <3>1 DEF ToSet
  <2>2. \A e \in ToSet(seq) \ out : e \in ToSet(w)
    <3> SUFFICES ASSUME NEW i \in 1..Len(seq), seq[i] \notin out PROVE seq[i] \in ToSet(w)
      BY <1>6 DEF ToSet
    <3>1. PICK k \in 1..Len(w) : at[k] = i BY <1>4
    <3>2. w[k] = seq[i] BY <1>3, <3>1
    <3> QED BY <1>6, <3>2 DEF ToSet
  <2> QED BY <2>1, <2>2
<1>8. ASSUME IsInjective(seq), NEW j \in 1..Len(w), NEW k \in 1..Len(w), w[j] = w[k]
      PROVE  j = k
  <2>1. at[j] \in 1..Len(seq) /\ at[k] \in 1..Len(seq) /\ seq[at[j]] = seq[at[k]]
    BY <1>3, <1>8
  <2>2. at[j] = at[k] BY <1>6, <1>8, <2>1 DEF IsInjective
  <2>3. ~(j < k) /\ ~(k < j) BY <1>5, <2>1, <2>2
  <2> QED BY <1>6, <2>3
<1>9. IsInjective(seq) => IsInjective(w) BY <1>6, <1>8 DEF IsInjective
<1>10. ASSUME w # <<>>
       PROVE  \E i \in 1..Len(seq) :
                /\ w[1] = seq[i] /\ seq[i] \notin out
                /\ \A j \in 1..Len(seq) : j < i => seq[j] \in out
  <2>1. 1 \in 1..Len(w) BY <1>1, <1>10
  <2>2. at[1] \in 1..Len(seq) /\ w[1] = seq[at[1]] /\ seq[at[1]] \notin out
    BY <1>3, <2>1
  <2>3. ASSUME NEW j \in 1..Len(seq), j < at[1], seq[j] \notin out PROVE FALSE
    <3>1. PICK k \in 1..Len(w) : at[k] = j BY <1>4, <2>3
    <3>2. 1 < k \/ k = 1 BY <1>6
    <3>3. ~(at[1] < at[k]) BY <1>3, <2>2, <2>3, <3>1
    <3>4. k # 1 BY <2>2, <2>3, <3>1
    <3> QED BY <1>5, <2>1, <3>2, <3>3, <3>4
  <2> QED BY <2>2, <2>3
<1> QED BY <1>1, <1>7, <1>9, <1>10

\* A list without repetitions is as long as it has entries.
LEMMA DistinctLength ==
  ASSUME NEW S, NEW w \in Seq(S), IsInjective(w)
  PROVE  IsFiniteSet(ToSet(w)) /\ Cardinality(ToSet(w)) = Len(w)
<1>1. Len(w) \in Nat /\ DOMAIN w = 1..Len(w) OBVIOUS
<1>2. w \in [1..Len(w) -> ToSet(w)] BY <1>1 DEF ToSet
<1>3. \A t \in ToSet(w) : \E k \in 1..Len(w) : w[k] = t BY <1>1 DEF ToSet
<1>4. w \in Bijection(1..Len(w), ToSet(w))
  BY <1>2, <1>3 DEF Bijection, Injection, Surjection
<1>5. ExistsBijection(1..Len(w), ToSet(w)) BY <1>4 DEF ExistsBijection
<1>6. IsFiniteSet(1..Len(w)) /\ Cardinality(1..Len(w)) = Len(w)
  BY <1>1, FS_Interval
<1> QED BY <1>5, <1>6, FS_Bijection

LEMMA LeftOutLength ==
  ASSUME NEW S, NEW w \in Seq(S), IsInjective(w), NEW out, out \subseteq ToSet(w)
  PROVE  Len(Without(w, out)) = Len(w) - Cardinality(out)
<1> DEFINE v == Without(w, out)
<1>1. v \in Seq(S) /\ IsInjective(v) /\ ToSet(v) = ToSet(w) \ out BY WithoutIs
<1>2. IsFiniteSet(ToSet(w)) /\ Cardinality(ToSet(w)) = Len(w) BY DistinctLength
<1> HIDE DEF v
<1>3. Cardinality(ToSet(v)) = Len(v) BY <1>1, DistinctLength
<1>4. ToSet(w) \cap out = out OBVIOUS
<1>5. Cardinality(ToSet(w) \ out) = Cardinality(ToSet(w)) - Cardinality(ToSet(w) \cap out)
  BY <1>2, FS_Difference
<1> QED BY <1>1, <1>2, <1>3, <1>4, <1>5 DEF v

\* A run of entries out of the middle of a list.
LEMMA PartIs ==
  ASSUME NEW S, NEW w \in Seq(S), NEW a \in 1..(Len(w) + 1), NEW b \in 0..Len(w), a <= b + 1
  PROVE  /\ SubSeq(w, a, b) \in Seq(S) /\ Len(SubSeq(w, a, b)) = b - a + 1
         /\ \A k \in 1..(b - a + 1) : SubSeq(w, a, b)[k] = w[a + k - 1]
         /\ ToSet(SubSeq(w, a, b)) \subseteq ToSet(w)
         /\ IsInjective(w) => IsInjective(SubSeq(w, a, b))
<1> DEFINE v == SubSeq(w, a, b)
<1>1. Len(w) \in Nat /\ DOMAIN w = 1..Len(w) /\ a \in Nat /\ b \in Nat OBVIOUS
<1>2. /\ v \in Seq(S) /\ Len(v) = b - a + 1
      /\ \A k \in 1..(b - a + 1) : v[k] = w[a + k - 1]
  BY <1>1, SubSeqProperties
<1> HIDE DEF v
<1>3. DOMAIN v = 1..(b - a + 1) BY <1>2
<1>4. \A k \in 1..(b - a + 1) : a + k - 1 \in 1..Len(w) BY <1>1
<1>5. ToSet(v) \subseteq ToSet(w) BY <1>1, <1>2, <1>3, <1>4 DEF ToSet
<1>6. IsInjective(w) => IsInjective(v)
  <2> SUFFICES ASSUME IsInjective(w), NEW j \in 1..(b - a + 1), NEW k \in 1..(b - a + 1),
                      v[j] = v[k]
               PROVE  j = k
    BY <1>3 DEF IsInjective
  <2>1. w[a + j - 1] = w[a + k - 1] BY <1>2
  <2>2. a + j - 1 = a + k - 1 BY <2>1, <1>1, <1>4 DEF IsInjective
  <2> QED BY <2>2, <1>1
<1> QED BY <1>2, <1>5, <1>6 DEF v

-----------------------------------------------------------------------------
(* The memory of one call.                                                 *)

Phases == {"talking", "draining", "ending", "summary", "profile", "done", "dead"}
Rolling == {None} \cup [thru : Int, of : SUBSET Int]
Fold == [thru : Int, of : SUBSET Int, at : {"model", "billing", "writing"}, ok : BOOLEAN]
Writers == {"turn", "fold"}

Types ==
  /\ phase \in Phases
  /\ turnNo \in Nat /\ turn \in {"idle", "thinking", "billing", "apology"}
  /\ buffer \in SUBSET Int
  /\ summary \in Rolling /\ stored \in Rolling
  /\ folds \in SUBSET Fold
  /\ records \in Nat /\ media \in Nat /\ published \in Nat /\ counter \in Nat
  /\ rmw \in [Writers -> {None} \cup [read : {None} \cup Nat, delta : Nat]]
  /\ ledger \in {None} \cup [turns : Nat, total : Nat]
  /\ tail \in Nat

Shape ==
  /\ Types
  /\ published <= media
  /\ turn # "idle" => phase = "talking"
  /\ rmw["turn"] # None => turn = "billing"
  /\ rmw["fold"] # None => \E f \in folds : f.at = "billing"
  /\ \A f, g \in folds : f = g
  /\ phase \notin {"talking", "draining"} => folds = {}
  /\ phase \in {"talking", "draining"} => ledger = None /\ tail = 0
  /\ phase = "summary" => ledger # None
  /\ merges = [c \in Calls |-> merges[c]]
  /\ \A c \in Calls : merges[c] # None => phase \in {"profile", "done"}

LEMMA InitShape == Init => Shape
BY MemoryAssumption DEF Init, Shape, Types, Phases, Rolling, Fold, Writers

\* The groups of variables an action leaves alone.
LEMMA ShapeStutter == Shape /\ UNCHANGED vars => Shape'
BY DEF Shape, Types, vars, turnVars, foldVars, costVars, endVars, profVars

LEMMA KickShape ==
  ASSUME Types, NEW n \in Nat, NEW b \in SUBSET Int, Kick(n, b), \A f, g \in folds : f = g
  PROVE  /\ folds' \in SUBSET Fold
         /\ \A f, g \in folds' : f = g
         /\ folds \subseteq folds'
PROOF
<1>1. SummaryThruTurn(n) \in Int
  BY MemoryAssumption DEF SummaryThruTurn
<1>2. FoldTask(SummaryThruTurn(n), b) \in Fold
  BY <1>1 DEF FoldTask, RenderPrompt, Covered, Types, Rolling, Fold
<1>3. CASE folds' = folds
  BY <1>3 DEF Types
<1>4. CASE folds = {} /\ folds' = {FoldTask(SummaryThruTurn(n), b)}
  BY <1>2, <1>4
<1> QED BY <1>3, <1>4 DEF Kick

LEMMA NextShape == Shape /\ [Next]_vars => Shape'
<1> SUFFICES ASSUME Shape, [Next]_vars PROVE Shape'
  OBVIOUS
<1> USE DEF Shape, Types, Phases, Writers, turnVars, foldVars, costVars, endVars, profVars
<1>1. CASE StartTurn
  BY <1>1 DEF StartTurn
<1>2. CASE Usage
  <2>1. media - published \in Nat
    OBVIOUS
  <2> QED BY <1>2, <2>1 DEF Usage, TakeUnpublishedMediaCost
<1>3. CASE Meter
  BY <1>3 DEF Meter
<1>4. CASE FinishTurn
  <2>1. buffer' \in SUBSET Int
    BY <1>4 DEF FinishTurn, Observe
  <2>2. /\ folds' \in SUBSET Fold
        /\ \A f, g \in folds' : f = g
        /\ folds \subseteq folds'
    BY <1>4, <2>1, KickShape DEF FinishTurn
  <2> QED BY <1>4, <2>1, <2>2 DEF FinishTurn
<1>5. ASSUME NEW a \in {"turn", "fold"}, ReadCost(a) PROVE Shape'
  BY <1>5 DEF ReadCost
<1>6. ASSUME NEW a \in {"turn", "fold"}, WriteCost(a) PROVE Shape'
  <2>1. folds' \in SUBSET Fold /\ \A f, g \in folds' : f = g
    BY <1>6 DEF WriteCost, Fold
  <2> QED BY <1>6, <2>1 DEF WriteCost
<1>7. ASSUME NEW a \in {"turn", "fold"}, CostFails(a) PROVE Shape'
  BY <1>7 DEF CostFails
<1>8. CASE FoldAnswers
  <2>1. PICK f \in folds : \E ok \in BOOLEAN :
          /\ f.at = "model"
          /\ folds' = (folds \ {f}) \cup {[f EXCEPT !.at = "billing", !.ok = ok]}
    BY <1>8 DEF FoldAnswers
  <2>5. PICK ok \in BOOLEAN :
          folds' = (folds \ {f}) \cup {[f EXCEPT !.at = "billing", !.ok = ok]}
    BY <2>1
  <2>2. [f EXCEPT !.at = "billing", !.ok = ok] \in Fold
    BY ZenonT(30) DEF Fold
  <2>3. folds' = {[f EXCEPT !.at = "billing", !.ok = ok]}
    BY <2>5
  <2>4. [f EXCEPT !.at = "billing", !.ok = ok].at = "billing"
    BY DEF Fold
  <2>6. /\ rmw' \in [Writers -> {None} \cup [read : {None} \cup Nat, delta : Nat]]
        /\ rmw'["turn"] = rmw["turn"]
        /\ records' \in Nat
    BY <1>8 DEF FoldAnswers, Consume
  <2>7. folds # {} /\ \E g \in folds' : g.at = "billing"
    BY <2>3, <2>4
  <2>8. folds' \in SUBSET Fold /\ \A f1, g \in folds' : f1 = g
    BY <2>2, <2>3
  <2>9. UNCHANGED <<phase, turnVars, buffer, dropped, summary, stored, media, published,
                    counter, endVars, profVars>>
    BY <1>8 DEF FoldAnswers
  <2> QED BY <2>6, <2>7, <2>8, <2>9
<1>9. CASE FoldFails
  BY <1>9 DEF FoldFails
<1>10. CASE FoldWrites
  BY <1>10 DEF FoldWrites, Rolling, Fold
<1>11. CASE HangUp
  BY <1>11 DEF HangUp
<1>12. CASE Finalize
  BY <1>12 DEF Finalize, Ledger
<1>13. CASE End
  BY <1>13 DEF End
<1>14. CASE SaveSummary
  BY <1>14 DEF SaveSummary, Folded, RenderPrompt, Covered, Rolling
<1>15. ASSUME NEW c \in Calls, MergeRead(c) PROVE Shape'
  BY <1>15 DEF MergeRead, MayMerge
<1>16. ASSUME NEW c \in Calls, MergeWrite(c) PROVE Shape'
  <2>1. phase \in {"profile", "done"} /\ phase' \in {"profile", "done"}
    BY <1>16 DEF MergeWrite, Merging, MergeOver
  <2>2. merges' = [d \in Calls |-> merges'[d]]
    BY <1>16 DEF MergeWrite, MergeOver
  <2> QED BY <1>16, <2>1, <2>2 DEF MergeWrite, MergeOver
<1>17. ASSUME NEW c \in Calls, MergeFails(c) PROVE Shape'
  <2>1. phase \in {"profile", "done"} /\ phase' \in {"profile", "done"}
    BY <1>17 DEF MergeFails, Merging, MergeOver
  <2>2. merges' = [d \in Calls |-> merges'[d]]
    BY <1>17 DEF MergeFails, MergeOver
  <2> QED BY <1>17, <2>1, <2>2 DEF MergeFails, MergeOver
<1> QED
  BY <1>1, <1>2, <1>3, <1>4, <1>5, <1>6, <1>7, <1>8, <1>9, <1>10, <1>11, <1>12, <1>13, <1>14,
     <1>15, <1>16, <1>17, ShapeStutter DEF Next

\* Shape holds in every state a call reaches.
THEOREM CallShape == Spec => []Shape
BY InitShape, NextShape, PTL DEF Spec

-----------------------------------------------------------------------------
(* The cost counter.                                                       *)

\* What a writer that has begun add_cost will still add.
Owed(a) == IF rmw[a] = None THEN 0 ELSE rmw[a].delta

\* Both writers' deltas are already in records or published when they begin, so
\* whichever value the last write started from, the sum is covered.
Accounted ==
  /\ counter + Owed("turn") + Owed("fold") <= records + published
  /\ \A a \in Writers :
       rmw[a] # None /\ rmw[a].read # None =>
         rmw[a].read + Owed("turn") + Owed("fold") <= records + published

LEMMA OwedNat == Shape => /\ Owed("turn") \in Nat /\ Owed("fold") \in Nat
                          /\ \A a \in Writers : rmw[a] # None => Owed(a) = rmw[a].delta
BY DEF Shape, Types, Writers, Owed

LEMMA OwedNatNext == Shape' => Owed("turn")' \in Nat /\ Owed("fold")' \in Nat
BY DEF Shape, Types, Writers, Owed

LEMMA NextAccounted == Shape /\ Shape' /\ Accounted /\ [Next]_vars => Accounted'
<1> SUFFICES ASSUME Shape, Shape', Accounted, [Next]_vars PROVE Accounted'
  OBVIOUS
<1> USE DEF turnVars, foldVars, costVars, endVars, profVars
<1>0. CASE UNCHANGED <<counter, rmw, records, published>>
  BY <1>0 DEF Accounted, Owed
<1>1. CASE Usage
  <2>1. rmw["turn"] = None /\ Owed("turn") = 0
    BY <1>1 DEF Usage, Shape, Owed
  <2>2. /\ records' + published' = records + published + 1 + (media - published)
        /\ counter' = counter /\ rmw'["fold"] = rmw["fold"]
        /\ rmw'["turn"] = [read |-> None, delta |-> 1 + (media - published)]
    BY <1>1 DEF Usage, TakeUnpublishedMediaCost, Shape, Types, Writers
  <2>3. Owed("turn")' <= 1 + (media - published) /\ Owed("fold")' = Owed("fold")
    BY <2>2 DEF Owed, Shape, Types
  <2>4. Owed("turn") \in Nat /\ Owed("fold") \in Nat /\ Owed("turn")' \in Nat
    BY OwedNat, OwedNatNext
  <2> QED BY <2>1, <2>2, <2>3, <2>4 DEF Accounted, Shape, Types, Writers
<1>2. ASSUME NEW a \in {"turn", "fold"}, ReadCost(a) PROVE Accounted'
  <2>1. UNCHANGED <<counter, records, published>>
    BY <1>2 DEF ReadCost
  <2>2. /\ rmw'[a] = [read |-> counter, delta |-> rmw[a].delta]
        /\ rmw[a] # None
        /\ \A b \in Writers : b # a => rmw'[b] = rmw[b]
    BY <1>2 DEF ReadCost, Shape, Types, Writers
  <2>3. Owed(a)' <= Owed(a) /\ \A b \in Writers : b # a => Owed(b)' = Owed(b)
    BY <2>2 DEF Owed, Shape, Types, Writers
  <2>4. Owed("turn") \in Nat /\ Owed("fold") \in Nat
        /\ Owed("turn")' \in Nat /\ Owed("fold")' \in Nat
    BY OwedNat, OwedNatNext
  <2> QED BY <2>1, <2>2, <2>3, <2>4 DEF Accounted, Shape, Types, Writers
<1>3. ASSUME NEW a \in {"turn", "fold"}, WriteCost(a) \/ CostFails(a) PROVE Accounted'
  <2>1. /\ UNCHANGED <<records, published>> /\ rmw[a] # None
        /\ rmw' = [rmw EXCEPT ![a] = None]
        /\ \/ counter' = counter
           \/ rmw[a].read # None /\ counter' = rmw[a].read + rmw[a].delta
    BY <1>3 DEF WriteCost, CostFails
  <2>2. rmw'[a] = None /\ \A b \in Writers : b # a => rmw'[b] = rmw[b]
    BY <2>1 DEF Shape, Types, Writers
  <2>3. Owed(a)' = 0 /\ Owed(a) = rmw[a].delta /\ \A b \in Writers : b # a => Owed(b)' = Owed(b)
    BY <2>1, <2>2 DEF Owed
  <2>4. Owed("turn") \in Nat /\ Owed("fold") \in Nat
    BY OwedNat
  <2> QED BY <2>1, <2>2, <2>3, <2>4 DEF Accounted, Shape, Types, Writers
<1>4. CASE FoldAnswers
  <2>1. rmw["fold"] = None /\ Owed("fold") = 0
    BY <1>4 DEF FoldAnswers, Shape, Owed
  <2>2. /\ records' = records + 1 /\ UNCHANGED <<published, counter>>
        /\ rmw'["turn"] = rmw["turn"]
        /\ rmw'["fold"] = [read |-> None, delta |-> 1]
    BY <1>4 DEF FoldAnswers, Consume, Shape, Types, Writers
  <2>3. Owed("fold")' <= 1 /\ Owed("turn")' = Owed("turn")
    BY <2>2 DEF Owed
  <2>4. Owed("turn") \in Nat /\ Owed("fold")' \in Nat
    BY OwedNat, OwedNatNext
  <2> QED BY <2>1, <2>2, <2>3, <2>4 DEF Accounted, Shape, Types, Writers
<1>5. CASE HangUp
  <2>1. /\ UNCHANGED <<records, published>>
        /\ rmw' = [rmw EXCEPT !["turn"] = None]
        /\ \/ counter' = counter
           \/ /\ rmw["turn"] # None /\ rmw["turn"].read # None
              /\ counter' = rmw["turn"].read + rmw["turn"].delta
    BY <1>5 DEF HangUp
  <2>2. rmw'["turn"] = None /\ rmw'["fold"] = rmw["fold"]
    BY <2>1 DEF Shape, Types, Writers
  <2>3. Owed("turn")' = 0 /\ Owed("fold")' = Owed("fold")
        /\ (rmw["turn"] # None => Owed("turn") = rmw["turn"].delta)
    BY <2>2 DEF Owed
  <2>4. Owed("turn") \in Nat /\ Owed("fold") \in Nat
    BY OwedNat
  <2> QED BY <2>1, <2>2, <2>3, <2>4 DEF Accounted, Shape, Types, Writers
<1>6. CASE SaveSummary
  <2>1. /\ UNCHANGED <<rmw, published>>
        /\ \/ UNCHANGED <<records, counter>>
           \/ records' = records + 1 /\ counter' \in {counter, counter + 1}
    BY <1>6 DEF SaveSummary
  <2>2. Owed("turn")' = Owed("turn") /\ Owed("fold")' = Owed("fold")
    BY <2>1 DEF Owed
  <2>3. Owed("turn") \in Nat /\ Owed("fold") \in Nat
    BY OwedNat
  <2> QED BY <2>1, <2>2, <2>3 DEF Accounted, Shape, Types, Writers
<1>7. CASE UNCHANGED vars
  BY <1>0, <1>7 DEF vars
<1>8. CASE StartTurn \/ Meter \/ FinishTurn \/ FoldFails \/ FoldWrites \/ Finalize \/ End
  BY <1>0, <1>8 DEF StartTurn, Meter, FinishTurn, FoldFails, FoldWrites, Finalize, End
<1>9. ASSUME NEW c \in Calls, MergeRead(c) \/ MergeWrite(c) \/ MergeFails(c) PROVE Accounted'
  BY <1>0, <1>9 DEF MergeRead, MergeWrite, MergeFails, MergeOver
<1> QED BY <1>1, <1>2, <1>3, <1>4, <1>5, <1>6, <1>7, <1>8, <1>9 DEF Next

\* The counter a budget watchdog reads never shows more than the call has spent,
\* however the turn loop's read and write interleave with the fold's.
THEOREM CounterIsConservative == Spec => []CounterNeverOverstates
<1>1. Init => Accounted
  BY DEF Init, Accounted, Owed, Writers
<1>2. Shape /\ Accounted => CounterNeverOverstates
  BY OwedNat DEF Shape, Types, Accounted, CounterNeverOverstates
<1> QED BY <1>1, <1>2, NextAccounted, CallShape, PTL DEF Spec

-----------------------------------------------------------------------------
(* The ledger row.                                                         *)

\* Once the row is there only the saved summary's own completion is recorded.
RowAddsUp == ledger # None => ledger.total = records - tail + media

LEMMA NextRowAddsUp == Shape /\ RowAddsUp /\ [Next]_vars => RowAddsUp'
<1> SUFFICES ASSUME Shape, RowAddsUp, [Next]_vars PROVE RowAddsUp'
  OBVIOUS
<1> USE DEF turnVars, foldVars, costVars, endVars, profVars
<1>0. CASE UNCHANGED <<ledger, records, tail, media>>
  BY <1>0 DEF RowAddsUp
<1>1. CASE UNCHANGED ledger /\ phase \in {"talking", "draining"}
  BY <1>1 DEF RowAddsUp, Shape
<1>2. CASE Usage \/ Meter
  BY <1>1, <1>2 DEF Usage, Meter, Shape
<1>3. CASE FoldAnswers
  BY <1>1, <1>3 DEF FoldAnswers, Shape
<1>4. CASE Finalize
  BY <1>0, <1>4 DEF Finalize, Ledger, RowAddsUp, Shape, Types
<1>5. CASE SaveSummary
  <2>1. UNCHANGED <<ledger, media>>
    BY <1>5 DEF SaveSummary
  <2>2. UNCHANGED <<records, tail>> \/ (records' = records + 1 /\ tail' = tail + 1)
    BY <1>5 DEF SaveSummary
  <2> QED BY <1>0, <2>1, <2>2 DEF RowAddsUp, Shape, Types
<1>6. CASE UNCHANGED vars
  BY <1>0, <1>6 DEF vars
<1>7. CASE StartTurn \/ FinishTurn \/ FoldFails \/ FoldWrites \/ HangUp \/ End
  BY <1>0, <1>7 DEF StartTurn, FinishTurn, FoldFails, FoldWrites, HangUp, End
<1>8. ASSUME NEW a \in {"turn", "fold"}, ReadCost(a) \/ WriteCost(a) \/ CostFails(a)
      PROVE RowAddsUp'
  BY <1>0, <1>8 DEF ReadCost, WriteCost, CostFails
<1>9. ASSUME NEW c \in Calls, MergeRead(c) \/ MergeWrite(c) \/ MergeFails(c) PROVE RowAddsUp'
  BY <1>0, <1>9 DEF MergeRead, MergeWrite, MergeFails, MergeOver
<1> QED BY <1>2, <1>3, <1>4, <1>5, <1>6, <1>7, <1>8, <1>9 DEF Next

\* The row the call is billed from holds the folds' completions as well as the turns',
\* and nothing is spent behind it but the final summary.
THEOREM LedgerIsWhole == Spec => []LedgerHoldsCall
<1>1. Init => RowAddsUp
  BY DEF Init, RowAddsUp
<1>2. Shape /\ RowAddsUp => LedgerHoldsCall
  BY DEF Shape, RowAddsUp, LedgerHoldsCall
<1> QED BY <1>1, <1>2, NextRowAddsUp, CallShape, PTL DEF Spec

\* The counter and the ledger row together.
THEOREM MoneyKept == Spec => []MoneyAddsUp
BY CounterIsConservative, LedgerIsWhole, PTL DEF MoneyAddsUp

-----------------------------------------------------------------------------
(* The rolling summary.                                                    *)

\* The turns that have ended, and so have been handed to observe_turn.
Finished == IF turn = "idle" THEN turnNo ELSE turnNo - 1
Observed == 1..(IF turn = "idle" /\ phase = "talking" THEN turnNo ELSE turnNo - 1)

\* The task's own summary never falls behind what left its buffer, and a fold in
\* flight carries everything its landing will take out of it.
Kept ==
  /\ Observed \subseteq Covered(summary) \cup buffer \cup dropped
  /\ Observed \subseteq Covered(stored) \cup buffer \cup dropped
  /\ \A f \in folds : /\ Covered(summary) \subseteq f.of
                      /\ \A t \in buffer : t <= f.thru => t \in f.of
                      /\ f.thru < turnNo

LEMMA RollingCovers ==
  ASSUME NEW n \in Int, NEW S \in SUBSET Int
  PROVE  Covered([thru |-> n, of |-> S]) = S /\ Thru([thru |-> n, of |-> S]) = n
<1>1. [thru |-> n, of |-> S] \in [thru : Int, of : SUBSET Int]
  OBVIOUS
<1>2. None \notin [thru : Int, of : SUBSET Int]
  BY MemoryAssumption
<1>3. [thru |-> n, of |-> S] # None
  BY <1>1, <1>2
<1> QED BY <1>3 DEF Covered, Thru

LEMMA NextKept == Shape /\ Shape' /\ Kept /\ [Next]_vars => Kept'
<1> SUFFICES ASSUME Shape, Shape', Kept, [Next]_vars PROVE Kept'
  OBVIOUS
<1> USE DEF turnVars, foldVars, costVars, endVars, profVars
<1>0. CASE /\ UNCHANGED <<buffer, dropped, summary, stored>>
           /\ Observed' \subseteq Observed /\ turnNo' >= turnNo
           /\ \A f \in folds' : \E g \in folds : f.of = g.of /\ f.thru = g.thru
  <2>1. Covered(summary)' = Covered(summary) /\ Covered(stored)' = Covered(stored)
    BY <1>0 DEF Covered
  <2>2. ASSUME NEW f \in folds'
        PROVE  /\ Covered(summary)' \subseteq f.of
               /\ \A t \in buffer' : t <= f.thru => t \in f.of
               /\ f.thru < turnNo'
    <3>1. PICK g \in folds : f.of = g.of /\ f.thru = g.thru
      BY <1>0
    <3>2. g.thru \in Int /\ g.thru < turnNo /\ turnNo' >= turnNo
      BY <1>0 DEF Shape, Types, Fold, Kept
    <3>3. g.thru < turnNo'
      BY <3>2 DEF Shape, Types
    <3> QED BY <1>0, <2>1, <3>1, <3>3 DEF Kept
  <2> QED BY <1>0, <2>1, <2>2 DEF Kept
<1>1. CASE StartTurn
  BY <1>0, <1>1 DEF StartTurn, Observed, Shape, Types
<1>2. CASE Usage \/ Meter
  BY <1>0, <1>2 DEF Usage, Meter, Observed, Shape, Types
<1>3. CASE FinishTurn
  <2>1. /\ Observe(buffer \cup {turnNo}) /\ Kick(turnNo, buffer')
        /\ UNCHANGED <<phase, turnNo, summary, stored>>
    BY <1>3 DEF FinishTurn
  <2>2. buffer' \subseteq buffer \cup {turnNo}
        /\ buffer' \cup dropped' = buffer \cup {turnNo} \cup dropped
    BY <2>1 DEF Observe, Shed
  <2>3. Observed' \subseteq Observed \cup {turnNo}
    BY <1>3 DEF FinishTurn, Observed, Shape, Types
  <2>4. Covered(summary)' = Covered(summary) /\ Covered(stored)' = Covered(stored)
    BY <2>1 DEF Covered
  <2>5. ASSUME NEW f \in folds'
        PROVE  /\ Covered(summary) \subseteq f.of
               /\ \A t \in buffer' : t <= f.thru => t \in f.of
               /\ f.thru < turnNo
    <3>1. CASE f \in folds
      BY <2>2, <3>1 DEF Kept, Shape, Types, Fold
    <3>2. CASE f = FoldTask(SummaryThruTurn(turnNo), buffer')
      <4>1. WINDOW_TURNS \in Nat \ {0} BY MemoryAssumption
      <4>2. f.thru = turnNo - WINDOW_TURNS BY <3>2 DEF FoldTask, SummaryThruTurn
      <4>3. f.of = Covered(summary) \cup {t \in buffer' : t <= f.thru}
        BY <3>2 DEF FoldTask, RenderPrompt
      <4>4. turnNo \in Nat BY DEF Shape, Types
      <4> QED BY <4>1, <4>2, <4>3, <4>4
    <3> QED BY <2>1, <3>1, <3>2 DEF Kick
  <2> QED BY <2>1, <2>2, <2>3, <2>4, <2>5 DEF Kept
<1>4. ASSUME NEW a \in {"turn", "fold"}, ReadCost(a) PROVE Kept'
  BY <1>0, <1>4 DEF ReadCost, Observed, Shape, Types
<1>5. ASSUME NEW a \in {"turn", "fold"}, WriteCost(a) \/ CostFails(a) PROVE Kept'
  <2>1. Observed' = Observed /\ turnNo' = turnNo
    BY <1>5 DEF WriteCost, CostFails, Observed, Shape
  <2>2. \A f \in folds' : \E g \in folds : f.of = g.of /\ f.thru = g.thru
    BY <1>5 DEF WriteCost, CostFails, Shape, Types, Fold
  <2>3. UNCHANGED <<buffer, dropped, summary, stored>>
    BY <1>5 DEF WriteCost, CostFails
  <2> QED BY <1>0, <2>1, <2>2, <2>3 DEF Shape, Types
<1>6. CASE FoldAnswers
  <2>1. \A f \in folds' : \E g \in folds : f.of = g.of /\ f.thru = g.thru
    BY <1>6 DEF FoldAnswers, Shape, Types, Fold
  <2> QED BY <1>0, <1>6, <2>1 DEF FoldAnswers, Observed, Shape, Types
<1>7. CASE FoldFails
  BY <1>0, <1>7 DEF FoldFails, Observed, Shape, Types
<1>8. CASE FoldWrites
  <2> DEFINE new(f) == [thru |-> f.thru, of |-> f.of]
  <2>1. PICK f \in folds :
          /\ folds' = folds \ {f}
          /\ \/ stored' = new(f) /\ summary' = new(f) /\ buffer' = {t \in buffer : t > f.thru}
             \/ stored' \in {stored, new(f)} /\ UNCHANGED <<summary, buffer>>
    BY <1>8 DEF FoldWrites
  <2>2. UNCHANGED <<phase, turn, turnNo, dropped>> /\ Observed' = Observed
    BY <1>8 DEF FoldWrites, Observed
  <2>3. folds' = {}
    BY <2>1 DEF Shape
  <2>4. f.thru \in Int /\ f.of \in SUBSET Int
    BY DEF Shape, Types, Fold
  <2>5. Covered(new(f)) = f.of
    BY <2>4, RollingCovers
  <2>6. Covered(summary) \subseteq f.of /\ \A t \in buffer : t <= f.thru => t \in f.of
    BY DEF Kept
  <2>7. \A t \in buffer : t <= f.thru \/ t > f.thru
    BY <2>4 DEF Shape, Types
  <2>8. CASE stored' = new(f) /\ summary' = new(f) /\ buffer' = {t \in buffer : t > f.thru}
    <3>1. Covered(stored)' = f.of /\ Covered(summary)' = f.of
      BY <2>5, <2>8 DEF Covered
    <3>2. Covered(summary) \cup buffer \subseteq f.of \cup buffer'
      BY <2>6, <2>7, <2>8
    <3> QED BY <2>2, <2>3, <3>1, <3>2 DEF Kept
  <2>9. CASE stored' \in {stored, new(f)} /\ UNCHANGED <<summary, buffer>>
    <3>1. Covered(stored)' \in {Covered(stored), f.of} /\ Covered(summary)' = Covered(summary)
      BY <2>5, <2>9 DEF Covered
    <3> QED BY <2>2, <2>3, <2>6, <2>9, <3>1 DEF Kept
  <2> QED BY <2>1, <2>8, <2>9
<1>9. CASE HangUp
  BY <1>0, <1>9 DEF HangUp, Observed, Shape, Types
<1>10. CASE Finalize \/ End
  <2>1. phase # "talking" /\ phase' # "talking"
    BY <1>10 DEF Finalize, End
  <2>2. UNCHANGED <<turnVars, foldVars>>
    BY <1>10 DEF Finalize, End
  <2> QED BY <1>0, <2>1, <2>2 DEF Observed, Shape, Types
<1>11. CASE SaveSummary
  <2> DEFINE departing == {t \in buffer : t <= ledger.turns}
             new == [thru |-> ledger.turns, of |-> RenderPrompt(departing)]
  <2>1. \/ UNCHANGED <<buffer, summary, stored>>
        \/ stored' = new /\ summary' = new /\ buffer' = buffer \ departing
        \/ stored' = new /\ UNCHANGED <<buffer, summary>>
    BY <1>11 DEF SaveSummary, Folded
  <2>2. /\ phase = "summary" /\ phase' = "profile"
        /\ UNCHANGED <<turn, turnNo, dropped, folds>>
    BY <1>11 DEF SaveSummary
  <2>3. Observed' = Observed /\ folds = {}
    BY <2>2 DEF Observed, Shape
  <2>4. ledger.turns \in Int /\ RenderPrompt(departing) \in SUBSET Int
    BY <2>2 DEF Shape, Types, RenderPrompt, Rolling, Covered
  <2>5. Covered(new) = Covered(summary) \cup departing
    BY <2>4, RollingCovers DEF RenderPrompt
  <2>6. CASE UNCHANGED <<buffer, summary, stored>>
    BY <2>2, <2>3, <2>6 DEF Kept, Covered
  <2>7. CASE stored' = new /\ summary' = new /\ buffer' = buffer \ departing
    <3>1. Covered(stored)' = Covered(summary) \cup departing
          /\ Covered(summary)' = Covered(summary) \cup departing
      BY <2>5, <2>7 DEF Covered
    <3> QED BY <2>2, <2>3, <2>7, <3>1 DEF Kept
  <2>8. CASE stored' = new /\ UNCHANGED <<buffer, summary>>
    <3>1. Covered(stored)' = Covered(summary) \cup departing
          /\ Covered(summary)' = Covered(summary)
      BY <2>5, <2>8 DEF Covered
    <3> QED BY <2>2, <2>3, <2>8, <3>1 DEF Kept
  <2> QED BY <2>1, <2>6, <2>7, <2>8
<1>12. ASSUME NEW c \in Calls, MergeRead(c) PROVE Kept'
  BY <1>0, <1>12 DEF MergeRead, Observed, Shape, Types
<1>13. ASSUME NEW c \in Calls, MergeWrite(c) \/ MergeFails(c) PROVE Kept'
  <2>1. phase # "talking" /\ phase' # "talking"
    BY <1>13 DEF MergeWrite, MergeFails, MergeOver, Merging, Shape
  <2> QED BY <1>0, <1>13, <2>1
      DEF MergeWrite, MergeFails, MergeOver, Observed, Shape, Types
<1>14. CASE UNCHANGED vars
  BY <1>0, <1>14 DEF vars, Observed, Shape, Types
<1> QED BY <1>1, <1>2, <1>3, <1>4, <1>5, <1>6, <1>7, <1>8, <1>9, <1>10, <1>11, <1>12, <1>13,
           <1>14 DEF Next

\* A turn the summarizer observed is in the stored summary, in its buffer, or was shed
\* over the cap: whatever fails in the model, in Redis or by the clock, and also when a
\* write that was given up on had landed.
THEOREM NoTurnIsLost == Spec => []NothingForgotten
<1>1. Init => Kept
  BY DEF Init, Kept, Observed
<1>2. Kept => NothingForgotten
  BY DEF Kept, Observed, NothingForgotten
<1> QED BY <1>1, <1>2, NextKept, CallShape, PTL DEF Spec

\* While the call talks, a fold's boundary is WINDOW_TURNS behind a turn that has ended,
\* and what is stored is behind the fold in flight.
Behind ==
  phase = "talking" =>
    /\ stored = None \/ Thru(stored) <= Finished - WINDOW_TURNS
    /\ \A f \in folds : /\ f.thru <= Finished - WINDOW_TURNS
                        /\ 0 < f.thru /\ Thru(stored) <= f.thru

LEMMA ThruInt == Shape => Thru(stored) \in Int /\ (stored = None => Thru(stored) = 0)
BY DEF Shape, Types, Rolling, Thru

LEMMA FoldWritesThru ==
  ASSUME Shape, Behind, FoldWrites, phase = "talking"
  PROVE  /\ Thru(stored)' >= Thru(stored) /\ folds' = {}
         /\ stored' = None \/ Thru(stored)' <= Finished - WINDOW_TURNS
<1> DEFINE new(f) == [thru |-> f.thru, of |-> f.of]
<1>1. PICK f \in folds : folds' = folds \ {f} /\ stored' \in {stored, new(f)}
  BY DEF FoldWrites
<1>2. folds' = {}
  BY <1>1 DEF Shape
<1>3. f.thru \in Int /\ f.of \in SUBSET Int
  BY DEF Shape, Types, Fold
<1>4. Thru(new(f)) = f.thru
  BY <1>3, RollingCovers
<1>5. CASE stored' = stored
  BY <1>2, <1>5, ThruInt DEF Thru, Behind
<1>6. CASE stored' = new(f)
  <2>1. Thru(stored)' = f.thru
    BY <1>4, <1>6 DEF Thru
  <2>2. Thru(stored) <= f.thru /\ f.thru <= Finished - WINDOW_TURNS
    BY DEF Behind
  <2> QED BY <1>2, <1>3, <2>1, <2>2, ThruInt
<1> QED BY <1>1, <1>5, <1>6

LEMMA NextBehind == Shape /\ Behind /\ [Next]_vars => Behind'
<1> SUFFICES ASSUME Shape, Behind, [Next]_vars, phase' = "talking" PROVE Behind'
  BY DEF Behind
<1> USE DEF turnVars, foldVars, costVars, endVars, profVars
<1>0. CASE /\ phase = "talking" /\ UNCHANGED <<stored, Finished>>
           /\ \A f \in folds' : \E g \in folds : f.thru = g.thru
  BY <1>0 DEF Behind, Thru
<1>1. CASE StartTurn
  BY <1>0, <1>1 DEF StartTurn, Finished, Shape, Types
<1>2. CASE Usage \/ Meter
  BY <1>0, <1>2 DEF Usage, Meter, Finished, Shape, Types
<1>3. CASE FinishTurn
  <2>1. /\ phase = "talking" /\ stored' = stored /\ Kick(turnNo, buffer')
        /\ turnNo' = turnNo /\ turn' = "idle" /\ turn # "idle"
    BY <1>3 DEF FinishTurn
  <2>2. Finished' = Finished + 1 /\ Finished' = turnNo /\ Finished \in Int
    BY <2>1 DEF Finished, Shape, Types
  <2>3. WINDOW_TURNS \in Nat /\ FIRST_FOLD_TURN \in Nat /\ WINDOW_TURNS < FIRST_FOLD_TURN
    BY MemoryAssumption
  <2>4. Thru(stored)' = Thru(stored) /\ Thru(stored) \in Int
    BY <2>1, ThruInt DEF Thru
  <2>5. stored = None \/ Thru(stored) <= Finished' - WINDOW_TURNS
    BY <2>1, <2>2, <2>3, <2>4 DEF Behind
  <2>6. ASSUME NEW f \in folds'
        PROVE  f.thru <= Finished' - WINDOW_TURNS /\ 0 < f.thru /\ Thru(stored) <= f.thru
    <3>1. CASE f \in folds
      <4>1. f.thru \in Int
        BY <3>1 DEF Shape, Types, Fold
      <4> QED BY <2>1, <2>2, <2>3, <3>1, <4>1 DEF Behind
    <3>2. CASE ShouldFold(turnNo) /\ f = FoldTask(SummaryThruTurn(turnNo), buffer')
      <4>1. f.thru = turnNo - WINDOW_TURNS
        BY <3>2 DEF FoldTask, SummaryThruTurn
      <4>2. turnNo >= FIRST_FOLD_TURN
        BY <3>2 DEF ShouldFold
      <4>3. turnNo \in Nat
        BY DEF Shape, Types
      <4> QED BY <2>2, <2>3, <2>5, <4>1, <4>2, <4>3, ThruInt
    <3> QED BY <2>1, <3>1, <3>2 DEF Kick
  <2> QED BY <2>1, <2>4, <2>5, <2>6 DEF Behind
<1>4. ASSUME NEW a \in {"turn", "fold"}, ReadCost(a) PROVE Behind'
  BY <1>0, <1>4 DEF ReadCost, Finished
<1>5. ASSUME NEW a \in {"turn", "fold"}, WriteCost(a) \/ CostFails(a) PROVE Behind'
  <2>1. Finished' = Finished
    BY <1>5 DEF WriteCost, CostFails, Finished, Shape
  <2>2. \A f \in folds' : \E g \in folds : f.thru = g.thru
    BY <1>5 DEF WriteCost, CostFails, Shape, Types, Fold
  <2>3. UNCHANGED <<phase, stored>>
    BY <1>5 DEF WriteCost, CostFails
  <2> QED BY <1>0, <2>1, <2>2, <2>3
<1>6. CASE FoldAnswers
  <2>1. \A f \in folds' : \E g \in folds : f.thru = g.thru
    BY <1>6 DEF FoldAnswers, Shape, Types, Fold
  <2> QED BY <1>0, <1>6, <2>1 DEF FoldAnswers, Finished
<1>7. CASE FoldFails
  BY <1>0, <1>7 DEF FoldFails, Finished
<1>8. CASE FoldWrites
  <2>1. phase = "talking" /\ Finished' = Finished
    BY <1>8 DEF FoldWrites, Finished
  <2> QED BY <1>8, <2>1, FoldWritesThru DEF Behind
<1>9. CASE HangUp \/ Finalize \/ End \/ SaveSummary
  BY <1>9 DEF HangUp, Finalize, End, SaveSummary
<1>10. ASSUME NEW c \in Calls, MergeRead(c) PROVE Behind'
  BY <1>0, <1>10 DEF MergeRead, Finished
<1>11. ASSUME NEW c \in Calls, MergeWrite(c) \/ MergeFails(c) PROVE Behind'
  BY <1>11 DEF MergeWrite, MergeFails, MergeOver, Merging, Shape
<1>12. CASE UNCHANGED vars
  BY <1>0, <1>12 DEF vars, Finished
<1> QED BY <1>1, <1>2, <1>3, <1>4, <1>5, <1>6, <1>7, <1>8, <1>9, <1>10, <1>11, <1>12 DEF Next

\* The boundary the prompt renders from only moves forward during the call, also when
\* a fold that timed out had written and the next one starts from the older summary.
THEOREM BoundaryOnlyAdvances == Spec => SummaryAdvances
<1>1. Init => Behind
  BY DEF Init, Behind
<1>2. Shape /\ Behind /\ [Next]_vars
        => (phase' = "talking" => Thru(stored') >= Thru(stored)) \/ UNCHANGED vars
  <2> SUFFICES ASSUME Shape, Behind, Next, phase' = "talking"
               PROVE  Thru(stored') >= Thru(stored)
    OBVIOUS
  <2> USE DEF turnVars, foldVars, costVars, endVars, profVars
  <2>0. CASE UNCHANGED stored
    BY <2>0, ThruInt
  <2>1. CASE FoldWrites
    BY <2>1, FoldWritesThru DEF FoldWrites, Thru
  <2>2. CASE \/ StartTurn \/ Usage \/ Meter \/ FinishTurn \/ FoldAnswers \/ FoldFails
             \/ HangUp \/ Finalize \/ End
    BY <2>0, <2>2 DEF StartTurn, Usage, Meter, FinishTurn, FoldAnswers, FoldFails, HangUp,
                      Finalize, End
  <2>3. CASE SaveSummary
    BY <2>3 DEF SaveSummary
  <2>4. ASSUME NEW a \in {"turn", "fold"}, ReadCost(a) \/ WriteCost(a) \/ CostFails(a)
        PROVE  UNCHANGED stored
    BY <2>4 DEF ReadCost, WriteCost, CostFails
  <2>5. ASSUME NEW c \in Calls, MergeRead(c) \/ MergeWrite(c) \/ MergeFails(c)
        PROVE  UNCHANGED stored
    BY <2>5 DEF MergeRead, MergeWrite, MergeFails, MergeOver
  <2> QED BY <2>0, <2>1, <2>2, <2>3, <2>4, <2>5 DEF Next
<1> QED BY <1>1, <1>2, NextBehind, CallShape, PTL DEF Spec, SummaryAdvances

-----------------------------------------------------------------------------
(* The merchant's profile.                                                 *)

\* Two post-call merges read and write one row without a version check: only the row
\* lock taken by the read keeps the row as it was read until the write.
RowIsHeld ==
  \A c \in Calls : merges[c] # None /\ merges[c].row # None =>
                     lock = c /\ profile = merges[c].row

\* A merge that found a row writes over the row it read: no other call's merge has come
\* between, so none is undone.
NoMergeIsLost ==
  [][\A c \in Calls :
       LET m == merges[c]
       IN c \in merged' \ merged /\ profile' # profile /\ m.row # None =>
            /\ profile = m.row
            /\ profile' = MergeIssues(Load(profile), m.open)]_vars

LEMMA CallsNotNone == None \notin Calls
BY MemoryAssumption DEF Calls

LEMMA NextRowIsHeld == Shape /\ RowIsHeld /\ [Next]_vars => RowIsHeld'
<1> SUFFICES ASSUME Shape, RowIsHeld, [Next]_vars PROVE RowIsHeld'
  OBVIOUS
<1> USE DEF turnVars, foldVars, costVars, endVars, profVars
<1>0. CASE UNCHANGED profVars
  BY <1>0 DEF RowIsHeld
<1>1. ASSUME NEW c \in Calls, MergeRead(c) PROVE RowIsHeld'
  <2>1. PICK o \in Confirmed : merges' = [merges EXCEPT ![c] = [open |-> o, row |-> profile]]
    BY <1>1 DEF MergeRead
  <2>2. /\ lock = None /\ lock' = (IF profile = None THEN None ELSE c)
        /\ UNCHANGED profile
    BY <1>1 DEF MergeRead
  <2>3. merges'[c].row = profile /\ \A d \in Calls \ {c} : merges'[d] = merges[d]
    BY <2>1 DEF Shape
  <2>4. \A d \in Calls \ {c} : merges[d] # None => merges[d].row = None
    BY <2>2, CallsNotNone DEF RowIsHeld
  <2> QED BY <2>2, <2>3, <2>4 DEF RowIsHeld
<1>2. ASSUME NEW c \in Calls, MergeWrite(c) \/ MergeFails(c) PROVE RowIsHeld'
  <2>1. /\ merges' = [merges EXCEPT ![c] = None]
        /\ lock' = IF lock = c THEN None ELSE lock
        /\ profile' # profile => lock \in {None, c}
    BY <1>2 DEF MergeWrite, MergeFails, MergeOver
  <2>2. merges'[c] = None /\ \A d \in Calls \ {c} : merges'[d] = merges[d]
    BY <2>1 DEF Shape
  <2>3. ASSUME NEW d \in Calls \ {c}, merges[d] # None, merges[d].row # None
        PROVE  lock' = d /\ profile' = merges[d].row
    <3>1. lock = d /\ profile = merges[d].row
      BY <2>3 DEF RowIsHeld
    <3> QED BY <2>1, <3>1, CallsNotNone
  <2> QED BY <2>2, <2>3 DEF RowIsHeld
<1>3. CASE \/ StartTurn \/ Usage \/ Meter \/ FinishTurn \/ FoldAnswers \/ FoldFails
           \/ FoldWrites \/ HangUp \/ Finalize \/ End \/ SaveSummary
  BY <1>0, <1>3 DEF StartTurn, Usage, Meter, FinishTurn, FoldAnswers, FoldFails, FoldWrites,
                    HangUp, Finalize, End, SaveSummary
<1>4. ASSUME NEW a \in {"turn", "fold"}, ReadCost(a) \/ WriteCost(a) \/ CostFails(a)
      PROVE RowIsHeld'
  BY <1>0, <1>4 DEF ReadCost, WriteCost, CostFails
<1>5. CASE UNCHANGED vars
  BY <1>0, <1>5 DEF vars
<1> QED BY <1>1, <1>2, <1>3, <1>4, <1>5 DEF Next

\* Two calls of one merchant that end at the same time merge one after the other into
\* the profile row: the second reads what the first committed.  The one exception is a
\* merge that found no row, which has nothing to lock.
THEOREM MergesSerialise == Spec => NoMergeIsLost
<1> DEFINE Body ==
      \A c \in Calls :
        LET m == merges[c]
        IN c \in merged' \ merged /\ profile' # profile /\ m.row # None =>
             /\ profile = m.row
             /\ profile' = MergeIssues(Load(profile), m.open)
<1>1. Init => RowIsHeld
  BY DEF Init, RowIsHeld
<1>2. Shape /\ RowIsHeld /\ [Next]_vars => [Body]_vars
  <2> SUFFICES ASSUME Shape, RowIsHeld, Next, NEW c \in Calls,
                      c \in merged' \ merged, profile' # profile, merges[c].row # None
               PROVE  /\ profile = merges[c].row
                      /\ profile' = MergeIssues(Load(profile), merges[c].open)
    OBVIOUS
  <2> USE DEF turnVars, foldVars, costVars, endVars, profVars
  <2>1. \E d \in Calls : MergeWrite(d)
    BY DEF Next, StartTurn, Usage, Meter, FinishTurn, FoldAnswers, FoldFails, FoldWrites,
           HangUp, Finalize, End, SaveSummary, ReadCost, WriteCost, CostFails, MergeRead,
           MergeFails
  <2>2. MergeWrite(c)
    BY <2>1 DEF MergeWrite, MergeOver
  <2> QED BY <2>2 DEF MergeWrite, Merging, RowIsHeld
<1>3. NoMergeIsLost <=> [][Body]_vars
  BY DEF NoMergeIsLost
<1> QED BY <1>1, <1>2, <1>3, NextRowIsHeld, CallShape, PTL DEF Spec

\* Lists of issues in which none comes twice.
Distinct == {w \in Seq(Issues) : IsInjective(w)}

\* What a merge holds and the row it found, and the row itself, name no issue twice.
NoneTwice ==
  /\ profile = None \/ profile \in Distinct
  /\ \A c \in Calls : merges[c] # None =>
       merges[c].open \in Distinct /\ (merges[c].row = None \/ merges[c].row \in Distinct)

\* Reading a row keeps its newest issues, at most as many as the cap.
LEMMA LoadIs ==
  ASSUME NEW w \in Distinct
  PROVE  /\ Load(w) \in Distinct /\ ToSet(Load(w)) \subseteq ToSet(w)
         /\ Len(w) <= MAX_OPEN_ISSUES => Load(w) = w
         /\ Len(w) > MAX_OPEN_ISSUES => Len(Load(w)) = MAX_OPEN_ISSUES
<1> DEFINE a == IF Len(w) > MAX_OPEN_ISSUES THEN Len(w) - MAX_OPEN_ISSUES + 1 ELSE 1
           v == SubSeq(w, a, Len(w))
<1>1. Len(w) \in Nat /\ MAX_OPEN_ISSUES \in Nat \ {0} /\ w \in Seq(Issues) /\ IsInjective(w)
  BY MemoryAssumption DEF Distinct
<1>2. a \in 1..(Len(w) + 1) /\ Len(w) \in 0..Len(w) /\ a <= Len(w) + 1 BY <1>1
<1>3. Load(w) = v BY <1>1, MemoryAssumption DEF Load
<1>4. Len(w) > MAX_OPEN_ISSUES => Len(w) - a + 1 = MAX_OPEN_ISSUES BY <1>1
<1>5. Len(w) <= MAX_OPEN_ISSUES => a = 1 BY <1>1
<1> HIDE DEF a
<1>6. /\ v \in Seq(Issues) /\ Len(v) = Len(w) - a + 1
      /\ \A k \in 1..(Len(w) - a + 1) : v[k] = w[a + k - 1]
      /\ ToSet(v) \subseteq ToSet(w) /\ IsInjective(v)
  BY <1>1, <1>2, PartIs
<1>7. Len(w) <= MAX_OPEN_ISSUES => v = w
  <2> SUFFICES ASSUME a = 1 PROVE v = w BY <1>5
  <2>1. Len(v) = Len(w) /\ \A k \in 1..Len(w) : v[k] = w[k] BY <1>1, <1>6
  <2> HIDE DEF v
  <2> QED BY <1>1, <1>6, <2>1, SeqEqual
<1> QED BY <1>3, <1>4, <1>6, <1>7 DEF Distinct

\* Opening issues appends the new ones.
LEMMA OpenIssuesIs ==
  ASSUME NEW w \in Distinct, NEW o \in Distinct
  PROVE  /\ OpenIssues(w, o) \in Distinct
         /\ ToSet(OpenIssues(w, o)) = ToSet(w) \cup ToSet(o)
         /\ Len(OpenIssues(w, o)) >= Len(w)
<1> DEFINE n == Without(o, ToSet(w))
           v == w \o n
<1>1. w \in Seq(Issues) /\ IsInjective(w) /\ o \in Seq(Issues) /\ IsInjective(o)
  BY DEF Distinct
<1>2. n \in Seq(Issues) /\ IsInjective(n) /\ ToSet(n) = ToSet(o) \ ToSet(w)
  BY <1>1, WithoutIs
<1> HIDE DEF n
<1>3. /\ v \in Seq(Issues) /\ Len(v) = Len(w) + Len(n)
      /\ \A k \in 1..(Len(w) + Len(n)) :
           v[k] = IF k <= Len(w) THEN w[k] ELSE n[k - Len(w)]
      /\ Len(w) \in Nat /\ Len(n) \in Nat
      /\ DOMAIN w = 1..Len(w) /\ DOMAIN n = 1..Len(n)
  BY <1>1, <1>2
<1> HIDE DEF v
<1>4. DOMAIN v = 1..(Len(w) + Len(n)) BY <1>3
<1>5. \A k \in DOMAIN v : \/ k \in DOMAIN w /\ v[k] = w[k]
                          \/ k - Len(w) \in DOMAIN n /\ v[k] = n[k - Len(w)]
  BY <1>3, <1>4
<1>6. \A k \in DOMAIN w : k \in DOMAIN v /\ v[k] = w[k] BY <1>3, <1>4
<1>7. \A k \in DOMAIN n : k + Len(w) \in DOMAIN v /\ v[k + Len(w)] = n[k] BY <1>3, <1>4
<1>8. ToSet(v) = ToSet(w) \cup ToSet(n)
  <2>1. \A e \in ToSet(v) : e \in ToSet(w) \cup ToSet(n) BY <1>5 DEF ToSet
  <2>2. \A e \in ToSet(w) : e \in ToSet(v) BY <1>6 DEF ToSet
  <2>3. \A e \in ToSet(n) : e \in ToSet(v) BY <1>7 DEF ToSet
  <2> QED BY <2>1, <2>2, <2>3
<1>9. \A j \in DOMAIN w, k \in DOMAIN n : w[j] # n[k]
  <2> SUFFICES ASSUME NEW j \in DOMAIN w, NEW k \in DOMAIN n, w[j] = n[k] PROVE FALSE OBVIOUS
  <2>1. w[j] \in ToSet(w) /\ n[k] \in ToSet(n) BY DEF ToSet
  <2> QED BY <1>2, <2>1
<1>10. IsInjective(v)
  <2> SUFFICES ASSUME NEW j \in DOMAIN v, NEW k \in DOMAIN v, v[j] = v[k] PROVE j = k
    BY DEF IsInjective
  <2>0. j \in Nat /\ k \in Nat BY <1>3, <1>4
  <2>1. CASE j \in DOMAIN w /\ k \in DOMAIN w
    BY <1>1, <1>6, <2>1 DEF IsInjective
  <2>2. CASE j - Len(w) \in DOMAIN n /\ k - Len(w) \in DOMAIN n
    <3>1. v[j] = n[j - Len(w)] /\ v[k] = n[k - Len(w)] BY <1>3, <1>5, <2>2
    <3>2. j - Len(w) = k - Len(w) BY <1>2, <2>2, <3>1 DEF IsInjective
    <3> QED BY <3>2, <2>0, <1>3
  <2>3. CASE j \in DOMAIN w /\ k - Len(w) \in DOMAIN n
    BY <1>3, <1>5, <1>6, <1>9, <2>3
  <2>4. CASE j - Len(w) \in DOMAIN n /\ k \in DOMAIN w
    BY <1>3, <1>5, <1>6, <1>9, <2>4
  <2> QED BY <1>5, <2>1, <2>2, <2>3, <2>4
<1> QED BY <1>2, <1>3, <1>8, <1>10 DEF OpenIssues, Distinct, v, n

\* Eviction loses nothing below the cap; over it, it leaves as many issues as the cap, and one
\* that was touched goes only when those alone are more.
LEMMA EvictIs ==
  ASSUME NEW w \in Distinct, NEW T, T \subseteq ToSet(w)
  PROVE  LET p == Evict(w, T)
         IN /\ p \in Distinct
            /\ Len(w) <= MAX_OPEN_ISSUES => ToSet(p) = ToSet(w) /\ Len(p) = Len(w)
            /\ Len(w) > MAX_OPEN_ISSUES => Len(p) = MAX_OPEN_ISSUES
            /\ \A i \in T \ ToSet(p) : Cardinality(T) > MAX_OPEN_ISSUES
<1> DEFINE surplus == Len(w) - MAX_OPEN_ISSUES
           old == Without(w, T)
           gone == ToSet(SubSeq(old, 1, Min({surplus, Len(old)})))
           out == IF surplus <= 0 THEN {} ELSE gone
           left == Without(w, out)
           p == Load(left)
<1>0. p = Evict(w, T) BY DEF Evict
<1>1. /\ Len(w) \in Nat /\ MAX_OPEN_ISSUES \in Nat \ {0} /\ w \in Seq(Issues)
      /\ IsInjective(w)
  BY MemoryAssumption DEF Distinct
<1>2. old \in Seq(Issues) /\ IsInjective(old) /\ ToSet(old) = ToSet(w) \ T
  BY <1>1, WithoutIs
<1>3. left \in Seq(Issues) /\ IsInjective(left) /\ ToSet(left) = ToSet(w) \ out
  BY <1>1, WithoutIs
<1>4. IsFiniteSet(ToSet(w)) /\ Cardinality(ToSet(w)) = Len(w) BY <1>1, DistinctLength
<1>5. IsFiniteSet(T) BY <1>4, FS_Subset
<1>6. Cardinality(T) \in Nat BY <1>5, FS_CardinalityType
<1>7. Len(old) = Len(w) - Cardinality(T) BY <1>1, LeftOutLength
<1>8. out \subseteq ToSet(w) => Len(left) = Len(w) - Cardinality(out)
  BY <1>1, LeftOutLength
<1>9. left \in Distinct BY <1>3 DEF Distinct
<1>o. /\ surplus <= 0 => out = {}
      /\ surplus > 0 => out = gone
  BY <1>1
<1> HIDE DEF left, out, old
<1>10. /\ p \in Distinct /\ ToSet(p) \subseteq ToSet(left)
       /\ Len(left) <= MAX_OPEN_ISSUES => p = left
       /\ Len(left) > MAX_OPEN_ISSUES => Len(p) = MAX_OPEN_ISSUES
  BY <1>9, LoadIs
<1> HIDE DEF p
<1>11. CASE surplus <= 0
  <2>1. out = {} BY <1>11, <1>o
  <2>2. Len(left) = Len(w)
    <3>1. Cardinality(out) = 0 /\ out \subseteq ToSet(w) BY <2>1, FS_EmptySet
    <3> QED BY <3>1, <1>1, <1>8
  <2>3. Len(w) <= MAX_OPEN_ISSUES BY <1>1, <1>11
  <2>4. p = left BY <1>10, <2>2, <2>3
  <2>5. ToSet(p) = ToSet(w) BY <1>3, <2>1, <2>4
  <2> QED BY <1>0, <1>1, <1>10, <2>2, <2>3, <2>4, <2>5
<1>12. CASE surplus > 0 /\ surplus <= Len(old)
  <2>1. Min({surplus, Len(old)}) = surplus
    <3>1. Len(old) \in Int /\ surplus \in Int BY <1>1, <1>2
    <3> QED BY <1>12, <3>1 DEF Min
  <2>2. out = ToSet(SubSeq(old, 1, surplus)) BY <1>12, <1>o, <2>1
  <2> DEFINE head == SubSeq(old, 1, surplus)
  <2>3. head \in Seq(Issues) /\ Len(head) = surplus /\ IsInjective(head)
        /\ ToSet(head) \subseteq ToSet(old)
    <3>1. 1 \in 1..(Len(old) + 1) /\ surplus \in 0..Len(old) /\ 1 <= surplus + 1
          /\ surplus - 1 + 1 = surplus
      BY <1>1, <1>2, <1>12
    <3> HIDE DEF surplus
    <3> QED BY <1>2, <3>1, PartIs
  <2> HIDE DEF head
  <2>4. Cardinality(out) = surplus BY <2>2, <2>3, DistinctLength DEF head
  <2>5. out \subseteq ToSet(w) /\ out \cap T = {} BY <1>2, <2>2, <2>3 DEF head
  <2>6. Len(left) = MAX_OPEN_ISSUES BY <1>1, <1>8, <2>4, <2>5
  <2>7. p = left BY <1>1, <1>10, <2>6
  <2>8. T \subseteq ToSet(p) BY <1>3, <2>5, <2>7
  <2> QED BY <1>0, <1>1, <1>10, <1>12, <2>6, <2>7, <2>8
<1>13. CASE surplus > 0 /\ surplus > Len(old)
  <2>0. Len(old) \in Nat /\ surplus \in Int BY <1>1, <1>2
  <2>1. Min({surplus, Len(old)}) = Len(old) BY <1>13, <2>0 DEF Min
  <2>2. out = ToSet(SubSeq(old, 1, Len(old))) BY <1>13, <1>o, <2>1
  <2>3. SubSeq(old, 1, Len(old)) = old BY <1>2, <2>0, SubSeqFull
  <2>4. out = ToSet(w) \ T BY <1>2, <2>2, <2>3
  <2>5. ToSet(left) = T BY <1>3, <2>4
  <2>6. Len(left) = Cardinality(T) BY <1>3, <2>5, DistinctLength
  <2>7. Cardinality(T) > MAX_OPEN_ISSUES BY <1>1, <1>6, <1>7, <1>13
  <2>8. Len(p) = MAX_OPEN_ISSUES BY <1>10, <2>6, <2>7
  <2> QED BY <1>0, <1>1, <1>10, <1>13, <2>7, <2>8
<1> QED BY <1>1, <1>11, <1>12, <1>13

\* A merge loses an issue only by the cap.
LEMMA MergeIs ==
  ASSUME NEW row \in Distinct, NEW o \in Distinct
  PROVE  LET p == MergeIssues(Load(row), o)
         IN /\ p \in Distinct
            /\ \A i \in ToSet(row) \ ToSet(p) :
                 /\ Len(p) = MAX_OPEN_ISSUES
                 /\ i \in ToSet(o) => Len(o) > MAX_OPEN_ISSUES
<1> DEFINE read == Load(row)
           list == OpenIssues(read, o)
           p == Evict(list, ToSet(o))
<1>0. p = MergeIssues(Load(row), o) BY DEF MergeIssues
<1>1. /\ read \in Distinct
      /\ Len(row) <= MAX_OPEN_ISSUES => read = row
      /\ Len(row) > MAX_OPEN_ISSUES => Len(read) = MAX_OPEN_ISSUES
  BY LoadIs
<1> HIDE DEF read
<1>2. /\ list \in Distinct /\ ToSet(list) = ToSet(read) \cup ToSet(o)
      /\ Len(list) >= Len(read)
  BY <1>1, OpenIssuesIs
<1> HIDE DEF list
<1>3. /\ p \in Distinct
      /\ Len(list) <= MAX_OPEN_ISSUES => ToSet(p) = ToSet(list) /\ Len(p) = Len(list)
      /\ Len(list) > MAX_OPEN_ISSUES => Len(p) = MAX_OPEN_ISSUES
      /\ \A i \in ToSet(o) \ ToSet(p) : Cardinality(ToSet(o)) > MAX_OPEN_ISSUES
  BY <1>2, EvictIs
<1> HIDE DEF p
<1>4. Cardinality(ToSet(o)) = Len(o) BY DistinctLength DEF Distinct
<1>5. Len(list) \in Nat /\ Len(row) \in Nat /\ Len(read) \in Nat /\ MAX_OPEN_ISSUES \in Nat
  BY <1>1, <1>2, MemoryAssumption DEF Distinct
<1>6. ASSUME NEW i \in ToSet(row) \ ToSet(p) PROVE Len(p) = MAX_OPEN_ISSUES
  <2>1. CASE Len(row) > MAX_OPEN_ISSUES BY <1>1, <1>2, <1>3, <1>5, <2>1
  <2>2. CASE Len(row) <= MAX_OPEN_ISSUES
    <3>1. i \in ToSet(list) \ ToSet(p) BY <1>1, <1>2, <1>6, <2>2
    <3> QED BY <1>3, <1>5, <3>1
  <2> QED BY <1>5, <2>1, <2>2
<1> QED BY <1>0, <1>3, <1>4, <1>6

LEMMA NextNoneTwice == NoneTwice /\ Shape /\ [Next]_vars => NoneTwice'
<1> SUFFICES ASSUME NoneTwice, Shape, [Next]_vars PROVE NoneTwice'
  OBVIOUS
<1> USE DEF turnVars, foldVars, costVars, endVars, profVars
<1>0. CASE UNCHANGED <<profile, merges>>
  BY <1>0 DEF NoneTwice
<1>1. ASSUME NEW c \in Calls, MergeRead(c) PROVE NoneTwice'
  <2>1. PICK o \in Confirmed : merges' = [merges EXCEPT ![c] = [open |-> o, row |-> profile]]
    BY <1>1 DEF MergeRead
  <2>2. /\ merges'[c].row = profile /\ merges'[c].open = o
        /\ \A d \in Calls \ {c} : merges'[d] = merges[d]
    BY <2>1 DEF Shape
  <2>3. o \in Distinct BY DEF Confirmed, Distinct
  <2> QED BY <1>1, <2>2, <2>3 DEF NoneTwice, MergeRead
<1>2. ASSUME NEW c \in Calls, MergeWrite(c) \/ MergeFails(c) PROVE NoneTwice'
  <2>1. merges' = [merges EXCEPT ![c] = None] /\ merges[c] # None
    BY <1>2 DEF MergeWrite, MergeFails, MergeOver, Merging
  <2>2. merges'[c] = None /\ \A d \in Calls \ {c} : merges'[d] = merges[d]
    BY <2>1 DEF Shape
  <2>3. profile' = profile \/ profile' = MergeIssues(Load(merges[c].row), merges[c].open)
    BY <1>2 DEF MergeWrite, MergeFails
  <2>4. merges[c].open \in Distinct /\ (merges[c].row = None \/ merges[c].row \in Distinct)
    BY <2>1 DEF NoneTwice
  <2>5. MergeIssues(Load(merges[c].row), merges[c].open) \in Distinct
    <3>1. <<>> \in Distinct BY DEF Distinct, IsInjective
    <3>2. Load(None) = <<>> BY DEF Load
    <3>4. Load(<<>>) = <<>> BY <3>1, LoadIs, MemoryAssumption
    <3> QED BY <2>4, <3>1, <3>2, <3>4, MergeIs
  <2> QED BY <2>2, <2>3, <2>5 DEF NoneTwice
<1>3. CASE \/ StartTurn \/ Usage \/ Meter \/ FinishTurn \/ FoldAnswers \/ FoldFails
           \/ FoldWrites \/ HangUp \/ Finalize \/ End \/ SaveSummary
  BY <1>0, <1>3 DEF StartTurn, Usage, Meter, FinishTurn, FoldAnswers, FoldFails, FoldWrites,
                    HangUp, Finalize, End, SaveSummary
<1>4. ASSUME NEW a \in {"turn", "fold"}, ReadCost(a) \/ WriteCost(a) \/ CostFails(a)
      PROVE NoneTwice'
  BY <1>0, <1>4 DEF ReadCost, WriteCost, CostFails
<1>5. CASE UNCHANGED vars
  BY <1>0, <1>5 DEF vars
<1> QED BY <1>1, <1>2, <1>3, <1>4, <1>5 DEF Next

\* However many issues a call confirms and however two merges interleave: a merge that found
\* a row takes an issue out of it only when the cap leaves no room, and one its own call
\* confirmed only when that call confirmed more than the cap.
THEOREM MergesKeepIssues == Spec => ProfileKeepsIssues
<1> DEFINE Body ==
      \A c \in Calls :
        LET m == merges[c]
        IN (profile' # profile /\ c \in merged' \ merged /\ profile # None /\ m.row # None)
             => \A i \in ToSet(profile) \ ToSet(profile') :
                  /\ Len(profile') = MAX_OPEN_ISSUES
                  /\ i \in ToSet(m.open) => Len(m.open) > MAX_OPEN_ISSUES
           Undone ==
      \A c \in Calls :
        LET m == merges[c]
        IN c \in merged' \ merged /\ profile' # profile /\ m.row # None =>
             /\ profile = m.row
             /\ profile' = MergeIssues(Load(profile), m.open)
<1>1. Init => NoneTwice
  BY DEF Init, NoneTwice, Confirmed, Distinct
<1>2. NoneTwice /\ [Next]_vars /\ [Undone]_vars => [Body]_vars
  <2> SUFFICES ASSUME NoneTwice, Next, Undone, NEW c \in Calls,
                      profile' # profile, c \in merged' \ merged, profile # None,
                      merges[c].row # None,
                      NEW i \in ToSet(profile) \ ToSet(profile')
               PROVE  /\ Len(profile') = MAX_OPEN_ISSUES
                      /\ i \in ToSet(merges[c].open) => Len(merges[c].open) > MAX_OPEN_ISSUES
    OBVIOUS
  <2>1. profile = merges[c].row /\ profile' = MergeIssues(Load(profile), merges[c].open)
    OBVIOUS
  <2>2. profile \in Distinct BY DEF NoneTwice
  <2>3. merges[c] # None
    <3> USE DEF turnVars, foldVars, costVars, endVars, profVars
    <3>1. \E d \in Calls : MergeWrite(d)
      BY DEF Next, StartTurn, Usage, Meter, FinishTurn, FoldAnswers, FoldFails, FoldWrites,
             HangUp, Finalize, End, SaveSummary, ReadCost, WriteCost, CostFails, MergeRead,
             MergeFails
    <3> QED BY <3>1 DEF MergeWrite, MergeOver, Merging
  <2>4. merges[c].open \in Distinct BY <2>3 DEF NoneTwice
  <2> QED BY <2>1, <2>2, <2>4, MergeIs
<1>3. NoMergeIsLost <=> [][Undone]_vars
  BY DEF NoMergeIsLost
<1>4. ProfileKeepsIssues <=> [][Body]_vars
  BY DEF ProfileKeepsIssues
<1> QED BY <1>1, <1>2, <1>3, <1>4, NextNoneTwice, CallShape, MergesSerialise, PTL DEF Spec

-----------------------------------------------------------------------------
(* The knowledge base and the summaries of earlier calls.                  *)

KbTexts == [Slugs -> SUBSET Texts]

\* The seeder's transaction rewrites whole articles.
SeedInv ==
  /\ articles \in KbTexts /\ edition \in KbTexts
  /\ seed # Null =>
       /\ seed.edition \in KbTexts /\ seed.articles \in KbTexts
       /\ \A slug \in Slugs : seed.edition[slug] \subseteq seed.articles[slug]

\* A summary is written once, the same each time, and its chunk with it or not at all.
SummaryInv ==
  /\ summaries \in [Sessions -> Texts \cup {Null}]
  /\ save \in [Sessions -> {"none", "stored", "failed"}]
  /\ \A s \in Sessions : save[s] = "stored" => summaries[s] = SummaryText[s]
  /\ \A c \in CallChunks :
       \E s \in Sessions : c = SummaryChunk(s) /\ summaries[s] = SummaryText[s]

RecallInv == SeedInv /\ SummaryInv /\ KnowledgeIsWhole

LEMMA KbChunksAre ==
  ASSUME NEW e \in KbTexts
  PROVE  \A c : c \in KbChunksOf(e) <=>
           \E slug \in Slugs : \E text \in e[slug] : c = KbChunk(slug, text)
BY DEF KbChunksOf

LEMMA InitRecallInv == RecallInit => RecallInv
<1> SUFFICES ASSUME RecallInit PROVE RecallInv OBVIOUS
<1> USE RecallAssumption, TextsAssumption DEF RecallInit
<1>1. articles \in KbTexts /\ edition \in KbTexts /\ seed = Null BY DEF KbTexts
<1>2. SeedInv BY <1>1 DEF SeedInv
<1>3. CallChunks = chunks BY DEF CallChunks, SummaryChunk
<1>4. SummaryInv BY <1>3 DEF SummaryInv
<1>5. KbChunksOf(edition) = {} BY DEF KbChunksOf
<1>6. KnowledgeIsWhole BY <1>3, <1>5 DEF KnowledgeIsWhole
<1> QED BY <1>2, <1>4, <1>6 DEF RecallInv

\* What neither seeds nor saves leaves both alone.
LEMMA QuietKeeps ==
  ASSUME RecallInv, UNCHANGED <<kbVars, chunks, summaries, save>>, seed' = seed
  PROVE  RecallInv'
BY DEF RecallInv, SeedInv, SummaryInv, KnowledgeIsWhole, CallChunks, kbVars

LEMMA SeedCommitted ==
  ASSUME RecallInv, seed # Null, WriteSeed, seed' = Null, UNCHANGED <<summaries, save>>
  PROVE  RecallInv'
<1> USE DEF WriteSeed
<1>1. SeedInv' BY DEF RecallInv, SeedInv
<1>2. seed.edition \in KbTexts BY DEF RecallInv, SeedInv
<1>3. \A c \in KbChunksOf(seed.edition) : c.kind = "kb_article"
  BY <1>2, KbChunksAre DEF KbChunk
<1>4. CallChunks' = CallChunks BY <1>3 DEF CallChunks, Rebuilt
<1>5. SummaryInv' BY <1>4 DEF RecallInv, SummaryInv
<1>6. chunks' \ CallChunks' = KbChunksOf(edition')
  BY <1>3, <1>4 DEF Rebuilt, CallChunks, KbChunksOf
<1>7. ASSUME NEW c \in KbChunksOf(seed.edition) PROVE c.text \in articles'[c.source]
  <2>1. PICK slug \in Slugs : \E text \in seed.edition[slug] : c = KbChunk(slug, text)
    BY <1>2, <1>7, KbChunksAre
  <2>2. c.source = slug /\ c.text \in seed.edition[slug] BY <2>1 DEF KbChunk
  <2> QED BY <2>2 DEF RecallInv, SeedInv
<1>8. KnowledgeIsWhole' BY <1>6, <1>7 DEF KnowledgeIsWhole
<1> QED BY <1>1, <1>5, <1>8 DEF RecallInv

LEMMA SeedKeeps == ASSUME RecallInv, Seeder PROVE RecallInv'
<1>1. ASSUME NEW e \in Editions, NEW reset \in BOOLEAN, SeedStarts(e, reset) PROVE RecallInv'
  <2>1. e \in KbTexts BY RecallAssumption DEF KbTexts
  <2>2. Upserted(e, reset) \in KbTexts BY <2>1 DEF Upserted, KbTexts, RecallInv, SeedInv
  <2>3. \A slug \in Slugs : e[slug] \subseteq Upserted(e, reset)[slug] BY DEF Upserted
  <2>4. SeedInv' BY <1>1, <2>1, <2>2, <2>3 DEF SeedStarts, kbVars, RecallInv, SeedInv
  <2>5. SummaryInv' BY <1>1 DEF SeedStarts, pastVars, RecallInv, SummaryInv, CallChunks
  <2>6. KnowledgeIsWhole'
    BY <1>1 DEF SeedStarts, kbVars, RecallInv, KnowledgeIsWhole, CallChunks
  <2> QED BY <2>4, <2>5, <2>6 DEF RecallInv
<1>2. CASE EmbedChunks
  <2>1. SeedInv' BY <1>2 DEF EmbedChunks, kbVars, RecallInv, SeedInv
  <2>2. SummaryInv' BY <1>2 DEF EmbedChunks, pastVars, RecallInv, SummaryInv, CallChunks
  <2>3. KnowledgeIsWhole'
    BY <1>2 DEF EmbedChunks, kbVars, RecallInv, KnowledgeIsWhole, CallChunks
  <2> QED BY <2>1, <2>2, <2>3 DEF RecallInv
<1>3. CASE SeedCommits BY <1>3, SeedCommitted DEF SeedCommits, pastVars
<1>4. CASE SeedFails
  <2>1. seed # Null /\ seed' = Null /\ UNCHANGED <<summaries, save>>
    BY <1>4 DEF SeedFails, pastVars
  <2>2. CASE UNCHANGED <<kbVars, chunks>>
    BY <2>1, <2>2 DEF RecallInv, SeedInv, SummaryInv, KnowledgeIsWhole, CallChunks, kbVars
  <2>3. CASE WriteSeed BY <2>1, <2>3, SeedCommitted
  <2> QED BY <1>4, <2>2, <2>3 DEF SeedFails
<1> QED BY <1>1, <1>2, <1>3, <1>4 DEF Seeder

\* A save that commits: the row, and the chunk when the embedding worked.
LEMMA SaveWrites ==
  ASSUME RecallInv, NEW s \in Sessions, NEW embedded \in BOOLEAN, WriteSummary(s, embedded),
         NEW outcome \in {"stored", "failed"}, save' = [save EXCEPT ![s] = outcome],
         UNCHANGED <<kbVars, seed>>
  PROVE  RecallInv'
<1> USE RecallAssumption DEF WriteSummary
<1>1. SeedInv' BY DEF RecallInv, SeedInv, kbVars
<1>2. /\ summaries \in [Sessions -> Texts \cup {Null}]
      /\ save \in [Sessions -> {"none", "stored", "failed"}]
  BY DEF RecallInv, SummaryInv
<1>3. \A t \in Sessions : summaries[t] = SummaryText[t] => summaries'[t] = SummaryText[t]
  BY <1>2
<1>4. summaries'[s] = SummaryText[s] BY <1>2
<1>5. CallChunks' = IF embedded THEN CallChunks \cup {SummaryChunk(s)} ELSE CallChunks
  BY DEF CallChunks, SummaryChunk
<1>6. SummaryInv'
  <2>1. /\ summaries' \in [Sessions -> Texts \cup {Null}]
        /\ save' \in [Sessions -> {"none", "stored", "failed"}]
    BY <1>2
  <2>2. \A t \in Sessions : save'[t] = "stored" => summaries'[t] = SummaryText[t]
    BY <1>2, <1>3, <1>4 DEF RecallInv, SummaryInv
  <2>3. \A c \in CallChunks' :
          \E t \in Sessions : c = SummaryChunk(t) /\ summaries'[t] = SummaryText[t]
    BY <1>3, <1>4, <1>5 DEF RecallInv, SummaryInv
  <2> QED BY <2>1, <2>2, <2>3 DEF SummaryInv
<1>7. chunks' \ CallChunks' = chunks \ CallChunks
  BY <1>5 DEF CallChunks, SummaryChunk
<1>8. KnowledgeIsWhole' BY <1>7 DEF RecallInv, KnowledgeIsWhole, kbVars
<1> QED BY <1>1, <1>6, <1>8 DEF RecallInv

LEMMA CallKeeps == ASSUME RecallInv, NEW s \in Sessions, Call(s) PROVE RecallInv'
<1>1. CASE \/ Search(s) \/ StorePrefetch(s) \/ PrefetchSkipped(s) \/ PrefetchFails(s)
           \/ Expires(s) \/ CallEnds(s) \/ MergeProfile(s) \/ Killed(s)
  <2>1. UNCHANGED <<kbVars, chunks, summaries, save>> /\ seed' = seed
    BY <1>1 DEF Search, StorePrefetch, PrefetchSkipped, PrefetchFails, Expires, CallEnds,
       MergeProfile, Killed, pastVars, seedVars
  <2> QED BY <2>1, QuietKeeps
<1>2. CASE SaveCommits(s)
  <2>1. PICK embedded \in BOOLEAN : WriteSummary(s, embedded) BY <1>2 DEF SaveCommits
  <2>2. save' = [save EXCEPT ![s] = "stored"] /\ UNCHANGED <<kbVars, seed>>
    BY <1>2 DEF SaveCommits, Saved, seedVars
  <2> QED BY <2>1, <2>2, SaveWrites
<1>3. CASE SaveFails(s)
  <2>1. save' = [save EXCEPT ![s] = "failed"] /\ UNCHANGED <<kbVars, seed>>
    BY <1>3 DEF SaveFails, Saved, seedVars
  <2>2. CASE UNCHANGED <<summaries, chunks>>
    <3>1. SeedInv' /\ KnowledgeIsWhole'
      BY <2>1, <2>2 DEF RecallInv, SeedInv, KnowledgeIsWhole, CallChunks, kbVars
    <3>2. SummaryInv' BY <2>1, <2>2 DEF RecallInv, SummaryInv, CallChunks
    <3> QED BY <3>1, <3>2 DEF RecallInv
  <2>3. CASE \E embedded \in BOOLEAN : WriteSummary(s, embedded)
    <3>1. PICK embedded \in BOOLEAN : WriteSummary(s, embedded) BY <2>3
    <3> QED BY <2>1, <3>1, SaveWrites
  <2>4. UNCHANGED <<summaries, chunks>> \/ \E embedded \in BOOLEAN : WriteSummary(s, embedded)
    BY <1>3 DEF SaveFails
  <2> QED BY <2>2, <2>3, <2>4
<1> QED BY <1>1, <1>2, <1>3 DEF Call

LEMMA AlwaysRecallInv == RecallSpec => []RecallInv
<1>1. ASSUME RecallInv, [RecallNext]_recallVars PROVE RecallInv'
  <2>1. CASE Seeder BY <1>1, <2>1, SeedKeeps
  <2>2. CASE \E s \in Sessions : Call(s) BY <1>1, <2>2, CallKeeps
  <2>3. CASE UNCHANGED recallVars
    BY <1>1, <2>3, QuietKeeps DEF recallVars, kbVars, pastVars, seedVars
  <2> QED BY <1>1, <2>1, <2>2, <2>3 DEF RecallNext
<1> QED BY <1>1, InitRecallInv, PTL DEF RecallSpec

\* Whatever rebuilds, fails or is searched when, for every knowledge base: the chunks are one
\* edition's, whole, and quote articles that are there.
THEOREM KnowledgeKept == RecallSpec => []KnowledgeIsWhole
<1>1. RecallInv => KnowledgeIsWhole BY DEF RecallInv
<1> QED BY <1>1, AlwaysRecallInv, PTL

\* However many calls end and whatever the embedding does: a save that returned has its row,
\* and no chunk quotes a row that is not there.
THEOREM SummariesKept == RecallSpec => []SummaryOutlivesEmbedding
<1>1. ASSUME RecallInv PROVE SummaryOutlivesEmbedding
  BY <1>1, RecallAssumption DEF RecallInv, SummaryInv, SummaryOutlivesEmbedding, SummaryChunk
<1> QED BY <1>1, AlwaysRecallInv, PTL

-----------------------------------------------------------------------------
(* What a prompt quotes.                                                   *)

\* A number of lines and their lengths have a length together.
LEMMA JoinedNat ==
  ASSUME NEW header \in Nat, NEW sizes \in Seq(Nat)
  PROVE  Joined(header, sizes) \in Nat
<1> DEFINE N == Len(sizes)
           Body(f, n) == IF n = 0 THEN header ELSE f[n - 1] + 1 + sizes[n]
           Is(f) == f = [n \in 0..N |-> Body(f, n)]
           step == [n \in 1..N |-> [m \in Nat |-> m + 1 + sizes[n]]]
<1>1. N \in Nat /\ \A n \in 1..N : sizes[n] \in Nat OBVIOUS
<1>2. step \in [1..N -> [Nat -> Nat]] BY <1>1
<1>3. \A n \in 1..N : \A m \in Nat : step[n][m] = m + 1 + sizes[n] OBVIOUS
<1> HIDE DEF N, step
<1>4. PICK f : Iterated(f, Nat, header, step, N) BY <1>1, <1>2, Iterates
<1>5. ASSUME NEW n \in 0..N PROVE f[n] = Body(f, n)
  <2>1. CASE n = 0 BY <2>1, <1>4 DEF Iterated
  <2>2. CASE n # 0
    <3>1. n \in 1..N /\ n - 1 \in 0..N BY <2>2, <1>1
    <3>2. f[n - 1] \in Nat BY <3>1, <1>4 DEF Iterated
    <3> QED BY <2>2, <3>1, <3>2, <1>3, <1>4 DEF Iterated
  <2> QED BY <2>1, <2>2
<1>6. Is(f)
  <2>1. f = [n \in 0..N |-> f[n]] BY <1>4 DEF Iterated
  <2> QED BY <2>1, <1>5
<1> DEFINE g == CHOOSE h : Is(h)
<1>7. Is(g) BY <1>6
<1>8. Joined(header, sizes) = g[N] BY DEF Joined, N
<1> HIDE DEF g
<1>9. \A n \in 0..N : g[n] = Body(g, n) BY <1>7
<1> DEFINE G == {n \in 0..N : g[n] \in Nat}
<1>10. 0 \in G
  <2>1. 0 \in 0..N BY <1>1
  <2> QED BY <2>1, <1>9
<1>11. ASSUME NEW n \in 1..N, n - 1 \in G PROVE n \in G
  <2>1. n \in 0..N /\ n # 0 BY <1>1
  <2>2. g[n] = g[n - 1] + 1 + sizes[n] BY <2>1, <1>9
  <2> QED BY <2>1, <2>2, <1>1, <1>11
<1> HIDE DEF G, Body
<1>12. \A n \in 0..N : n \in G BY <1>1, <1>10, <1>11, Climbs
<1>13. N \in 0..N BY <1>1
<1> QED BY <1>8, <1>12, <1>13 DEF G

LEMMA TokensInt == ASSUME NEW n \in Nat PROVE Tokens(n) \in Int
BY DEF Tokens

\* Two estimates, each rounded up, and their newline: at most one token more.
LEMMA TokensTogether ==
  ASSUME NEW a \in Nat, NEW b \in Nat
  PROVE  Tokens(a + 1 + b) <= Tokens(a) + Tokens(b) + 1
BY DEF Tokens

\* Of a finite number of heads that fit, one is the longest.
LEMMA FitIs ==
  ASSUME NEW header \in Nat, NEW sizes \in Seq(Nat), NEW budget \in Int
  PROVE  LET n == Fit(header, sizes, budget)
         IN /\ n \in 0..Len(sizes)
            /\ n = 0 \/ Tokens(Joined(header, SubSeq(sizes, 1, n))) <= budget
<1> DEFINE N == Len(sizes)
           Size(n) == Tokens(Joined(header, SubSeq(sizes, 1, n)))
           Fits(n) == n = 0 \/ Size(n) <= budget
           Longest(n) == Fits(n) /\ \A m \in n + 1..N : Size(m) > budget
           T == {k \in 0..N : Fits(N - k)}
<1>1. N \in Nat OBVIOUS
<1>2. ASSUME NEW m \in 0..N PROVE Size(m) \in Int
  <2>1. SubSeq(sizes, 1, m) \in Seq(Nat)
    <3>1. 1 \in 1..(Len(sizes) + 1) /\ 1 <= m + 1 BY <1>1
    <3> QED BY <3>1, PartIs
  <2> QED BY <2>1, JoinedNat, TokensInt
<1> HIDE DEF Size, N
<1>3. N \in T BY <1>1
<1>4. T \subseteq Nat /\ T # {} BY <1>1, <1>3
<1> HIDE DEF Fits
<1>5. PICK k \in T : \A j \in T : k <= j BY <1>4, Least
<1> DEFINE n == N - k
<1>6. n \in 0..N /\ Fits(n) BY <1>1, <1>5
<1>7. ASSUME NEW m \in n + 1..N PROVE Size(m) > budget
  <2>1. m \in 0..N /\ N - m \in 0..N /\ N - (N - m) = m /\ N - m < k BY <1>1, <1>5
  <2>2. ~(k <= N - m) BY <2>1, <1>5, <1>1
  <2>3. ~Fits(m) BY <2>1, <2>2, <1>5
  <2> QED BY <2>1, <2>3, <1>2 DEF Fits
<1> DEFINE c == CHOOSE x \in 0..N : Longest(x)
<1>8. c \in 0..N /\ Longest(c) BY <1>6, <1>7
<1>9. c = Fit(header, sizes, budget) BY DEF Fit, Size, Fits, N
<1> QED BY <1>8, <1>9 DEF Fits, Size, N

LEMMA Narrowed ==
  ASSUME NEW S, NEW w \in Seq(S), NEW T, ToSet(w) \subseteq T
  PROVE  w \in Seq(T)
<1>1. Len(w) \in Nat /\ DOMAIN w = 1..Len(w) OBVIOUS
<1>2. \A k \in 1..Len(w) : w[k] \in T BY <1>1 DEF ToSet
<1>3. w \in [1..Len(w) -> T] BY <1>1, <1>2
<1> QED BY <1>1, <1>3

\* A list in order stays so when entries go from anywhere in it, or from its tail.
LEMMA OrderKept ==
  ASSUME NEW S, NEW w \in Seq(S), InOrder(w)
  PROVE  /\ \A out : InOrder(Without(w, out))
         /\ \A n \in 0..Len(w) : InOrder(SubSeq(w, 1, n))
<1>1. Len(w) \in Nat /\ DOMAIN w = 1..Len(w) OBVIOUS
<1>2. ASSUME NEW out PROVE InOrder(Without(w, out))
  <2> DEFINE v == Without(w, out)
  <2>1. v \in Seq(S) /\ Picks(w, out, Len(w), v) BY WithoutFacts
  <2> HIDE DEF v
  <2>2. PICK at : Picked(w, out, Len(w), v, at) BY <2>1 DEF Picks
  <2>3. DOMAIN v = 1..Len(v) BY <2>1
  <2>4. ASSUME NEW m \in DOMAIN v, NEW n \in DOMAIN v, m < n
        PROVE  Similarity[v[m].text] >= Similarity[v[n].text]
    <3>1. /\ at[m] \in DOMAIN w /\ at[n] \in DOMAIN w /\ at[m] < at[n]
          /\ v[m] = w[at[m]] /\ v[n] = w[at[n]]
      BY <1>1, <2>2, <2>3, <2>4 DEF Picked
    <3>2. Similarity[w[at[m]].text] >= Similarity[w[at[n]].text] BY <3>1 DEF InOrder
    <3> QED BY <3>1, <3>2
  <2>5. InOrder(v) BY <2>4 DEF InOrder
  <2> QED BY <2>5 DEF v
<1>3. ASSUME NEW n \in 0..Len(w) PROVE InOrder(SubSeq(w, 1, n))
  <2> DEFINE v == SubSeq(w, 1, n)
  <2>1. 1 \in 1..(Len(w) + 1) /\ 1 <= n + 1 /\ n - 1 + 1 = n BY <1>1
  <2>2. v \in Seq(S) /\ Len(v) = n /\ \A k \in 1..n : v[k] = w[k]
    <3>1. Len(v) = n - 1 + 1 /\ \A k \in 1..(n - 1 + 1) : v[k] = w[1 + k - 1] BY <2>1, PartIs
    <3>2. \A k \in 1..n : 1 + k - 1 = k OBVIOUS
    <3> QED BY <2>1, <3>1, <3>2, PartIs
  <2> HIDE DEF v
  <2>3. DOMAIN v = 1..n /\ 1..n \subseteq DOMAIN w BY <1>1, <2>2
  <2>4. InOrder(v) BY <2>2, <2>3 DEF InOrder
  <2> QED BY <2>4 DEF v
<1> QED BY <1>2, <1>3

\* What looks like an instruction is dropped, and nothing else.
LEMMA CleanIs ==
  ASSUME NEW S, NEW w \in Seq(S)
  PROVE  /\ Clean(w) \in Seq(S) /\ ToSet(Clean(w)) \subseteq ToSet(w)
         /\ \A k \in 1..Len(Clean(w)) : Clean(w)[k].text \notin Suspect
         /\ Clean(w) # <<>> => \E i \in 1..Len(w) :
              /\ Clean(w)[1] = w[i] /\ w[i].text \notin Suspect
              /\ \A j \in 1..Len(w) : j < i => w[j].text \in Suspect
<1> DEFINE out == {item \in ToSet(w) : item.text \in Suspect}
           v == Without(w, out)
<1>0. Clean(w) = v BY DEF Clean
<1>o. v = Without(w, out) OBVIOUS
<1> HIDE DEF v, out
<1>1. /\ v \in Seq(S) /\ ToSet(v) = ToSet(w) \ out
      /\ v # <<>> => \E i \in 1..Len(w) :
           /\ v[1] = w[i] /\ w[i] \notin out
           /\ \A j \in 1..Len(w) : j < i => w[j] \in out
  BY <1>o, WithoutIs
<1>2. \A j \in 1..Len(w) : w[j] \in ToSet(w) BY DEF ToSet
<1>3. \A k \in 1..Len(v) : v[k] \in ToSet(v) BY <1>1 DEF ToSet
<1>4. \A j \in 1..Len(w) : w[j] \in out <=> w[j].text \in Suspect BY <1>2 DEF out
<1>5. \A k \in 1..Len(v) : v[k].text \notin Suspect
  <2>1. \A k \in 1..Len(v) : v[k] \in ToSet(w) \ out BY <1>1, <1>3
  <2> QED BY <2>1 DEF out
<1> QED BY <1>0, <1>1, <1>4, <1>5

\* Rows a call of s may be told: of the knowledge base or its merchant, above the floor.
Rows(s) ==
  [kind : {"kb_article", "call_summary"}, source : Slugs \cup Sessions,
   owner : {Null, Owner[s]}, text : {t \in Texts : Similarity[t] >= RETRIEVAL_FLOOR}]

LEMMA ChunkIs ==
  ASSUME RecallInv, NEW c \in chunks
  PROVE  \/ \E slug \in Slugs : \E text \in Texts : c = KbChunk(slug, text)
         \/ \E s \in Sessions : c = SummaryChunk(s)
<1>1. CASE c \in CallChunks BY <1>1 DEF RecallInv, SummaryInv
<1>2. CASE c \notin CallChunks
  <2>1. edition \in KbTexts /\ c \in KbChunksOf(edition)
    BY <1>2 DEF RecallInv, SeedInv, KnowledgeIsWhole
  <2>2. PICK slug \in Slugs : \E text \in edition[slug] : c = KbChunk(slug, text)
    BY <2>1, KbChunksAre
  <2> QED BY <2>1, <2>2 DEF KbTexts
<1> QED BY <1>1, <1>2

\* What a search of s keeps.
LEMMA SearchFinds ==
  ASSUME RecallInv, NEW s \in Sessions, NEW results \in Results(s)
  PROVE  Relevant(results) \in Seq(Rows(s)) /\ InOrder(Relevant(results))
<1> DEFINE visible == {c \in chunks : InScope(c, s)}
           low == {c \in chunks : Similarity[c.text] < RETRIEVAL_FLOOR}
           v == Without(results, low)
<1>0. Relevant(results) = v BY DEF Relevant
<1>1. InOrder(results) /\ \E n \in 0..RETRIEVAL_TOP_K : results \in [1..n -> visible]
  BY DEF Results
<1>2. results \in Seq(visible)
  <2>1. PICK n \in 0..RETRIEVAL_TOP_K : results \in [1..n -> visible] BY <1>1
  <2>2. n \in Nat BY DEF RETRIEVAL_TOP_K
  <2> HIDE DEF visible
  <2> QED BY <2>1, <2>2
<1>3. ToSet(results) \subseteq visible BY <1>2 DEF ToSet
<1> HIDE DEF visible, low
<1>4. v \in Seq(visible) /\ ToSet(v) = ToSet(results) \ low BY <1>2, WithoutIs
<1>5. InOrder(v) BY <1>1, <1>2, OrderKept
<1>6. ASSUME NEW c \in visible \ low PROVE c \in Rows(s)
  <2>1. c \in chunks /\ InScope(c, s) BY DEF visible
  <2>2. ~(Similarity[c.text] < RETRIEVAL_FLOOR) BY <2>1, <1>6 DEF low
  <2>3. CASE \E slug \in Slugs : \E text \in Texts : c = KbChunk(slug, text)
    <3>1. PICK slug \in Slugs, text \in Texts : c = KbChunk(slug, text) BY <2>3
    <3>2. Similarity[text] \in Int /\ c.text = text BY <3>1, RecallAssumption DEF KbChunk
    <3>3. Similarity[text] >= RETRIEVAL_FLOOR BY <2>2, <3>2 DEF RETRIEVAL_FLOOR
    <3> QED BY <3>1, <3>3 DEF KbChunk, Rows
  <2>4. CASE \E t \in Sessions : c = SummaryChunk(t)
    <3>1. PICK t \in Sessions : c = SummaryChunk(t) BY <2>4
    <3>2. c.owner = Owner[t] /\ c.kind = "call_summary" /\ c.text = SummaryText[t]
      BY <3>1 DEF SummaryChunk
    <3>3. Owner[t] = Owner[s] BY <2>1, <3>2 DEF InScope
    <3>4. SummaryText[t] \in Texts /\ Similarity[SummaryText[t]] \in Int BY RecallAssumption
    <3>5. Similarity[SummaryText[t]] >= RETRIEVAL_FLOOR
      BY <2>2, <3>2, <3>4 DEF RETRIEVAL_FLOOR
    <3> QED BY <3>1, <3>3, <3>4, <3>5 DEF SummaryChunk, Rows
  <2> QED BY <2>1, <2>3, <2>4, ChunkIs
<1> HIDE DEF v
<1>7. ToSet(v) \subseteq Rows(s) BY <1>3, <1>4, <1>6
<1> QED BY <1>0, <1>4, <1>5, <1>7, Narrowed

LEMMA EntrySizesAre ==
  ASSUME NEW s \in Sessions, NEW w \in Seq(Rows(s))
  PROVE  EntrySizes(w) \in Seq(Nat) /\ Len(EntrySizes(w)) = Len(w)
<1>1. Len(w) \in Nat /\ DOMAIN w = 1..Len(w) OBVIOUS
<1>2. ASSUME NEW n \in 1..Len(w) PROVE EntrySize(w[n]) \in Nat
  <2>1. w[n] \in Rows(s) BY <1>1
  <2>2. w[n].text \in Texts BY <2>1 DEF Rows
  <2>3. Chars[w[n].text] \in Nat /\ Escapes[w[n].text] \in Nat BY <2>2, TextsAssumption
  <2>4. Label(w[n].kind) \in Nat BY DEF Label
  <2>5. ENTRY_CHARS \in Nat
    BY DEF ENTRY_CHARS, KNOWLEDGE_SLOT_BUDGET, KNOWLEDGE_HEADER, RETRIEVAL_TOP_K
  <2>6. truncate_to_chars(Label(w[n].kind) + Chars[w[n].text], ENTRY_CHARS) \in Nat
    BY <2>3, <2>4, <2>5 DEF truncate_to_chars
  <2> QED BY <2>3, <2>6 DEF EntrySize
<1>3. EntrySizes(w) = [n \in 1..Len(w) |-> EntrySize(w[n])] BY <1>1 DEF EntrySizes
<1>4. EntrySizes(w) \in [1..Len(w) -> Nat] BY <1>2, <1>3
<1> QED BY <1>1, <1>4

LEMMA EntrySizesHead ==
  ASSUME NEW s \in Sessions, NEW w \in Seq(Rows(s)), NEW n \in 0..Len(w)
  PROVE  SubSeq(EntrySizes(w), 1, n) = EntrySizes(SubSeq(w, 1, n))
<1> DEFINE v == SubSeq(w, 1, n)
<1>1. Len(w) \in Nat /\ DOMAIN w = 1..Len(w) /\ 1 \in 1..(Len(w) + 1) /\ 1 <= n + 1
      /\ n - 1 + 1 = n /\ n \in Nat
  OBVIOUS
<1>2. v \in Seq(Rows(s)) /\ Len(v) = n - 1 + 1
      /\ \A k \in 1..(n - 1 + 1) : v[k] = w[1 + k - 1]
  BY <1>1, PartIs
<1>3. \A k \in 1..n : v[k] = w[k] /\ 1 + k - 1 = k
  <2> HIDE DEF v
  <2> QED BY <1>1, <1>2
<1> HIDE DEF v
<1>4. EntrySizes(w) \in Seq(Nat) /\ Len(EntrySizes(w)) = Len(w) BY EntrySizesAre
<1>5. EntrySizes(v) \in Seq(Nat) /\ Len(EntrySizes(v)) = n BY <1>1, <1>2, EntrySizesAre
<1> DEFINE u == SubSeq(EntrySizes(w), 1, n)
<1>6. u \in Seq(Nat) /\ Len(u) = n - 1 + 1
      /\ \A k \in 1..(n - 1 + 1) : u[k] = EntrySizes(w)[1 + k - 1]
  BY <1>1, <1>4, PartIs
<1>7. \A k \in 1..n : u[k] = EntrySizes(w)[k]
  <2> HIDE DEF u
  <2> QED BY <1>1, <1>3, <1>6
<1> HIDE DEF u
<1>8. \A k \in 1..n : EntrySizes(w)[k] = EntrySize(w[k]) /\ EntrySizes(v)[k] = EntrySize(v[k])
  BY <1>1, <1>2 DEF EntrySizes
<1>9. \A k \in 1..n : u[k] = EntrySizes(v)[k] BY <1>3, <1>7, <1>8
<1>10. u = EntrySizes(v) BY <1>1, <1>5, <1>6, <1>9, SeqEqual
<1> QED BY <1>10 DEF u, v

\* A knowledge slot: rows of the search in its order, screened, inside the budget.
Quotable(q, s) ==
  /\ q \in Seq(Rows(s)) /\ InOrder(q)
  /\ \A k \in 1..Len(q) : q[k].text \notin Suspect
  /\ q # <<>> => Tokens(Joined(KNOWLEDGE_HEADER, EntrySizes(q))) <= KNOWLEDGE_SLOT_BUDGET

LEMMA RenderedIsQuotable ==
  ASSUME NEW s \in Sessions, NEW found \in Seq(Rows(s)), InOrder(found)
  PROVE  Quotable(render_knowledge_slot(found), s)
<1> DEFINE kept == Clean(found)
           sizes == EntrySizes(kept)
           n == Fit(KNOWLEDGE_HEADER, sizes, KNOWLEDGE_SLOT_BUDGET)
           q == SubSeq(kept, 1, n)
<1>0. q = render_knowledge_slot(found) BY DEF render_knowledge_slot
<1>1. kept \in Seq(Rows(s)) /\ \A k \in 1..Len(kept) : kept[k].text \notin Suspect
  BY CleanIs
<1>2. InOrder(kept) BY OrderKept DEF Clean
<1> HIDE DEF kept
<1>3. sizes \in Seq(Nat) /\ Len(sizes) = Len(kept) BY <1>1, EntrySizesAre
<1> HIDE DEF sizes
<1>4. KNOWLEDGE_HEADER \in Nat /\ KNOWLEDGE_SLOT_BUDGET \in Int
  BY DEF KNOWLEDGE_HEADER, KNOWLEDGE_SLOT_BUDGET
<1>5. n \in 0..Len(kept)
      /\ (n = 0 \/ Tokens(Joined(KNOWLEDGE_HEADER, SubSeq(sizes, 1, n)))
                     <= KNOWLEDGE_SLOT_BUDGET)
  BY <1>3, <1>4, FitIs
<1> HIDE DEF n
<1>6. Len(kept) \in Nat /\ 1 \in 1..(Len(kept) + 1) /\ 1 <= n + 1 /\ n - 1 + 1 = n
  BY <1>1, <1>5
<1>7. q \in Seq(Rows(s)) /\ Len(q) = n - 1 + 1
      /\ \A k \in 1..(n - 1 + 1) : q[k] = kept[1 + k - 1]
  BY <1>1, <1>5, <1>6, PartIs
<1>8. InOrder(q) BY <1>1, <1>2, <1>5, OrderKept
<1>9. SubSeq(sizes, 1, n) = EntrySizes(q) BY <1>1, <1>5, EntrySizesHead DEF sizes
<1> HIDE DEF q
<1>10. \A k \in 1..Len(q) : q[k].text \notin Suspect
  <2> SUFFICES ASSUME NEW k \in 1..n PROVE q[k].text \notin Suspect BY <1>6, <1>7
  <2>1. 1 + k - 1 = k /\ k \in 1..Len(kept) BY <1>5, <1>6
  <2>2. q[k] = kept[k] BY <1>6, <1>7, <2>1
  <2> QED BY <1>1, <2>1, <2>2
<1>11. q # <<>> => n # 0 BY <1>6, <1>7
<1> QED BY <1>0, <1>5, <1>7, <1>8, <1>9, <1>10, <1>11 DEF Quotable

-----------------------------------------------------------------------------
Told == [text : Texts]

LEMMA IssueSizesAre ==
  ASSUME NEW w \in Seq(Told)
  PROVE  IssueSizes(w) \in Seq(Nat) /\ Len(IssueSizes(w)) = Len(w)
<1>1. Len(w) \in Nat /\ DOMAIN w = 1..Len(w) OBVIOUS
<1>2. ASSUME NEW n \in 1..Len(w) PROVE IssueSize(w[n]) \in Nat
  <2>1. w[n] \in Told BY <1>1
  <2>2. w[n].text \in Texts BY <2>1 DEF Told
  <2> QED BY <2>2, TextsAssumption DEF IssueSize
<1>3. IssueSizes(w) = [n \in 1..Len(w) |-> IssueSize(w[n])] BY <1>1 DEF IssueSizes
<1>4. IssueSizes(w) \in [1..Len(w) -> Nat] BY <1>2, <1>3
<1> QED BY <1>1, <1>4

LEMMA IssueSizesHead ==
  ASSUME NEW w \in Seq(Told), NEW n \in 0..Len(w)
  PROVE  SubSeq(IssueSizes(w), 1, n) = IssueSizes(SubSeq(w, 1, n))
<1> DEFINE v == SubSeq(w, 1, n)
<1>1. Len(w) \in Nat /\ DOMAIN w = 1..Len(w) /\ 1 \in 1..(Len(w) + 1) /\ 1 <= n + 1
      /\ n - 1 + 1 = n /\ n \in Nat
  OBVIOUS
<1>2. v \in Seq(Told) /\ Len(v) = n - 1 + 1
      /\ \A k \in 1..(n - 1 + 1) : v[k] = w[1 + k - 1]
  BY <1>1, PartIs
<1>3. \A k \in 1..n : v[k] = w[k] /\ 1 + k - 1 = k
  <2> HIDE DEF v
  <2> QED BY <1>1, <1>2
<1> HIDE DEF v
<1>4. IssueSizes(w) \in Seq(Nat) /\ Len(IssueSizes(w)) = Len(w) BY IssueSizesAre
<1>5. IssueSizes(v) \in Seq(Nat) /\ Len(IssueSizes(v)) = n BY <1>1, <1>2, IssueSizesAre
<1> DEFINE u == SubSeq(IssueSizes(w), 1, n)
<1>6. u \in Seq(Nat) /\ Len(u) = n - 1 + 1
      /\ \A k \in 1..(n - 1 + 1) : u[k] = IssueSizes(w)[1 + k - 1]
  BY <1>1, <1>4, PartIs
<1>7. \A k \in 1..n : u[k] = IssueSizes(w)[k]
  <2> HIDE DEF u
  <2> QED BY <1>1, <1>3, <1>6
<1> HIDE DEF u
<1>8. \A k \in 1..n : IssueSizes(w)[k] = IssueSize(w[k]) /\ IssueSizes(v)[k] = IssueSize(v[k])
  BY <1>1, <1>2 DEF IssueSizes
<1>9. \A k \in 1..n : u[k] = IssueSizes(v)[k] BY <1>3, <1>7, <1>8
<1>10. u = IssueSizes(v) BY <1>1, <1>5, <1>6, <1>9, SeqEqual
<1> QED BY <1>10 DEF u, v

\* The newest issue that is not suspect comes first, and the lines fit what the identity line
\* leaves.
LEMMA ProfileShows ==
  ASSUME NEW told \in Seq(Told), NEW identity \in Nat,
         NEW shown, shown = compose_profile_slot(identity, told)
  PROVE  /\ \A k \in DOMAIN shown : shown[k].text \notin Suspect
         /\ shown # <<>> =>
              /\ shown[1] = told[Max({k \in DOMAIN told : told[k].text \notin Suspect})]
              /\ Tokens(identity + 1 + Joined(OPEN_ISSUES_HEADER, IssueSizes(shown)))
                   <= PROFILE_SLOT_BUDGET + 1
<1> DEFINE turned == Reverse(told)
           kept == Clean(turned)
           sizes == IssueSizes(kept)
           budget == PROFILE_SLOT_BUDGET - Tokens(identity)
           n == Fit(OPEN_ISSUES_HEADER, sizes, budget)
           q == SubSeq(kept, 1, n)
           fresh == {k \in DOMAIN told : told[k].text \notin Suspect}
<1>0. q = shown BY DEF compose_profile_slot, render_open_issues
<1>1. Len(told) \in Nat /\ DOMAIN told = 1..Len(told) OBVIOUS
<1>2. /\ turned \in Seq(Told) /\ Len(turned) = Len(told)
      /\ \A k \in 1..Len(told) : turned[k] = told[Len(told) - k + 1]
  <2>1. turned = [k \in 1..Len(told) |-> told[(Len(told) - k) + 1]] BY DEF Reverse
  <2>2. \A k \in 1..Len(told) : told[(Len(told) - k) + 1] \in Told BY <1>1
  <2>3. turned \in [1..Len(told) -> Told] BY <2>1, <2>2
  <2> HIDE DEF turned
  <2> QED BY <1>1, <2>1, <2>3
<1> HIDE DEF turned
<1>3. /\ kept \in Seq(Told)
      /\ \A k \in 1..Len(kept) : kept[k].text \notin Suspect
      /\ kept # <<>> => \E i \in 1..Len(turned) :
           /\ kept[1] = turned[i] /\ turned[i].text \notin Suspect
           /\ \A j \in 1..Len(turned) : j < i => turned[j].text \in Suspect
  BY <1>2, CleanIs
<1> HIDE DEF kept
<1>4. sizes \in Seq(Nat) /\ Len(sizes) = Len(kept) BY <1>3, IssueSizesAre
<1> HIDE DEF sizes
<1>5. OPEN_ISSUES_HEADER \in Nat /\ Tokens(identity) \in Int /\ budget \in Int
      /\ PROFILE_SLOT_BUDGET \in Int
  BY TokensInt DEF OPEN_ISSUES_HEADER, PROFILE_SLOT_BUDGET
<1> HIDE DEF budget
<1>6. n \in 0..Len(kept)
      /\ (n = 0 \/ Tokens(Joined(OPEN_ISSUES_HEADER, SubSeq(sizes, 1, n))) <= budget)
  BY <1>4, <1>5, FitIs
<1> HIDE DEF n
<1>7. Len(kept) \in Nat /\ 1 \in 1..(Len(kept) + 1) /\ 1 <= n + 1 /\ n - 1 + 1 = n
  BY <1>3, <1>6
<1>8. q \in Seq(Told) /\ Len(q) = n - 1 + 1
      /\ \A k \in 1..(n - 1 + 1) : q[k] = kept[1 + k - 1]
  BY <1>3, <1>6, <1>7, PartIs
<1>9. SubSeq(sizes, 1, n) = IssueSizes(q) BY <1>3, <1>6, IssueSizesHead DEF sizes
<1> HIDE DEF q
<1>10. ASSUME NEW k \in 1..n PROVE q[k] = kept[k] /\ q[k].text \notin Suspect
  <2>1. 1 + k - 1 = k /\ k \in 1..Len(kept) BY <1>6, <1>7
  <2>2. q[k] = kept[k] BY <1>7, <1>8, <2>1
  <2> QED BY <1>3, <2>1, <2>2
<1>11. DOMAIN q = 1..n BY <1>7, <1>8
<1>12. ASSUME q # <<>>
       PROVE  /\ q[1] = told[Max(fresh)]
              /\ Tokens(identity + 1 + Joined(OPEN_ISSUES_HEADER, IssueSizes(q)))
                   <= PROFILE_SLOT_BUDGET + 1
  <2>1. n # 0 /\ 1 \in 1..n BY <1>6, <1>7, <1>8, <1>12
  <2>2. kept # <<>> /\ q[1] = kept[1] BY <1>3, <1>6, <1>10, <2>1
  <2>3. PICK i \in 1..Len(told) :
          /\ kept[1] = turned[i] /\ turned[i].text \notin Suspect
          /\ \A j \in 1..Len(told) : j < i => turned[j].text \in Suspect
    BY <1>2, <1>3, <2>2
  <2> DEFINE m == Len(told) - i + 1
  <2>4. m \in 1..Len(told) /\ turned[i] = told[m] BY <1>1, <1>2
  <2>5. m \in fresh BY <1>1, <2>3, <2>4
  <2>6. ASSUME NEW k \in fresh PROVE m >= k
    <3>1. k \in 1..Len(told) /\ told[k].text \notin Suspect BY <1>1
    <3> DEFINE j == Len(told) - k + 1
    <3>2. j \in 1..Len(told) /\ Len(told) - j + 1 = k BY <1>1, <3>1
    <3>3. turned[j] = told[k] BY <1>2, <3>2
    <3>4. ~(j < i) BY <2>3, <3>1, <3>2, <3>3
    <3> QED BY <1>1, <3>1, <3>4
  <2>7. Max(fresh) = m
    <3>1. \A x \in fresh : x \in Int BY <1>1
    <3> HIDE DEF fresh, m
    <3> DEFINE c == CHOOSE x \in fresh : \A y \in fresh : x >= y
    <3>2. c \in fresh /\ \A y \in fresh : c >= y BY <2>5, <2>6
    <3>3. c = Max(fresh) BY DEF Max
    <3> HIDE DEF c
    <3> QED BY <2>5, <2>6, <3>1, <3>2, <3>3
  <2>8. q[1] = told[Max(fresh)] BY <2>2, <2>3, <2>4, <2>7
  <2> DEFINE lines == Joined(OPEN_ISSUES_HEADER, IssueSizes(q))
  <2>9. lines \in Nat BY <1>5, <1>8, IssueSizesAre, JoinedNat
  <2>10. Tokens(lines) <= budget BY <1>6, <1>9, <2>1
  <2> HIDE DEF lines
  <2>11. Tokens(lines) \in Int /\ Tokens(identity + 1 + lines) \in Int
    BY <2>9, TokensInt
  <2>12. Tokens(identity + 1 + lines) <= Tokens(identity) + Tokens(lines) + 1
    BY <2>9, TokensTogether
  <2>13. Tokens(identity) + Tokens(lines) <= PROFILE_SLOT_BUDGET
    BY <1>5, <2>10, <2>11 DEF budget
  <2>14. Tokens(identity + 1 + lines) <= PROFILE_SLOT_BUDGET + 1
    BY <1>5, <2>11, <2>12, <2>13
  <2> QED BY <2>8, <2>14 DEF lines
<1> HIDE DEF fresh
<1> QED BY <1>0, <1>10, <1>11, <1>12 DEF fresh

\* What a search found, what Redis holds of it and the issues a merchant has.
QuoteInv ==
  /\ hits = [s \in Sessions |-> hits[s]] /\ slot = [s \in Sessions |-> slot[s]]
  /\ \A s \in Sessions : hits[s] \in Seq(Rows(s)) /\ InOrder(hits[s])
  /\ \A s \in Sessions : slot[s] = Null \/ Quotable(slot[s], s)
  /\ issues \in [Merchants -> Seq(Told)]

LEMMA NothingFound == ASSUME NEW s \in Sessions PROVE <<>> \in Seq(Rows(s)) /\ InOrder(<<>>)
BY DEF InOrder

\* A finite set can be listed.
LEMMA Listed ==
  ASSUME NEW S, IsFiniteSet(S)
  PROVE  SetToSeq(S) \in Seq(S)
<1> DEFINE n == Cardinality(S)
           f == CHOOSE g \in [1..n -> S] : IsInjective(g)
<1>1. n \in Nat /\ ExistsBijection(1..n, S) BY FS_CardinalityType
<1>2. \E g \in [1..n -> S] : IsInjective(g)
  BY <1>1 DEF ExistsBijection, Bijection, Injection
<1>3. f \in [1..n -> S] BY <1>2
<1>4. f = SetToSeq(S) BY DEF SetToSeq
<1> HIDE DEF f, n
<1> QED BY <1>1, <1>3, <1>4

LEMMA InitQuoteInv == RecallInit => QuoteInv
<1> SUFFICES ASSUME RecallInit PROVE QuoteInv OBVIOUS
<1>1. hits = [s \in Sessions |-> <<>>] /\ slot = [s \in Sessions |-> Null] BY DEF RecallInit
<1>2. ASSUME NEW m \in Merchants
      PROVE  SetToSeq({Issue(s) : s \in {p \in Past : Owner[p] = m}}) \in Seq(Told)
  <2> DEFINE calls == {p \in Past : Owner[p] = m}
             told == {Issue(s) : s \in calls}
             f == [s \in calls |-> Issue(s)]
  <2>1. calls \subseteq Sessions /\ IsFiniteSet(Sessions) BY RecallAssumption
  <2>2. IsFiniteSet(calls) BY <2>1, FS_Subset
  <2>3. f \in Surjection(calls, told) BY DEF Surjection
  <2>4. told \subseteq Told BY <2>1, RecallAssumption DEF Issue, Told
  <2> HIDE DEF f, told, calls
  <2>5. IsFiniteSet(told) BY <2>2, <2>3, FS_Surjection
  <2>6. SetToSeq(told) \in Seq(told) BY <2>5, Listed
  <2>7. ToSet(SetToSeq(told)) \subseteq Told
    <3> DEFINE w == SetToSeq(told)
    <3>1. w \in Seq(told) BY <2>6
    <3> HIDE DEF w
    <3>2. ToSet(w) \subseteq Told BY <2>4, <3>1 DEF ToSet
    <3> QED BY <3>2 DEF w
  <2>8. SetToSeq(told) \in Seq(Told) BY <2>6, <2>7, Narrowed
  <2> QED BY <2>8 DEF told, calls
<1>3. issues = [m \in Merchants |-> SetToSeq({Issue(s) : s \in {p \in Past : Owner[p] = m}})]
  BY DEF RecallInit
<1>4. issues \in [Merchants -> Seq(Told)] BY <1>2, <1>3
<1> QED BY <1>1, <1>4, NothingFound DEF QuoteInv

LEMMA QuoteStep ==
  ASSUME RecallInv, QuoteInv, [RecallNext]_recallVars
  PROVE  QuoteInv'
<1> USE DEF kbVars, seedVars, callVars, pastVars
<1>0. CASE UNCHANGED <<hits, slot, issues>> BY <1>0 DEF QuoteInv
<1>1. CASE Seeder
  BY <1>0, <1>1 DEF Seeder, SeedStarts, EmbedChunks, SeedCommits, SeedFails
<1>2. CASE UNCHANGED recallVars BY <1>0, <1>2 DEF recallVars
<1>3. ASSUME NEW s \in Sessions, Call(s) PROVE QuoteInv'
  <2>1. ASSUME UNCHANGED <<slot, issues>>, NEW found \in Seq(Rows(s)), InOrder(found),
               hits' = [hits EXCEPT ![s] = found]
        PROVE  QuoteInv'
    BY <2>1 DEF QuoteInv
  <2>2. CASE Search(s)
    <3>1. PICK results \in Results(s) : hits' = [hits EXCEPT ![s] = Relevant(results)]
      BY <2>2 DEF Search
    <3>2. UNCHANGED <<slot, issues>> BY <2>2 DEF Search
    <3> QED BY <2>1, <3>1, <3>2, SearchFinds
  <2>3. CASE PrefetchSkipped(s) \/ Killed(s)
    <3>1. hits' = [hits EXCEPT ![s] = <<>>] /\ UNCHANGED <<slot, issues>>
      BY <2>3 DEF PrefetchSkipped, Killed, Prefetched
    <3> QED BY <2>1, <3>1, NothingFound
  <2>4. ASSUME Store(s) \/ UNCHANGED slot, UNCHANGED issues, hits' = [hits EXCEPT ![s] = <<>>]
        PROVE  QuoteInv'
    <3>1. Quotable(render_knowledge_slot(hits[s]), s) BY RenderedIsQuotable DEF QuoteInv
    <3>2. slot' = [slot EXCEPT ![s] = render_knowledge_slot(hits[s])] \/ slot' = slot
      BY <2>4 DEF Store
    <3>3. slot' = [t \in Sessions |-> slot'[t]] BY <3>2 DEF QuoteInv
    <3>4. \A t \in Sessions : slot'[t] = Null \/ Quotable(slot'[t], t)
      BY <3>1, <3>2 DEF QuoteInv
    <3>5. /\ hits' = [t \in Sessions |-> hits'[t]]
          /\ \A t \in Sessions : hits'[t] \in Seq(Rows(t)) /\ InOrder(hits'[t])
      BY <2>4, NothingFound DEF QuoteInv
    <3>6. issues' \in [Merchants -> Seq(Told)] BY <2>4 DEF QuoteInv
    <3> QED BY <3>3, <3>4, <3>5, <3>6 DEF QuoteInv
  <2>5. CASE StorePrefetch(s) BY <2>4, <2>5 DEF StorePrefetch, Prefetched
  <2>6. CASE PrefetchFails(s) BY <2>4, <2>6 DEF PrefetchFails, Prefetched
  <2>7. CASE Expires(s) BY <2>7 DEF Expires, QuoteInv
  <2>8. CASE CallEnds(s) \/ SaveCommits(s) \/ SaveFails(s)
    BY <1>0, <2>8 DEF CallEnds, SaveCommits, SaveFails, Saved
  <2>9. CASE MergeProfile(s)
    <3>1. UNCHANGED <<hits, slot>> BY <2>9 DEF MergeProfile
    <3>2. issues' = issues \/ issues' = [issues EXCEPT ![Owner[s]] = Append(@, Issue(s))]
      BY <2>9 DEF MergeProfile
    <3>3. Issue(s) \in Told BY RecallAssumption DEF Issue, Told
    <3>4. Owner[s] \in Merchants BY DEF Merchants
    <3>5. issues \in [Merchants -> Seq(Told)] BY DEF QuoteInv
    <3>6. Append(issues[Owner[s]], Issue(s)) \in Seq(Told) BY <3>3, <3>4, <3>5
    <3>7. issues' \in [Merchants -> Seq(Told)] BY <3>2, <3>5, <3>6
    <3> QED BY <3>1, <3>7 DEF QuoteInv
  <2> QED BY <1>3, <2>2, <2>3, <2>5, <2>6, <2>7, <2>8, <2>9 DEF Call
<1> QED BY <1>1, <1>2, <1>3 DEF RecallNext

\* For every knowledge base, every merchant's history and every text: what the prompts of a
\* call quote as knowledge is in its merchant's scope, above the floor, screened, in order and
\* inside the budget, and the profile slot shows the newest issues that pass the screen, at
\* most one token over the budget it shares with the identity line.
THEOREM PromptsQuoteInScope == RecallSpec => []PromptQuotes
<1>1. ASSUME QuoteInv PROVE PromptQuotes
  <2> SUFFICES ASSUME NEW s \in Sessions
        PROVE LET quoted == Prompt(s).knowledge
                  shown  == Prompt(s).user_profile
                  told   == issues[Owner[s]]
                  fresh  == {k \in DOMAIN told : told[k].text \notin Suspect}
              IN /\ \A n \in DOMAIN quoted :
                      /\ quoted[n].owner \in {Null, Owner[s]} /\ quoted[n].text \notin Suspect
                      /\ Similarity[quoted[n].text] >= RETRIEVAL_FLOOR
                 /\ InOrder(quoted)
                 /\ quoted # <<>> =>
                      Tokens(Joined(KNOWLEDGE_HEADER, EntrySizes(quoted)))
                        <= KNOWLEDGE_SLOT_BUDGET
                 /\ \A n \in DOMAIN shown : shown[n].text \notin Suspect
                 /\ shown # <<>> =>
                      /\ shown[1] = told[Max(fresh)]
                      /\ Tokens(Identity[Owner[s]] + 1
                                  + Joined(OPEN_ISSUES_HEADER, IssueSizes(shown)))
                           <= PROFILE_SLOT_BUDGET + 1
    BY DEF PromptQuotes
  <2> DEFINE quoted == KnowledgeSlot(s)
             shown == ProfileSlot(s)
             told == issues[Owner[s]]
  <2>1. Prompt(s).knowledge = quoted /\ Prompt(s).user_profile = shown BY DEF Prompt
  <2>2. Owner[s] \in Merchants /\ Identity[Owner[s]] \in Nat BY RecallAssumption DEF Merchants
  <2>3. told \in Seq(Told) BY <1>1, <2>2 DEF QuoteInv
  <2>4. shown = compose_profile_slot(Identity[Owner[s]], told) BY DEF ProfileSlot
  <2>5. quoted = <<>> \/ Quotable(quoted, s) BY <1>1 DEF QuoteInv, KnowledgeSlot
  <2> HIDE DEF quoted, shown, told
  <2>6. /\ \A n \in DOMAIN quoted :
             /\ quoted[n].owner \in {Null, Owner[s]} /\ quoted[n].text \notin Suspect
             /\ Similarity[quoted[n].text] >= RETRIEVAL_FLOOR
        /\ InOrder(quoted)
        /\ quoted # <<>> =>
             Tokens(Joined(KNOWLEDGE_HEADER, EntrySizes(quoted))) <= KNOWLEDGE_SLOT_BUDGET
    <3>1. CASE quoted = <<>> BY <3>1, NothingFound
    <3>2. CASE Quotable(quoted, s)
      <4>1. quoted \in Seq(Rows(s)) BY <3>2 DEF Quotable
      <4>2. \A n \in DOMAIN quoted : quoted[n] \in Rows(s) /\ n \in 1..Len(quoted) BY <4>1
      <4>3. \A n \in DOMAIN quoted : /\ quoted[n].owner \in {Null, Owner[s]}
                                     /\ Similarity[quoted[n].text] >= RETRIEVAL_FLOOR
        BY <4>2 DEF Rows
      <4> QED BY <3>2, <4>2, <4>3 DEF Quotable
    <3> QED BY <2>5, <3>1, <3>2
  <2>7. /\ \A k \in DOMAIN shown : shown[k].text \notin Suspect
        /\ shown # <<>> =>
             /\ shown[1] = told[Max({k \in DOMAIN told : told[k].text \notin Suspect})]
             /\ Tokens(Identity[Owner[s]] + 1
                         + Joined(OPEN_ISSUES_HEADER, IssueSizes(shown)))
                  <= PROFILE_SLOT_BUDGET + 1
    BY <2>2, <2>3, <2>4, ProfileShows
  <2> QED BY <2>1, <2>6, <2>7 DEF told
<1>2. RecallInv /\ QuoteInv /\ [RecallNext]_recallVars => QuoteInv' BY QuoteStep
<1> QED BY <1>1, <1>2, InitQuoteInv, AlwaysRecallInv, PTL DEF RecallSpec
=============================================================================
