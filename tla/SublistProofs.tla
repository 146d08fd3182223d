--------------------------- MODULE SublistProofs ----------------------------
(***************************************************************************)
(* Lemmas about lists: FlattenSeq, which is a recursive function inside,   *)
(* by an induction over a set of pairs; the items of a list that are of a  *)
(* kind; lists in a row; lists that are sorted; folds.                     *)
(***************************************************************************)
EXTENDS Sublists, FiniteSetTheorems, WellFoundedInduction, TLAPS

(* The least number of a set of natural numbers.                           *)
LEMMA LeastNumber ==
  ASSUME NEW T, T \subseteq Nat, T # {}
  PROVE  \E n \in T : \A m \in T : n <= m
<1>. DEFINE R == OpToRel(<, Nat)
<1>1. PICK n \in T : \A m \in T : ~(<<m, n>> \in R)
  BY NatLessThanWellFounded, WFMin
<1>2. ASSUME NEW m \in T PROVE n <= m
  <2>1. m < n => <<m, n>> \in R
    BY DEF OpToRel
  <2>2. n \in Nat /\ m \in Nat
    OBVIOUS
  <2>3. n <= m
    <3>. HIDE DEF R
    <3>1. ~(m < n)
      BY <1>1, <2>1
    <3>. QED
      BY <2>2, <3>1
  <2>. QED
    BY <2>3
<1>. QED
  BY <1>2

(* Induction, for a property given by the set of the numbers that have it. *)
LEMMA SetInduction ==
  ASSUME NEW P, 0 \in P, \A n \in Nat : n \in P => n + 1 \in P
  PROVE  Nat \subseteq P
<1>1. SUFFICES ASSUME Nat \ P # {} PROVE FALSE
  OBVIOUS
<1>2. PICK n \in Nat \ P : \A m \in Nat \ P : n <= m
  BY <1>1, LeastNumber
<1>3. n # 0 /\ n - 1 \in Nat
  BY <1>2
<1>4. n - 1 \in P
  BY <1>2, <1>3
<1>5. (n - 1) + 1 \in P
  BY <1>3, <1>4
<1>. QED
  BY <1>2, <1>5

(* The function that FlattenSeq takes the last value of.                   *)
Flattens(f, seqs, n) == f = [i \in 1..n |-> IF i = 1 THEN seqs[i] ELSE f[i - 1] \o seqs[i]]

(* What the recursive function of FlattenSeq is.                           *)
LEMMA FlattenExists ==
  ASSUME NEW S, NEW seqs \in Seq(Seq(S))
  PROVE  \A n \in 0..Len(seqs) : \E f \in [1..n -> Seq(S)] : Flattens(f, seqs, n)
<1>. DEFINE P == {n \in Nat : n <= Len(seqs) => \E f \in [1..n -> Seq(S)] : Flattens(f, seqs, n)}
<1>1. 0 \in P
  <2>1. PICK f : f = [i \in 1..0 |-> <<>>]
    OBVIOUS
  <2>2. f \in [1..0 -> Seq(S)]
    BY <2>1
  <2>3. Flattens(f, seqs, 0)
    BY <2>1 DEF Flattens
  <2>. QED
    BY <2>2, <2>3
<1>2. ASSUME NEW n \in Nat, n \in P PROVE n + 1 \in P
  <2>1. CASE n + 1 <= Len(seqs)
    <3>1. PICK f \in [1..n -> Seq(S)] : Flattens(f, seqs, n)
      BY <1>2, <2>1
    <3>2. PICK g : g = [i \in 1..(n + 1) |-> IF i <= n THEN f[i]
                                            ELSE IF n = 0 THEN seqs[n + 1] ELSE f[n] \o seqs[n + 1]]
      OBVIOUS
    <3>3. seqs[n + 1] \in Seq(S) /\ (n # 0 => f[n] \in Seq(S))
      BY <2>1, <3>1
    <3>4. g \in [1..(n + 1) -> Seq(S)]
      <4>1. n # 0 => f[n] \o seqs[n + 1] \in Seq(S)
        BY <3>3
      <4>. QED
        BY <3>2, <3>3, <4>1
    <3>5. ASSUME NEW i \in 1..(n + 1)
          PROVE  g[i] = IF i = 1 THEN seqs[i] ELSE g[i - 1] \o seqs[i]
      <4>1. CASE i <= n
        <5>1. i \in 1..n
          BY <4>1
        <5>2. f[i] = IF i = 1 THEN seqs[i] ELSE f[i - 1] \o seqs[i]
          BY <3>1, <5>1 DEF Flattens
        <5>3. i # 1 => g[i - 1] = f[i - 1]
          BY <3>2, <5>1
        <5>. QED
          BY <3>2, <4>1, <5>2, <5>3
      <4>2. CASE i = n + 1
        <5>1. CASE n = 0
          BY <3>2, <4>2, <5>1
        <5>2. CASE n # 0
          <6>1. n \in 1..(n + 1) /\ n + 1 \in 1..(n + 1) /\ ~(n + 1 <= n) /\ n + 1 # 1 /\ (n + 1) - 1 = n
            BY <5>2
          <6>2. g[n + 1] = f[n] \o seqs[n + 1]
            BY <3>2, <5>2, <6>1, Zenon
          <6>3. g[n] = f[n]
            BY <3>2, <6>1
          <6>. QED
            BY <4>2, <6>1, <6>2, <6>3
        <5>. QED
          BY <5>1, <5>2
      <4>. QED
        BY <4>1, <4>2
    <3>6. Flattens(g, seqs, n + 1)
      BY <3>2, <3>5 DEF Flattens
    <3>. QED
      BY <3>4, <3>6
  <2>. QED
    BY <2>1
<1>3. Nat \subseteq P
  <2>. HIDE DEF P
  <2>. QED
    BY <1>1, <1>2, SetInduction
<1>. QED
  BY <1>3

(* FlattenSeq is the last value of such a function.                        *)
LEMMA FlattenSeqIs ==
  ASSUME NEW S, NEW seqs \in Seq(Seq(S)), Len(seqs) # 0
  PROVE  \E g : /\ g = [i \in 1..Len(seqs) |-> IF i = 1 THEN seqs[i] ELSE g[i - 1] \o seqs[i]]
                /\ FlattenSeq(seqs) = g[Len(seqs)]
<1>1. PICK n \in 0..Len(seqs) : n = Len(seqs)
  OBVIOUS
<1>2. PICK h \in [1..n -> Seq(S)] : Flattens(h, seqs, n)
  BY FlattenExists
<1>3. h = [i \in 1..n |-> IF i = 1 THEN seqs[i] ELSE h[i - 1] \o seqs[i]]
  BY <1>2 DEF Flattens
<1>4. PICK g : g = CHOOSE f : f = [i \in 1..Len(seqs) |-> IF i = 1 THEN seqs[i] ELSE f[i - 1] \o seqs[i]]
  OBVIOUS
<1>5. g = [i \in 1..Len(seqs) |-> IF i = 1 THEN seqs[i] ELSE g[i - 1] \o seqs[i]]
  BY <1>1, <1>3, <1>4, Zenon
<1>6. FlattenSeq(seqs) = g[Len(seqs)]
  BY <1>4, Zenon DEF FlattenSeq
<1>. QED
  BY <1>5, <1>6

(* A property of <<>> that each item hands on holds of the whole.          *)
LEMMA FlattenSeqInduction ==
  ASSUME NEW S, NEW seqs \in Seq(Seq(S)), NEW P,
         <<0, <<>>>> \in P,
         \A n \in 0..(Len(seqs) - 1), w \in Seq(S) : <<n, w>> \in P => <<n + 1, w \o seqs[n + 1]>> \in P
  PROVE  FlattenSeq(seqs) \in Seq(S) /\ <<Len(seqs), FlattenSeq(seqs)>> \in P
<1>1. CASE Len(seqs) = 0
  <2>1. FlattenSeq(seqs) = seqs /\ seqs = <<>>
    BY <1>1 DEF FlattenSeq
  <2>. QED
    BY <1>1, <2>1
<1>2. CASE Len(seqs) # 0
  <2>1. PICK g : /\ g = [i \in 1..Len(seqs) |-> IF i = 1 THEN seqs[i] ELSE g[i - 1] \o seqs[i]]
                 /\ FlattenSeq(seqs) = g[Len(seqs)]
    BY <1>2, FlattenSeqIs
  <2>. DEFINE Q == {m \in Nat : m + 1 <= Len(seqs) => g[m + 1] \in Seq(S) /\ <<m + 1, g[m + 1]>> \in P}
  <2>2. 0 \in Q
    <3>1. seqs[1] \in Seq(S) /\ g[1] = seqs[1] /\ <<>> \in Seq(S) /\ 0 \in 0..(Len(seqs) - 1)
      BY <1>2, <2>1
    <3>2. <<>> \o seqs[1] = seqs[1]
      BY <3>1
    <3>3. <<0 + 1, <<>> \o seqs[0 + 1]>> \in P
      BY <3>1
    <3>4. <<1, seqs[1]>> \in P
      BY <3>2, <3>3
    <3>5. 0 + 1 = 1 /\ 0 \in Nat
      OBVIOUS
    <3>. QED
      BY <3>1, <3>4, <3>5, Zenon
  <2>3. ASSUME NEW m \in Nat, m \in Q PROVE m + 1 \in Q
    <3>1. ASSUME m + 2 <= Len(seqs) PROVE g[m + 2] \in Seq(S) /\ <<m + 2, g[m + 2]>> \in P
      <4>1. m + 2 \in 1..Len(seqs) /\ m + 2 # 1 /\ (m + 2) - 1 = m + 1 /\ m + 1 \in 0..(Len(seqs) - 1)
            /\ (m + 1) + 1 = m + 2
        BY <3>1
      <4>2. g[m + 2] = g[m + 1] \o seqs[m + 2]
        BY <2>1, <4>1
      <4>3. g[m + 1] \in Seq(S) /\ <<m + 1, g[m + 1]>> \in P /\ seqs[m + 2] \in Seq(S)
        BY <2>3, <3>1, <4>1
      <4>4. <<(m + 1) + 1, g[m + 1] \o seqs[(m + 1) + 1]>> \in P
        BY <4>1, <4>3
      <4>. QED
        BY <4>1, <4>2, <4>3, <4>4
    <3>2. m + 1 \in Nat /\ (m + 1) + 1 = m + 2
      OBVIOUS
    <3>3. (m + 1) + 1 <= Len(seqs) =>
            g[(m + 1) + 1] \in Seq(S) /\ <<(m + 1) + 1, g[(m + 1) + 1]>> \in P
      BY <3>1, <3>2
    <3>. QED
      BY <3>2, <3>3, Zenon
  <2>4. Nat \subseteq Q
    <3>. HIDE DEF Q
    <3>. QED
      BY <2>2, <2>3, SetInduction
  <2>5. Len(seqs) - 1 \in Nat /\ (Len(seqs) - 1) + 1 = Len(seqs)
    BY <1>2
  <2>6. Len(seqs) - 1 \in Q
    BY <2>4, <2>5, Zenon
  <2>. QED
    BY <2>1, <2>5, <2>6
<1>. QED
  BY <1>1, <1>2

(* Lists of items make one list of items.                                  *)
LEMMA FlattenSeqType ==
  ASSUME NEW S, NEW seqs \in Seq(Seq(S))
  PROVE  FlattenSeq(seqs) \in Seq(S)
<1>. DEFINE P == (0..Len(seqs)) \X Seq(S)
<1>1. 0 \in 0..Len(seqs) /\ <<>> \in Seq(S)
  OBVIOUS
<1>2. ASSUME NEW n \in 0..(Len(seqs) - 1), NEW w \in Seq(S)
      PROVE  n + 1 \in 0..Len(seqs) /\ w \o seqs[n + 1] \in Seq(S)
  <2>1. n + 1 \in 1..Len(seqs)
    OBVIOUS
  <2>2. seqs[n + 1] \in Seq(S)
    BY <2>1
  <2>. QED
    BY <2>1, <2>2
<1>3. <<0, <<>>>> \in P
  BY <1>1
<1>4. \A n \in 0..(Len(seqs) - 1), w \in Seq(S) : <<n, w>> \in P => <<n + 1, w \o seqs[n + 1]>> \in P
  BY <1>2
<1>. HIDE DEF P
<1>. QED
  BY <1>3, <1>4, FlattenSeqInduction

-----------------------------------------------------------------------------
(* w has the items of seq up to n that are of the kind.                    *)
Keeps(seq, kind, n, w) ==
  \E at \in [1..Len(w) -> {i \in 1..n : seq[i] \in kind}] :
    /\ \A j \in 1..Len(w) : w[j] = seq[at[j]]
    /\ \A j, m \in 1..Len(w) : j < m => at[j] < at[m]
    /\ \A i \in 1..n : seq[i] \in kind => \E j \in 1..Len(w) : at[j] = i

(* One item more.                                                          *)
LEMMA KeepsNext ==
  ASSUME NEW S, NEW seq \in Seq(S), NEW kind, NEW n \in 0..(Len(seq) - 1), NEW w \in Seq(S),
         Keeps(seq, kind, n, w)
  PROVE  Keeps(seq, kind, n + 1, w \o (IF seq[n + 1] \in kind THEN <<seq[n + 1]>> ELSE <<>>))
<1>1. PICK at \in [1..Len(w) -> {i \in 1..n : seq[i] \in kind}] :
        /\ \A j \in 1..Len(w) : w[j] = seq[at[j]]
        /\ \A j, m \in 1..Len(w) : j < m => at[j] < at[m]
        /\ \A i \in 1..n : seq[i] \in kind => \E j \in 1..Len(w) : at[j] = i
  BY DEF Keeps
<1>2. PICK x : x = seq[n + 1]
  OBVIOUS
<1>3. x \in S /\ Len(w) \in Nat
  BY <1>2
<1>4. CASE x \in kind
  <2>1. PICK v : v = w \o <<x>>
    OBVIOUS
  <2>2. v \in Seq(S) /\ Len(v) = Len(w) + 1 /\ v[Len(w) + 1] = x /\ \A j \in 1..Len(w) : v[j] = w[j]
    BY <1>3, <2>1
  <2>3. PICK to : to = [j \in 1..Len(v) |-> IF j <= Len(w) THEN at[j] ELSE n + 1]
    OBVIOUS
  <2>4. to \in [1..Len(v) -> {i \in 1..(n + 1) : seq[i] \in kind}]
    BY <1>1, <1>2, <1>3, <1>4, <2>2, <2>3
  <2>5. \A j \in 1..Len(v) : v[j] = seq[to[j]]
    BY <1>1, <1>2, <1>3, <2>2, <2>3
  <2>6. \A j, m \in 1..Len(v) : j < m => to[j] < to[m]
    BY <1>1, <1>3, <2>2, <2>3
  <2>7. ASSUME NEW i \in 1..(n + 1), seq[i] \in kind PROVE \E j \in 1..Len(v) : to[j] = i
    <3>1. CASE i = n + 1
      <4>1. Len(v) \in 1..Len(v) /\ to[Len(v)] = i
        BY <1>3, <2>2, <2>3, <3>1
      <4>. QED
        BY <4>1
    <3>2. CASE i # n + 1
      <4>1. PICK j \in 1..Len(w) : at[j] = i
        BY <1>1, <2>7, <3>2
      <4>. QED
        BY <1>3, <2>2, <2>3, <4>1
    <3>. QED
      BY <3>1, <3>2
  <2>8. Keeps(seq, kind, n + 1, v)
    BY <2>4, <2>5, <2>6, <2>7 DEF Keeps
  <2>. QED
    BY <1>2, <1>4, <2>1, <2>8
<1>5. CASE x \notin kind
  <2>1. w \o <<>> = w
    OBVIOUS
  <2>2. at \in [1..Len(w) -> {i \in 1..(n + 1) : seq[i] \in kind}]
    BY <1>1
  <2>3. ASSUME NEW i \in 1..(n + 1), seq[i] \in kind PROVE \E j \in 1..Len(w) : at[j] = i
    <3>1. i \in 1..n
      BY <1>2, <1>5, <2>3
    <3>. QED
      BY <1>1, <2>3, <3>1
  <2>4. Keeps(seq, kind, n + 1, w)
    BY <1>1, <2>2, <2>3 DEF Keeps
  <2>. QED
    BY <1>2, <1>5, <2>1, <2>4
<1>. QED
  BY <1>4, <1>5

(* Within has the items of the kind and no others, in the order of the     *)
(* list.                                                                   *)
LEMMA WithinKeeps ==
  ASSUME NEW S, NEW seq \in Seq(S), NEW kind
  PROVE  Within(seq, kind) \in Seq(S) /\ Keeps(seq, kind, Len(seq), Within(seq, kind))
<1>. DEFINE P == {p \in (0..Len(seq)) \X Seq(S) : Keeps(seq, kind, p[1], p[2])}
<1>1. PICK seqs : seqs = [i \in DOMAIN seq |-> IF seq[i] \in kind THEN <<seq[i]>> ELSE <<>>]
  OBVIOUS
<1>2. seqs \in Seq(Seq(S)) /\ Len(seqs) = Len(seq)
  <2>1. \A i \in 1..Len(seq) : <<seq[i]>> \in Seq(S) /\ <<>> \in Seq(S)
    OBVIOUS
  <2>2. DOMAIN seq = 1..Len(seq) /\ Len(seq) \in Nat
    OBVIOUS
  <2>3. seqs \in [1..Len(seq) -> Seq(S)]
    BY <1>1, <2>1, <2>2
  <2>. QED
    BY <2>2, <2>3
<1>3. <<0, <<>>>> \in P
  <2>1. <<>> \in Seq(S) /\ Len(<<>>) = 0
    OBVIOUS
  <2>2. PICK none : none = <<>> /\ none \in Seq(S) /\ Len(none) = 0
    BY <2>1
  <2>3. none \in Seq(S) /\ 0 \in 0..Len(seq)
    BY <2>2
  <2>4. PICK at : at = [i \in 1..0 |-> 0]
    OBVIOUS
  <2>5. at \in [1..Len(none) -> {i \in 1..0 : seq[i] \in kind}] /\ 1..Len(none) = {} /\ 1..0 = {}
    BY <2>2, <2>4
  <2>6. Keeps(seq, kind, 0, none)
    BY <2>5 DEF Keeps
  <2>7. <<0, none>> \in P
    BY <2>3, <2>6
  <2>. QED
    BY <2>2, <2>7
<1>4. \A n \in 0..(Len(seqs) - 1), w \in Seq(S) : <<n, w>> \in P => <<n + 1, w \o seqs[n + 1]>> \in P
  <2>1. SUFFICES ASSUME NEW n \in 0..(Len(seqs) - 1), NEW w \in Seq(S), Keeps(seq, kind, n, w)
                 PROVE  <<n + 1, w \o seqs[n + 1]>> \in P
    OBVIOUS
  <2>2. n + 1 \in 1..Len(seq) /\ n \in 0..(Len(seq) - 1) /\ n + 1 \in 0..Len(seq)
    BY <1>2
  <2>3. seqs[n + 1] = IF seq[n + 1] \in kind THEN <<seq[n + 1]>> ELSE <<>>
    BY <1>1, <2>2
  <2>4. Keeps(seq, kind, n + 1, w \o seqs[n + 1])
    BY <2>1, <2>2, <2>3, KeepsNext
  <2>5. w \o seqs[n + 1] \in Seq(S)
    BY <1>2, <2>2
  <2>. QED
    BY <2>2, <2>4, <2>5
<1>5. FlattenSeq(seqs) \in Seq(S) /\ <<Len(seqs), FlattenSeq(seqs)>> \in P
  <2>. HIDE DEF P
  <2>. QED
    BY <1>2, <1>3, <1>4, FlattenSeqInduction
<1>6. Within(seq, kind) = FlattenSeq(seqs)
  BY <1>1, Zenon DEF Within
<1>. QED
  BY <1>2, <1>5, <1>6

(* What is within a list is in it and of the kind.                         *)
LEMMA WithinType ==
  ASSUME NEW S, NEW seq \in Seq(S), NEW kind
  PROVE  /\ Within(seq, kind) \in Seq(S \cap kind)
         /\ ToSet(Within(seq, kind)) = ToSet(seq) \cap kind
<1>1. PICK w : w = Within(seq, kind)
  OBVIOUS
<1>2. w \in Seq(S) /\ Keeps(seq, kind, Len(seq), w)
  BY <1>1, WithinKeeps
<1>3. PICK at \in [1..Len(w) -> {i \in 1..Len(seq) : seq[i] \in kind}] :
        /\ \A j \in 1..Len(w) : w[j] = seq[at[j]]
        /\ \A i \in 1..Len(seq) : seq[i] \in kind => \E j \in 1..Len(w) : at[j] = i
  BY <1>2 DEF Keeps
<1>4. \A j \in 1..Len(w) : at[j] \in 1..Len(seq) /\ w[j] = seq[at[j]] /\ w[j] \in kind
  BY <1>3
<1>5. w \in [1..Len(w) -> S \cap kind]
  BY <1>2, <1>4
<1>6. ToSet(w) \subseteq ToSet(seq) \cap kind
  BY <1>2, <1>4 DEF ToSet
<1>7. ToSet(seq) \cap kind \subseteq ToSet(w)
  <2>1. SUFFICES ASSUME NEW i \in 1..Len(seq), seq[i] \in kind PROVE seq[i] \in ToSet(w)
    BY DEF ToSet
  <2>2. PICK j \in 1..Len(w) : at[j] = i
    BY <1>3, <2>1
  <2>. QED
    BY <1>2, <1>3, <2>2 DEF ToSet
<1>8. w \in Seq(S \cap kind)
  BY <1>2, <1>5
<1>9. ToSet(w) = ToSet(seq) \cap kind
  BY <1>6, <1>7
<1>. QED
  BY <1>1, <1>8, <1>9, Zenon

(* A list has no more items than its length.                               *)
LEMMA RangeFinite ==
  ASSUME NEW S, NEW seq \in Seq(S)
  PROVE  ToSet(seq) \in SUBSET S /\ IsFiniteSet(ToSet(seq)) /\ Cardinality(ToSet(seq)) \in 0..Len(seq)
<1>1. PICK n \in Nat : n = Len(seq)
  OBVIOUS
<1>2. PICK f : f = [i \in 1..n |-> seq[i]]
  OBVIOUS
<1>3. f \in Surjection(1..n, ToSet(seq))
  BY <1>1, <1>2 DEF Surjection, ToSet
<1>4. IsFiniteSet(1..n) /\ Cardinality(1..n) = n
  BY FS_Interval
<1>5. IsFiniteSet(ToSet(seq)) /\ Cardinality(ToSet(seq)) <= n
  BY <1>3, <1>4, FS_Surjection
<1>. QED
  BY <1>1, <1>5, FS_CardinalityType DEF ToSet

-----------------------------------------------------------------------------
(* An item of a list is at some place of it.                               *)
LEMMA ToSetIs ==
  ASSUME NEW S, NEW seq \in Seq(S), NEW x
  PROVE  x \in ToSet(seq) <=> \E p \in 1..Len(seq) : seq[p] = x
BY DEF ToSet

(* No item is there twice.                                                 *)
Distinct(seq) == \A p, q \in 1..Len(seq) : seq[p] = seq[q] => p = q

(* A list without duplicates has as many items as its length.              *)
LEMMA DistinctLength ==
  ASSUME NEW S, NEW seq \in Seq(S), Distinct(seq)
  PROVE  IsFiniteSet(ToSet(seq)) /\ Cardinality(ToSet(seq)) = Len(seq)
<1>1. PICK n \in Nat : n = Len(seq)
  OBVIOUS
<1>2. PICK f : f = [i \in 1..n |-> seq[i]]
  OBVIOUS
<1>3. f \in Bijection(1..n, ToSet(seq))
  BY <1>1, <1>2 DEF Bijection, Injection, Surjection, IsInjective, ToSet, Distinct
<1>4. IsFiniteSet(1..n) /\ Cardinality(1..n) = n
  BY FS_Interval
<1>. QED
  BY <1>1, <1>3, <1>4, FS_Bijection DEF ExistsBijection

(* Within makes no duplicates.                                             *)
LEMMA WithinDistinct ==
  ASSUME NEW S, NEW seq \in Seq(S), NEW kind, Distinct(seq)
  PROVE  Distinct(Within(seq, kind))
<1>0. PICK w : w = Within(seq, kind)
  OBVIOUS
<1>1. w \in Seq(S) /\ Keeps(seq, kind, Len(seq), w)
  BY <1>0, WithinKeeps
<1>2. PICK at \in [1..Len(w) -> {i \in 1..Len(seq) : seq[i] \in kind}] :
        /\ \A j \in 1..Len(w) : w[j] = seq[at[j]]
        /\ \A j, m \in 1..Len(w) : j < m => at[j] < at[m]
  BY <1>1 DEF Keeps
<1>3. ASSUME NEW p \in 1..Len(w), NEW q \in 1..Len(w), w[p] = w[q] PROVE p = q
  <2>1. at[p] \in 1..Len(seq) /\ at[q] \in 1..Len(seq) /\ w[p] = seq[at[p]] /\ w[q] = seq[at[q]]
    BY <1>2
  <2>2. at[p] = at[q]
    BY <1>3, <2>1 DEF Distinct
  <2>3. ~(p < q) /\ ~(q < p)
    BY <1>2, <2>1, <2>2
  <2>. QED
    BY <1>1, <2>3
<1>4. Distinct(w)
  BY <1>3 DEF Distinct
<1>. QED
  BY <1>0, <1>4

(* Two lists in a row: who is where.                                       *)
LEMMA ConcatIs ==
  ASSUME NEW S, NEW v \in Seq(S), NEW w \in Seq(S), NEW u, u = v \o w
  PROVE  /\ u \in Seq(S) /\ Len(u) = Len(v) + Len(w) /\ Len(v) \in Nat /\ Len(w) \in Nat
         /\ \A p \in 1..Len(v) : p \in 1..Len(u) /\ u[p] = v[p]
         /\ \A p \in 1..Len(w) : p + Len(v) \in 1..Len(u) /\ u[p + Len(v)] = w[p]
         /\ \A p \in 1..Len(u) : p \in 1..Len(v) \/ (p - Len(v) \in 1..Len(w) /\ u[p] = w[p - Len(v)])
<1>1. /\ u \in Seq(S) /\ Len(u) = Len(v) + Len(w) /\ Len(v) \in Nat /\ Len(w) \in Nat
      /\ \A p \in 1..Len(u) : u[p] = IF p <= Len(v) THEN v[p] ELSE w[p - Len(v)]
  OBVIOUS
<1>2. \A p \in 1..Len(v) : p \in 1..Len(u) /\ u[p] = v[p]
  BY <1>1
<1>3. \A p \in 1..Len(w) : p + Len(v) \in 1..Len(u) /\ u[p + Len(v)] = w[p]
  BY <1>1
<1>4. \A p \in 1..Len(u) : p \in 1..Len(v) \/ (p - Len(v) \in 1..Len(w) /\ u[p] = w[p - Len(v)])
  BY <1>1
<1>. QED
  BY <1>1, <1>2, <1>3, <1>4

(* Two lists in a row: who is there.                                       *)
LEMMA ConcatRange ==
  ASSUME NEW S, NEW v \in Seq(S), NEW w \in Seq(S)
  PROVE  v \o w \in Seq(S) /\ ToSet(v \o w) = ToSet(v) \cup ToSet(w)
<1>0. PICK u : u = v \o w
  OBVIOUS
<1>1. /\ u \in Seq(S)
      /\ \A p \in 1..Len(v) : p \in 1..Len(u) /\ u[p] = v[p]
      /\ \A p \in 1..Len(w) : p + Len(v) \in 1..Len(u) /\ u[p + Len(v)] = w[p]
      /\ \A p \in 1..Len(u) : p \in 1..Len(v) \/ (p - Len(v) \in 1..Len(w) /\ u[p] = w[p - Len(v)])
  BY <1>0, ConcatIs
<1>2. ASSUME NEW x PROVE x \in ToSet(u) <=> x \in ToSet(v) \/ x \in ToSet(w)
  <2>1. x \in ToSet(u) <=> \E p \in 1..Len(u) : u[p] = x
    BY <1>1, ToSetIs
  <2>2. x \in ToSet(v) <=> \E p \in 1..Len(v) : v[p] = x
    BY ToSetIs
  <2>3. x \in ToSet(w) <=> \E p \in 1..Len(w) : w[p] = x
    BY ToSetIs
  <2>4. (\E p \in 1..Len(u) : u[p] = x) => (\E p \in 1..Len(v) : v[p] = x) \/ (\E p \in 1..Len(w) : w[p] = x)
    BY <1>1
  <2>5. (\E p \in 1..Len(v) : v[p] = x) \/ (\E p \in 1..Len(w) : w[p] = x) => \E p \in 1..Len(u) : u[p] = x
    BY <1>1
  <2>. QED
    BY <2>1, <2>2, <2>3, <2>4, <2>5
<1>. QED
  BY <1>0, <1>1, <1>2

(* Two lists without duplicates and with no item in common have none       *)
(* together.                                                               *)
LEMMA ConcatFacts ==
  ASSUME NEW S, NEW v \in Seq(S), NEW w \in Seq(S), Distinct(v), Distinct(w), ToSet(v) \cap ToSet(w) = {}
  PROVE  /\ v \o w \in Seq(S) /\ ToSet(v \o w) = ToSet(v) \cup ToSet(w)
         /\ \A p \in 1..Len(v) : p \in 1..Len(v \o w) /\ (v \o w)[p] = v[p]
         /\ Distinct(v \o w)
<1>0. PICK u : u = v \o w
  OBVIOUS
<1>1. /\ u \in Seq(S) /\ Len(v) \in Nat
      /\ \A p \in 1..Len(v) : p \in 1..Len(u) /\ u[p] = v[p]
      /\ \A p \in 1..Len(u) : p \in 1..Len(v) \/ (p - Len(v) \in 1..Len(w) /\ u[p] = w[p - Len(v)])
  BY <1>0, ConcatIs
<1>2. ASSUME NEW p \in 1..Len(u), NEW q \in 1..Len(u), u[p] = u[q] PROVE p = q
  <2>1. p \in 1..Len(v) => u[p] \in ToSet(v)
    BY <1>1, ToSetIs
  <2>2. q \in 1..Len(v) => u[q] \in ToSet(v)
    BY <1>1, ToSetIs
  <2>3. p \notin 1..Len(v) => u[p] \in ToSet(w)
    BY <1>1, ToSetIs
  <2>4. q \notin 1..Len(v) => u[q] \in ToSet(w)
    BY <1>1, ToSetIs
  <2>5. CASE p \in 1..Len(v) /\ q \in 1..Len(v)
    BY <1>1, <1>2, <2>5 DEF Distinct
  <2>6. CASE p \notin 1..Len(v) /\ q \notin 1..Len(v)
    <3>1. p - Len(v) = q - Len(v)
      BY <1>1, <1>2, <2>6 DEF Distinct
    <3>. QED
      BY <1>1, <3>1
  <2>. QED
    BY <1>2, <2>1, <2>2, <2>3, <2>4, <2>5, <2>6
<1>3. Distinct(u)
  BY <1>2 DEF Distinct
<1>. QED
  BY <1>0, <1>1, <1>3, ConcatRange

(* What is in one of the lists is in their concatenation, and nothing      *)
(* else.                                                                   *)
LEMMA FlattenSeqRange ==
  ASSUME NEW S, NEW seqs \in Seq(Seq(S))
  PROVE  /\ FlattenSeq(seqs) \in Seq(S)
         /\ \A x : x \in ToSet(FlattenSeq(seqs)) <=> \E n \in 1..Len(seqs) : x \in ToSet(seqs[n])
<1>. DEFINE Upto(n) == {x \in S : \E m \in 1..n : x \in ToSet(seqs[m])}
            P == {p \in (0..Len(seqs)) \X Seq(S) : ToSet(p[2]) = Upto(p[1])}
<1>1. <<0, <<>>>> \in P
  <2>1. Upto(0) = {}
    OBVIOUS
  <2>2. <<>> \in Seq(S) /\ ToSet(<<>>) = {}
    BY DEF ToSet
  <2>3. PICK none : none = <<>> /\ none \in Seq(S) /\ ToSet(none) = {}
    BY <2>2
  <2>4. 0 \in 0..Len(seqs) /\ ToSet(none) = Upto(0)
    BY <2>1, <2>3
  <2>5. <<0, none>> \in P
    <3>1. <<0, none>> \in (0..Len(seqs)) \X Seq(S) /\ <<0, none>>[1] = 0 /\ <<0, none>>[2] = none
      BY <2>3, <2>4
    <3>2. ToSet(<<0, none>>[2]) = Upto(<<0, none>>[1])
      BY <2>4, <3>1
    <3>. HIDE DEF Upto
    <3>. QED
      BY <3>1, <3>2
  <2>. QED
    BY <2>3, <2>5
<1>2. \A n \in 0..(Len(seqs) - 1), w \in Seq(S) : <<n, w>> \in P => <<n + 1, w \o seqs[n + 1]>> \in P
  <2>1. SUFFICES ASSUME NEW n \in 0..(Len(seqs) - 1), NEW w \in Seq(S), ToSet(w) = Upto(n)
                 PROVE  <<n + 1, w \o seqs[n + 1]>> \in P
    OBVIOUS
  <2>2. n + 1 \in 1..Len(seqs) /\ n + 1 \in 0..Len(seqs) /\ seqs[n + 1] \in Seq(S)
    OBVIOUS
  <2>3. PICK last : last = seqs[n + 1] /\ last \in Seq(S)
    BY <2>2
  <2>4. w \o last \in Seq(S) /\ ToSet(w \o last) = ToSet(w) \cup ToSet(last)
    BY <2>3, ConcatRange
  <2>5. Upto(n + 1) = Upto(n) \cup ToSet(last)
    <3>1. ToSet(last) \subseteq S
      BY <2>3, RangeFinite
    <3>2. \A m \in 1..(n + 1) : m \in 1..n \/ m = n + 1
      OBVIOUS
    <3>3. 1..n \subseteq 1..(n + 1) /\ n + 1 \in 1..(n + 1)
      OBVIOUS
    <3>. QED
      BY <2>3, <3>1, <3>2, <3>3
  <2>6. ToSet(w \o last) = Upto(n + 1)
    BY <2>1, <2>4, <2>5
  <2>. HIDE DEF Upto
  <2>7. <<n + 1, w \o last>> \in P
    BY <2>2, <2>4, <2>6
  <2>. QED
    BY <2>3, <2>7
<1>3. FlattenSeq(seqs) \in Seq(S) /\ <<Len(seqs), FlattenSeq(seqs)>> \in P
  <2>. HIDE DEF P
  <2>. QED
    BY <1>1, <1>2, FlattenSeqInduction
<1>4. ToSet(FlattenSeq(seqs)) = Upto(Len(seqs))
  <2>. HIDE DEF Upto
  <2>. QED
    BY <1>3
<1>5. \A n \in 1..Len(seqs) : ToSet(seqs[n]) \subseteq S
  BY RangeFinite
<1>. QED
  BY <1>3, <1>4, <1>5

(* Within leaves no list longer.                                           *)
LEMMA WithinLength ==
  ASSUME NEW S, NEW seq \in Seq(S), NEW kind
  PROVE  Len(Within(seq, kind)) <= Len(seq)
<1>0. PICK w : w = Within(seq, kind)
  OBVIOUS
<1>1. w \in Seq(S) /\ Keeps(seq, kind, Len(seq), w)
  BY <1>0, WithinKeeps
<1>2. PICK m, n \in Nat : m = Len(w) /\ n = Len(seq)
  BY <1>1
<1>3. PICK at \in [1..m -> {i \in 1..n : seq[i] \in kind}] : \A j, k \in 1..m : j < k => at[j] < at[k]
  BY <1>1, <1>2 DEF Keeps
<1>4. PICK f : f = [j \in 1..m |-> at[j]]
  OBVIOUS
<1>5. f \in Injection(1..m, 1..n)
  <2>1. f \in [1..m -> 1..n] /\ \A j \in 1..m : f[j] \in Nat /\ f[j] = at[j]
    BY <1>3, <1>4
  <2>2. \A j, k \in 1..m : f[j] = f[k] => ~(j < k) /\ ~(k < j)
    BY <1>3, <2>1
  <2>3. \A j, k \in 1..m : f[j] = f[k] => j = k
    BY <2>2
  <2>. QED
    BY <2>1, <2>3 DEF Injection, IsInjective
<1>6. Cardinality(1..m) <= Cardinality(1..n)
  <2>1. PICK M, N : M = 1..m /\ N = 1..n
    OBVIOUS
  <2>2. f \in Injection(M, N) /\ IsFiniteSet(N)
    BY <1>5, <2>1, FS_Interval
  <2>3. Cardinality(M) <= Cardinality(N)
    BY <2>2, FS_Injection
  <2>. QED
    BY <2>1, <2>3
<1>7. m <= n
  <2>1. PICK one \in Int : one = 1
    OBVIOUS
  <2>2. Cardinality(one..m) = IF one > m THEN 0 ELSE m - one + 1
    BY FS_Interval
  <2>3. Cardinality(one..n) = IF one > n THEN 0 ELSE n - one + 1
    BY FS_Interval
  <2>. QED
    BY <1>6, <2>1, <2>2, <2>3
<1>. QED
  BY <1>0, <1>2, <1>7

(* Omitting leaves out what is of the kind and nothing else.               *)
LEMMA OmittingType ==
  ASSUME NEW S, NEW seq \in Seq(S), NEW kind
  PROVE  Omitting(seq, kind) \in Seq(S) /\ ToSet(Omitting(seq, kind)) = ToSet(seq) \ kind
<1>1. PICK w, rest : w = Omitting(seq, kind) /\ rest = ToSet(seq) \ kind
  OBVIOUS
<1>2. w = Within(seq, rest)
  BY <1>1, Zenon DEF Omitting
<1>3. w \in Seq(S)
  BY <1>2, WithinKeeps
<1>4. ToSet(w) = ToSet(seq) \cap rest
  BY <1>2, WithinType
<1>. QED
  BY <1>1, <1>3, <1>4

-----------------------------------------------------------------------------

(* An order by which the items of a set can be sorted.                     *)
Sorts(before, S) ==
  /\ \A x \in S : <<x, x>> \notin before
  /\ \A x, y \in S : x # y => <<x, y>> \in before \/ <<y, x>> \in before
  /\ \A x, y, z \in S : <<x, y>> \in before /\ <<y, z>> \in before => <<x, z>> \in before

(* How many are before an item.                                            *)
Place(S, before, x) == Cardinality({y \in S : <<y, x>> \in before})

(* Who is before another has fewer before it.                              *)
LEMMA PlaceGrows ==
  ASSUME NEW S, IsFiniteSet(S), NEW before, Sorts(before, S), NEW x \in S, NEW y \in S
  PROVE  /\ Place(S, before, x) \in 0..(Cardinality(S) - 1)
         /\ <<x, y>> \in before => Place(S, before, x) < Place(S, before, y)
<1>. DEFINE Pred(z) == {w \in S : <<w, z>> \in before}
<1>1. IsFiniteSet(Pred(x)) /\ IsFiniteSet(Pred(y)) /\ Cardinality(Pred(x)) \in Nat /\ Cardinality(Pred(y)) \in Nat
  <2>1. Pred(x) \in SUBSET S /\ Pred(y) \in SUBSET S
    OBVIOUS
  <2>. HIDE DEF Pred
  <2>. QED
    BY <2>1, FS_Subset, FS_CardinalityType
<1>2. x \notin Pred(x)
  BY DEF Sorts
<1>3. IsFiniteSet(Pred(x) \cup {x}) /\ Cardinality(Pred(x) \cup {x}) = Cardinality(Pred(x)) + 1
  <2>. HIDE DEF Pred
  <2>. QED
    BY <1>1, <1>2, FS_AddElement
<1>4. Cardinality(S) \in Nat /\ Cardinality(Pred(x)) + 1 <= Cardinality(S)
  <2>1. Pred(x) \cup {x} \in SUBSET S
    OBVIOUS
  <2>. HIDE DEF Pred
  <2>2. Cardinality(Pred(x) \cup {x}) <= Cardinality(S)
    BY <2>1, FS_Subset
  <2>. QED
    BY <1>3, <2>2, FS_CardinalityType
<1>5. ASSUME <<x, y>> \in before PROVE Cardinality(Pred(x)) + 1 <= Cardinality(Pred(y))
  <2>1. Pred(x) \cup {x} \in SUBSET Pred(y)
    BY <1>5 DEF Sorts
  <2>. HIDE DEF Pred
  <2>. QED
    BY <1>1, <1>3, <2>1, FS_Subset
<1>6. Place(S, before, x) = Cardinality(Pred(x)) /\ Place(S, before, y) = Cardinality(Pred(y))
  BY Zenon DEF Place
<1>. HIDE DEF Pred
<1>. QED
  BY <1>1, <1>4, <1>5, <1>6

(* Everyone has a place of its own, and every place is someone's.          *)
LEMMA PlacesAreTaken ==
  ASSUME NEW S, IsFiniteSet(S), NEW before, Sorts(before, S)
  PROVE  /\ \A x, y \in S : Place(S, before, x) = Place(S, before, y) => x = y
         /\ \A i \in 1..Cardinality(S) : \E x \in S : Place(S, before, x) = i - 1
<1>1. PICK f : f = [x \in S |-> Place(S, before, x)]
  OBVIOUS
<1>2. PICK n \in Nat : n = Cardinality(S)
  BY FS_CardinalityType
<1>3. \A x, y \in S : Place(S, before, x) = Place(S, before, y) => x = y
  <2>1. SUFFICES ASSUME NEW x \in S, NEW y \in S, x # y PROVE Place(S, before, x) # Place(S, before, y)
    OBVIOUS
  <2>2. Place(S, before, x) \in 0..(Cardinality(S) - 1) /\ Place(S, before, y) \in 0..(Cardinality(S) - 1)
    BY PlaceGrows
  <2>3. <<x, y>> \in before => Place(S, before, x) < Place(S, before, y)
    BY PlaceGrows
  <2>4. <<y, x>> \in before => Place(S, before, y) < Place(S, before, x)
    BY PlaceGrows
  <2>5. <<x, y>> \in before \/ <<y, x>> \in before
    BY <2>1 DEF Sorts
  <2>. QED
    BY <1>2, <2>2, <2>3, <2>4, <2>5
<1>4. PICK T : T = 0..(n - 1)
  OBVIOUS
<1>5. IsFiniteSet(T) /\ Cardinality(T) = n
  <2>1. PICK zero \in Int : zero = 0
    OBVIOUS
  <2>2. PICK m \in Int : m = n - 1
    BY <1>2
  <2>3. IsFiniteSet(zero..m) /\ Cardinality(zero..m) = IF zero > m THEN 0 ELSE m - zero + 1
    BY FS_Interval
  <2>. QED
    BY <1>2, <1>4, <2>1, <2>2, <2>3
<1>6. f \in Injection(S, T)
  <2>1. f \in [S -> T]
    BY <1>1, <1>2, <1>4, PlaceGrows
  <2>. QED
    BY <1>1, <1>3, <2>1 DEF Injection, IsInjective
<1>7. f \in Surjection(S, T)
  BY <1>2, <1>5, <1>6, FS_Injection
<1>8. ASSUME NEW i \in 1..n PROVE \E x \in S : Place(S, before, x) = i - 1
  <2>1. i - 1 \in T
    BY <1>2, <1>4
  <2>. QED
    BY <1>1, <1>7, <2>1 DEF Surjection
<1>. QED
  BY <1>2, <1>3, <1>8

(* sorted: everyone once, in order.                                        *)
LEMMA SortedListOrders ==
  ASSUME NEW S, IsFiniteSet(S), NEW before, Sorts(before, S), NEW list, list = SortedList(S, before)
  PROVE  /\ Cardinality(S) \in Nat /\ list \in [1..Cardinality(S) -> S] /\ list \in Seq(S)
         /\ Len(list) = Cardinality(S) /\ ToSet(list) = S
         /\ \A i \in 1..Cardinality(S) : Place(S, before, list[i]) = i - 1
         /\ \A i, j \in 1..Cardinality(S) : <<list[i], list[j]>> \in before <=> i < j
<1>1. PICK n \in Nat : n = Cardinality(S)
  BY FS_CardinalityType
<1>2. list = [i \in 1..n |-> CHOOSE x \in S : Place(S, before, x) = i - 1]
  BY <1>1 DEF SortedList, Place
<1>3. ASSUME NEW i \in 1..n PROVE list[i] \in S /\ Place(S, before, list[i]) = i - 1
  <2>1. \E x \in S : Place(S, before, x) = i - 1
    BY <1>1, PlacesAreTaken
  <2>2. list[i] = CHOOSE x \in S : Place(S, before, x) = i - 1
    BY <1>2
  <2>. QED
    BY <2>1, <2>2
<1>4. list \in [1..n -> S]
  BY <1>2, <1>3
<1>5. list \in Seq(S) /\ Len(list) = n
  BY <1>4
<1>6. S \subseteq ToSet(list)
  <2>1. SUFFICES ASSUME NEW x \in S PROVE \E i \in 1..n : list[i] = x
    BY <1>4, <1>5 DEF ToSet
  <2>2. Place(S, before, x) \in 0..(n - 1)
    BY <1>1, PlaceGrows
  <2>3. PICK i \in 1..n : Place(S, before, x) = i - 1
    <3>1. Place(S, before, x) + 1 \in 1..n /\ Place(S, before, x) = (Place(S, before, x) + 1) - 1
      BY <2>2
    <3>. QED
      BY <3>1
  <2>4. list[i] = x
    BY <1>3, <2>3, PlacesAreTaken
  <2>. QED
    BY <2>4
<1>7. ASSUME NEW i \in 1..n, NEW j \in 1..n PROVE <<list[i], list[j]>> \in before <=> i < j
  <2>1. <<list[i], list[j]>> \in before => Place(S, before, list[i]) < Place(S, before, list[j])
    BY <1>3, PlaceGrows
  <2>2. <<list[j], list[i]>> \in before => Place(S, before, list[j]) < Place(S, before, list[i])
    BY <1>3, PlaceGrows
  <2>3. <<list[i], list[j]>> \in before \/ <<list[j], list[i]>> \in before \/ list[i] = list[j]
    BY <1>3 DEF Sorts
  <2>. QED
    BY <1>3, <2>1, <2>2, <2>3
<1>8. ToSet(list) \subseteq S
  BY <1>5, RangeFinite
<1>. QED
  BY <1>1, <1>3, <1>4, <1>5, <1>6, <1>7, <1>8

(* There is no other list in order of all of a set.                        *)
LEMMA SortedListIs ==
  ASSUME NEW S, NEW before, Sorts(before, S), NEW n \in Nat, NEW at \in [1..n -> S],
         \A x \in S : \E i \in 1..n : at[i] = x,
         \A i, j \in 1..n : i < j => <<at[i], at[j]>> \in before
  PROVE  IsFiniteSet(S) /\ Cardinality(S) = n /\ SortedList(S, before) = at
<1>1. ASSUME NEW i \in 1..n, NEW j \in 1..n, at[i] = at[j] PROVE i = j
  <2>1. at[i] \in S /\ <<at[i], at[i]>> \notin before /\ <<at[i], at[j]>> \notin before /\ <<at[j], at[i]>> \notin before
    BY <1>1 DEF Sorts
  <2>2. ~(i < j) /\ ~(j < i)
    BY <2>1
  <2>. QED
    BY <2>2
<1>2. IsFiniteSet(S) /\ Cardinality(S) = n
  <2>1. at \in Surjection(1..n, S) /\ at \in Injection(1..n, S)
    BY <1>1 DEF Surjection, Injection, IsInjective
  <2>2. PICK N, one : N = 1..n /\ one = 1
    OBVIOUS
  <2>3. IsFiniteSet(N) /\ Cardinality(N) = n
    <3>1. IsFiniteSet(one..n) /\ Cardinality(one..n) = IF one > n THEN 0 ELSE n - one + 1
      BY <2>2, FS_Interval
    <3>. QED
      BY <2>2, <3>1
  <2>4. IsFiniteSet(S) /\ (Cardinality(S) = Cardinality(N) <=> at \in Injection(N, S))
    BY <2>1, <2>2, <2>3, FS_Surjection
  <2>. QED
    BY <2>1, <2>2, <2>3, <2>4
<1>3. PICK list : list = SortedList(S, before)
  OBVIOUS
<1>4. list \in [1..n -> S] /\ \A i \in 1..n : Place(S, before, list[i]) = i - 1
  <2>1. IsFiniteSet(S) /\ list = SortedList(S, before) /\ Sorts(before, S)
    BY <1>2, <1>3
  <2>2. list \in [1..Cardinality(S) -> S]
    BY <2>1, SortedListOrders
  <2>3. Len(list) = Cardinality(S) /\ ToSet(list) = S
    BY <2>1, SortedListOrders
  <2>4. \A i, j \in 1..Cardinality(S) : <<list[i], list[j]>> \in before <=> i < j
    BY <2>1, SortedListOrders
  <2>5. \A i \in 1..Cardinality(S) : Place(S, before, list[i]) = i - 1
    BY <2>1, SortedListOrders
  <2>. QED
    BY <1>2, <2>2, <2>5
<1>5. ASSUME NEW i \in 1..n PROVE list[i] = at[i]
  <2>1. PICK M, P : M = 1..(i - 1) /\ P = {y \in S : <<y, at[i]>> \in before}
    OBVIOUS
  <2>2. PICK f : f = [j \in M |-> at[j]]
    OBVIOUS
  <2>3. f \in Bijection(M, P)
    <3>1. \A j \in M : j \in 1..n /\ f[j] = at[j] /\ f[j] \in P
      BY <2>1, <2>2
    <3>2. \A j, k \in M : f[j] = f[k] => j = k
      BY <1>1, <3>1
    <3>3. ASSUME NEW y \in P PROVE \E j \in M : f[j] = y
      <4>1. PICK j \in 1..n : at[j] = y
        BY <2>1
      <4>2. ~(i < j) /\ i # j
        BY <2>1, <4>1 DEF Sorts
      <4>3. j \in M
        BY <2>1, <4>2
      <4>. QED
        BY <3>1, <4>1, <4>3
    <3>4. f \in [M -> P]
      BY <2>2, <3>1
    <3>. QED
      BY <3>2, <3>3, <3>4 DEF Bijection, Injection, Surjection, IsInjective
  <2>4. IsFiniteSet(M) /\ Cardinality(M) = i - 1
    <3>1. PICK one, m \in Int : one = 1 /\ m = i - 1
      OBVIOUS
    <3>2. IsFiniteSet(one..m) /\ Cardinality(one..m) = IF one > m THEN 0 ELSE m - one + 1
      BY FS_Interval
    <3>3. M = one..m /\ (IF one > m THEN 0 ELSE m - one + 1) = i - 1
      BY <2>1, <3>1
    <3>. QED
      BY <3>2, <3>3
  <2>5. Cardinality(P) = i - 1
    BY <2>3, <2>4, FS_Bijection DEF ExistsBijection
  <2>6. Place(S, before, at[i]) = i - 1
    BY <2>1, <2>5 DEF Place
  <2>. QED
    BY <1>2, <1>4, <2>6, PlacesAreTaken
<1>6. list = at
  BY <1>4, <1>5
<1>. QED
  BY <1>2, <1>3, <1>6

(* Numbers can be sorted.                                                  *)
LEMMA NumbersSort ==
  ASSUME NEW S, S \subseteq Int
  PROVE  Sorts({p \in S \X S : p[1] < p[2]}, S) /\ Ascending(S) = SortedList(S, {p \in S \X S : p[1] < p[2]})
BY DEF Sorts, Ascending

-----------------------------------------------------------------------------
(* Folds.  FoldLeft goes down the sets of places, taking the last one each *)
(* time; as its operator cannot be the parameter of a lemma, it is given   *)
(* as a function, on a set that it does not leave.                         *)
Folds(f, base, step, n) ==
  f = [P \in SUBSET (1..n) |-> IF P = {} THEN base ELSE step[<<Max(P), f[P \ {Max(P)}]>>]]

(* Some numbers up to a number have a last one.                            *)
LEMMA GreatestNumber ==
  ASSUME NEW n \in Nat, NEW P, P \subseteq 1..n, P # {}
  PROVE  Max(P) \in P /\ \A j \in P : Max(P) >= j
<1>1. PICK below : below = {n - i : i \in P}
  OBVIOUS
<1>2. \A i \in P : n - i \in Nat /\ n - i \in below
  BY <1>1
<1>3. below \subseteq Nat /\ below # {}
  <2>1. \A b \in below : b \in Nat
    BY <1>1
  <2>2. \E i \in P : TRUE
    OBVIOUS
  <2>. QED
    BY <1>2, <2>1, <2>2
<1>4. PICK x \in below : \A y \in below : x <= y
  BY <1>3, LeastNumber
<1>5. PICK i \in P : x = n - i
  BY <1>1, <1>4
<1>6. \A j \in P : i >= j
  <2>1. SUFFICES ASSUME NEW j \in P PROVE i >= j
    OBVIOUS
  <2>2. n - i <= n - j
    BY <1>2, <1>4, <1>5
  <2>. QED
    BY <2>2
<1>7. \E y \in P : \A j \in P : y >= j
  BY <1>6
<1>. QED
  BY <1>7, Zenon DEF Max

(* What the recursive function of FoldLeft is.                             *)
LEMMA FoldExists ==
  ASSUME NEW S, NEW base \in S, NEW k \in Nat, NEW step \in [(1..k) \X S -> S]
  PROVE  \E f \in [SUBSET (1..k) -> S] : Folds(f, base, step, k)
<1>. DEFINE E(n) == \E f \in [SUBSET (1..n) -> S] : Folds(f, base, step, n)
            P == {n \in Nat : n <= k => E(n)}
<1>1. E(0)
  <2>1. PICK f : f = [s \in SUBSET (1..0) |-> base]
    OBVIOUS
  <2>2. \A s \in SUBSET (1..0) : s = {}
    OBVIOUS
  <2>3. f = [s \in SUBSET (1..0) |-> f[s]] /\ \A s \in SUBSET (1..0) : f[s] = base
    BY <2>1
  <2>4. \A s \in SUBSET (1..0) :
          f[s] = IF s = {} THEN base ELSE step[<<Max(s), f[s \ {Max(s)}]>>]
    BY <2>2, <2>3
  <2>5. Folds(f, base, step, 0)
    BY <2>3, <2>4 DEF Folds
  <2>6. f \in [SUBSET (1..0) -> S]
    BY <2>1
  <2>. QED
    BY <2>5, <2>6
<1>2. ASSUME NEW n \in Nat, n + 1 <= k, E(n) PROVE E(n + 1)
  <2>1. PICK f \in [SUBSET (1..n) -> S] : Folds(f, base, step, n)
    BY <1>2
  <2>2. PICK g : g = [s \in SUBSET (1..(n + 1)) |->
                        IF n + 1 \in s THEN step[<<n + 1, f[s \ {n + 1}]>>] ELSE f[s]]
    OBVIOUS
  <2>3. \A s \in SUBSET (1..(n + 1)) : s \ {n + 1} \in SUBSET (1..n) /\ (n + 1 \notin s => s \in SUBSET (1..n))
    OBVIOUS
  <2>4. n + 1 \in 1..k
    BY <1>2
  <2>5. g \in [SUBSET (1..(n + 1)) -> S]
    <3>1. SUFFICES ASSUME NEW s \in SUBSET (1..(n + 1)) PROVE g[s] \in S
      BY <2>2
    <3>2. CASE n + 1 \in s
      <4>1. f[s \ {n + 1}] \in S
        BY <2>1, <2>3
      <4>. QED
        BY <2>2, <2>4, <3>2, <4>1
    <3>3. CASE n + 1 \notin s
      BY <2>1, <2>2, <2>3, <3>3
    <3>. QED
      BY <3>2, <3>3
  <2>6. ASSUME NEW s \in SUBSET (1..(n + 1))
        PROVE  g[s] = IF s = {} THEN base ELSE step[<<Max(s), g[s \ {Max(s)}]>>]
    <3>1. CASE n + 1 \in s
      <4>1. Max(s) = n + 1
        <5>1. PICK m \in Nat : m = n + 1
          OBVIOUS
        <5>2. s \subseteq 1..m /\ s # {} /\ m \in s
          BY <3>1, <5>1
        <5>3. Max(s) \in s /\ Max(s) >= n + 1
          BY <5>1, <5>2, GreatestNumber
        <5>4. Max(s) \in 1..(n + 1)
          BY <5>3
        <5>. QED
          BY <5>3, <5>4
      <4>2. g[s \ {n + 1}] = f[s \ {n + 1}]
        BY <2>2, <2>3
      <4>. QED
        BY <2>2, <3>1, <4>1, <4>2
    <3>2. CASE n + 1 \notin s
      <4>1. s \in SUBSET (1..n) /\ g[s] = f[s]
        BY <2>2, <2>3, <3>2
      <4>2. f[s] = IF s = {} THEN base ELSE step[<<Max(s), f[s \ {Max(s)}]>>]
        BY <2>1, <4>1 DEF Folds
      <4>3. PICK rest : rest = s \ {Max(s)}
        OBVIOUS
      <4>4. rest \in SUBSET (1..(n + 1)) /\ n + 1 \notin rest
        BY <3>2, <4>3
      <4>5. g[rest] = f[rest]
        BY <2>2, <4>4
      <4>. QED
        BY <4>1, <4>2, <4>3, <4>5
    <3>. QED
      BY <3>1, <3>2
  <2>7. Folds(g, base, step, n + 1)
    BY <2>2, <2>6 DEF Folds
  <2>. QED
    BY <2>5, <2>7
<1>3. E(k)
  <2>. HIDE DEF E
  <2>1. 0 \in P /\ \A n \in Nat : n \in P => n + 1 \in P
    BY <1>1, <1>2
  <2>2. Nat \subseteq P
    <3>. HIDE DEF P
    <3>. QED
      BY <2>1, SetInduction
  <2>. QED
    BY <2>2
<1>. QED
  BY <1>3

(* The values of a fold on the first places, one after the other.          *)
Chain(c, base, step, k) == c[0] = base /\ \A n \in 1..k : c[n] = step[<<n, c[n - 1]>>]

(* A function that goes down as a fold does, as long as it stays in the    *)
(* set.                                                                    *)
Unfolds(f, base, step, k, S) ==
  /\ f[{}] = base
  /\ \A P \in SUBSET (1..k) :
       P # {} /\ f[P \ {Max(P)}] \in S => f[P] = step[<<Max(P), f[P \ {Max(P)}]>>]

(* The fold of a whole list ends such a chain.                             *)
LEMMA FoldChain ==
  ASSUME NEW S, NEW base \in S, NEW k \in Nat, NEW step \in [(1..k) \X S -> S],
         NEW f, Unfolds(f, base, step, k, S)
  PROVE  \E c \in [0..k -> S] : c[k] = f[1..k] /\ Chain(c, base, step, k)
<1>1. PICK c : c = [n \in 0..k |-> f[1..n]]
  OBVIOUS
<1>2. c[0] = base
  <2>1. {} \in SUBSET (1..k) /\ 1..0 = {}
    OBVIOUS
  <2>. QED
    BY <1>1, <2>1 DEF Unfolds
<1>3. ASSUME NEW n \in 1..k, c[n - 1] \in S PROVE c[n] = step[<<n, c[n - 1]>>]
  <2>1. PICK P : P = 1..n
    OBVIOUS
  <2>2. P \in SUBSET (1..k) /\ P # {} /\ n \in P /\ n - 1 \in 0..k
    BY <2>1
  <2>3. Max(P) = n
    <3>1. Max(P) \in P /\ Max(P) >= n
      BY <2>2, GreatestNumber
    <3>2. Max(P) \in 1..n
      BY <2>1, <3>1
    <3>. QED
      BY <3>1, <3>2
  <2>4. PICK m \in 0..k : m = n - 1
    BY <2>2
  <2>5. P \ {n} = 1..m
    BY <2>1, <2>4
  <2>6. c[m] = f[1..m] /\ c[n] = f[1..n]
    BY <1>1, <2>4
  <2>7. f[P \ {n}] \in S
    BY <1>3, <2>4, <2>5, <2>6
  <2>8. f[P] = step[<<n, f[P \ {n}]>>]
    BY <2>2, <2>3, <2>7 DEF Unfolds
  <2>. QED
    BY <2>1, <2>4, <2>5, <2>6, <2>8
<1>4. \A n \in Nat : n <= k => c[n] \in S
  <2>. DEFINE P == {n \in Nat : n <= k => c[n] \in S}
  <2>1. 0 \in P
    BY <1>2
  <2>2. ASSUME NEW n \in Nat, n \in P PROVE n + 1 \in P
    <3>1. SUFFICES ASSUME n + 1 <= k PROVE c[n + 1] \in S
      OBVIOUS
    <3>2. n + 1 \in 1..k /\ (n + 1) - 1 = n /\ c[n] \in S
      BY <2>2, <3>1
    <3>3. c[n + 1] = step[<<n + 1, c[n]>>]
      BY <1>3, <3>2
    <3>. QED
      BY <3>2, <3>3
  <2>3. Nat \subseteq P
    <3>. HIDE DEF P
    <3>. QED
      BY <2>1, <2>2, SetInduction
  <2>. QED
    BY <2>3
<1>5. c \in [0..k -> S]
  BY <1>1, <1>4
<1>6. c[k] = f[1..k]
  BY <1>1
<1>7. \A n \in 1..k : n - 1 \in Nat /\ n - 1 <= k
  OBVIOUS
<1>. QED
  BY <1>2, <1>3, <1>4, <1>5, <1>6, <1>7 DEF Chain

(* What holds at the start of a chain, and of the next value when of the   *)
(* one before, holds all along it.                                         *)
LEMMA ChainInduction ==
  ASSUME NEW k \in Nat, NEW P, 0 \in P, \A n \in 0..(k - 1) : n \in P => n + 1 \in P
  PROVE  0..k \subseteq P
<1>. DEFINE Q == {n \in Nat : n <= k => n \in P}
<1>1. 0 \in Q
  OBVIOUS
<1>2. ASSUME NEW n \in Nat, n \in Q PROVE n + 1 \in Q
  BY <1>2
<1>3. Nat \subseteq Q
  <2>. HIDE DEF Q
  <2>. QED
    BY <1>1, <1>2, SetInduction
<1>. QED
  BY <1>3

-----------------------------------------------------------------------------
(* Two lists of a length that agree at every place are the same.           *)
LEMMA SameItems ==
  ASSUME NEW S, NEW v \in Seq(S), NEW w \in Seq(S), Len(v) = Len(w), \A i \in 1..Len(v) : v[i] = w[i]
  PROVE  v = w
OBVIOUS

(* Three lists in a row.                                                   *)
Regroups(u, v, w) == (u \o v) \o w = u \o (v \o w)

(* However they are put together, it is the same list.                     *)
LEMMA ConcatAssociates ==
  ASSUME NEW S, NEW u \in Seq(S), NEW v \in Seq(S), NEW w \in Seq(S)
  PROVE  Regroups(u, v, w)
<1>1. PICK uv, vw : uv = u \o v /\ vw = v \o w
  OBVIOUS
<1>2. \A x \in Seq(S), y \in Seq(S) :
        x \o y \in Seq(S) /\ Len(x \o y) = Len(x) + Len(y)
        /\ \A p \in 1..Len(x \o y) : (x \o y)[p] = IF p <= Len(x) THEN x[p] ELSE y[p - Len(x)]
  OBVIOUS
<1>3. PICK l : l = uv \o w
  OBVIOUS
<1>4. PICK r : r = u \o vw
  OBVIOUS
<1>5. /\ uv \in Seq(S) /\ Len(uv) = Len(u) + Len(v)
      /\ \A p \in 1..Len(uv) : uv[p] = IF p <= Len(u) THEN u[p] ELSE v[p - Len(u)]
  BY <1>1, <1>2
<1>6. /\ vw \in Seq(S) /\ Len(vw) = Len(v) + Len(w)
      /\ \A p \in 1..Len(vw) : vw[p] = IF p <= Len(v) THEN v[p] ELSE w[p - Len(v)]
  BY <1>1, <1>2
<1>7. /\ l \in Seq(S) /\ Len(l) = Len(uv) + Len(w)
      /\ \A p \in 1..Len(l) : l[p] = IF p <= Len(uv) THEN uv[p] ELSE w[p - Len(uv)]
  BY <1>2, <1>3, <1>5
<1>8. /\ r \in Seq(S) /\ Len(r) = Len(u) + Len(vw)
      /\ \A p \in 1..Len(r) : r[p] = IF p <= Len(u) THEN u[p] ELSE vw[p - Len(u)]
  BY <1>2, <1>4, <1>6
<1>9. Len(l) = Len(r) /\ \A i \in 1..Len(l) : l[i] = r[i]
  <2>1. PICK a \in Nat, b \in Nat, c \in Nat : a = Len(u) /\ b = Len(v) /\ c = Len(w)
    <3>1. Len(u) \in Nat /\ Len(v) \in Nat /\ Len(w) \in Nat
      OBVIOUS
    <3>. QED
      BY <3>1
  <2>2. /\ Len(uv) = a + b /\ Len(vw) = b + c /\ Len(l) = a + b + c /\ Len(r) = a + b + c
    BY <1>5, <1>6, <1>7, <1>8, <2>1
  <2>3. ASSUME NEW p \in 1..Len(l) PROVE l[p] = r[p]
    <3>1. p \in 1..(a + b + c)
      BY <2>2
    <3>2. CASE p <= a
      <4>1. p \in 1..Len(uv) /\ p \in 1..Len(r) /\ p <= Len(uv) /\ p <= Len(u)
        BY <2>1, <2>2, <3>1, <3>2
      <4>2. l[p] = uv[p] /\ uv[p] = u[p] /\ r[p] = u[p]
        BY ONLY <1>5, <1>7, <1>8, <4>1, p \in 1..Len(l)
      <4>. QED
        BY <4>2
    <3>3. CASE a < p /\ p <= a + b
      <4>1. PICK q \in 1..b : q = p - a
        <5>1. p - a \in 1..b
          BY <2>1, <3>1, <3>3
        <5>. QED
          BY <5>1
      <4>2. /\ p \in 1..Len(uv) /\ p \in 1..Len(r) /\ p <= Len(uv) /\ ~(p <= Len(u)) /\ p - Len(u) = q
            /\ q \in 1..Len(vw) /\ q <= Len(v)
        BY <2>1, <2>2, <3>1, <3>3, <4>1
      <4>3. l[p] = uv[p] /\ uv[p] = v[q] /\ r[p] = vw[q] /\ vw[q] = v[q]
        BY ONLY <1>5, <1>6, <1>7, <1>8, <4>2, p \in 1..Len(l)
      <4>. QED
        BY <4>3
    <3>4. CASE a + b < p
      <4>1. PICK q \in 1..(b + c) : q = p - a
        <5>1. p - a \in 1..(b + c)
          BY <2>1, <3>1, <3>4
        <5>. QED
          BY <5>1
      <4>2. PICK o \in 1..c : o = p - (a + b)
        <5>1. p - (a + b) \in 1..c
          BY <2>1, <3>1, <3>4
        <5>. QED
          BY <5>1
      <4>3. /\ p \in 1..Len(r) /\ ~(p <= Len(uv)) /\ ~(p <= Len(u)) /\ p - Len(uv) = o /\ p - Len(u) = q
            /\ q \in 1..Len(vw) /\ ~(q <= Len(v)) /\ q - Len(v) = o
        BY <2>1, <2>2, <3>1, <3>4, <4>1, <4>2
      <4>4. l[p] = w[o] /\ r[p] = vw[q] /\ vw[q] = w[o]
        BY ONLY <1>6, <1>7, <1>8, <4>3, p \in 1..Len(l)
      <4>. QED
        BY <4>4
    <3>. QED
      BY <2>1, <3>1, <3>2, <3>3, <3>4
  <2>. QED
    BY <2>2, <2>3
<1>10. l = r
  BY <1>7, <1>8, <1>9, SameItems
<1>. QED
  BY <1>1, <1>3, <1>4, <1>10 DEF Regroups

(* FlattenSeq as a chain that begins with the empty list.                  *)
Joins(h, seqs, k) == h[0] = <<>> /\ \A n \in 1..k : h[n] = h[n - 1] \o seqs[n]

(* The chain ends with the lists put one after the other.                  *)
LEMMA FlattenChain ==
  ASSUME NEW S, NEW seqs \in Seq(Seq(S)), NEW k \in Nat, k = Len(seqs)
  PROVE  \E h \in [0..k -> Seq(S)] : Joins(h, seqs, k) /\ h[k] = FlattenSeq(seqs)
<1>1. CASE k = 0
  <2>1. PICK h : h = [n \in 0..k |-> <<>>]
    OBVIOUS
  <2>2. h \in [0..k -> Seq(S)] /\ Joins(h, seqs, k)
    BY <1>1, <2>1 DEF Joins
  <2>3. FlattenSeq(seqs) = <<>>
    <3>1. PICK P : P = {<<0, <<>>>>}
      OBVIOUS
    <3>2. <<Len(seqs), FlattenSeq(seqs)>> \in P
      <4>1. 0..(Len(seqs) - 1) = {}
        BY <1>1
      <4>. QED
        BY <3>1, <4>1, FlattenSeqInduction
    <3>. QED
      BY <3>1, <3>2
  <2>. QED
    BY <1>1, <2>1, <2>2, <2>3
<1>2. CASE k # 0
  <2>1. PICK g : /\ g = [i \in 1..k |-> IF i = 1 THEN seqs[i] ELSE g[i - 1] \o seqs[i]]
                 /\ FlattenSeq(seqs) = g[k]
    BY <1>2, FlattenSeqIs
  <2>2. \A i \in 1..k : g[i] = IF i = 1 THEN seqs[i] ELSE g[i - 1] \o seqs[i]
    BY <2>1
  <2>3. PICK h : h = [n \in 0..k |-> IF n = 0 THEN <<>> ELSE g[n]]
    OBVIOUS
  <2>4. ASSUME NEW n \in 1..k, h[n - 1] \in Seq(S) PROVE h[n] = h[n - 1] \o seqs[n] /\ h[n] \in Seq(S)
    <3>1. seqs[n] \in Seq(S) /\ h[n] = g[n] /\ n - 1 \in 0..k
      BY <2>3
    <3>2. CASE n = 1
      <4>1. g[n] = seqs[n] /\ h[n - 1] = <<>>
        BY <2>2, <2>3, <3>1, <3>2
      <4>2. <<>> \o seqs[n] = seqs[n]
        BY <3>1
      <4>. QED
        BY <3>1, <4>1, <4>2
    <3>3. CASE n # 1
      <4>1. g[n] = g[n - 1] \o seqs[n] /\ h[n - 1] = g[n - 1]
        <5>1. n - 1 # 0 /\ n - 1 \in 0..k
          BY <3>3
        <5>. QED
          BY <2>2, <2>3, <3>3, <5>1
      <4>2. g[n] \in Seq(S)
        BY <2>4, <3>1, <4>1, ConcatRange
      <4>. QED
        BY <3>1, <4>1, <4>2
    <3>. QED
      BY <3>2, <3>3
  <2>5. PICK Good : Good = {n \in 0..k : h[n] \in Seq(S)}
    OBVIOUS
  <2>6. 0 \in Good
    BY <2>3, <2>5
  <2>7. ASSUME NEW n \in 0..(k - 1), n \in Good PROVE n + 1 \in Good
    <3>1. n + 1 \in 1..k /\ (n + 1) - 1 = n /\ n + 1 \in 0..k
      OBVIOUS
    <3>. QED
      BY <2>4, <2>5, <2>7, <3>1
  <2>8. 0..k \subseteq Good
    BY <2>6, <2>7, ChainInduction
  <2>9. h \in [0..k -> Seq(S)]
    BY <2>3, <2>5, <2>8
  <2>10. Joins(h, seqs, k)
    <3>1. \A n \in 1..k : n - 1 \in 0..k
      OBVIOUS
    <3>2. \A n \in 1..k : h[n] = h[n - 1] \o seqs[n]
      BY <2>4, <2>9, <3>1
    <3>3. h[0] = <<>>
      BY <2>3
    <3>. QED
      BY <3>2, <3>3 DEF Joins
  <2>11. h[k] = FlattenSeq(seqs)
    BY <1>2, <2>1, <2>3
  <2>. QED
    BY <2>9, <2>10, <2>11
<1>. QED
  BY <1>1, <1>2

(* Of two lists of lists in a row.                                         *)
LEMMA FlattenConcat ==
  ASSUME NEW S, NEW a \in Seq(Seq(S)), NEW b \in Seq(Seq(S))
  PROVE  FlattenSeq(a \o b) = FlattenSeq(a) \o FlattenSeq(b)
<1>1. PICK j \in Nat, k \in Nat : j = Len(a) /\ k = Len(b) /\ j \in 0..j /\ k \in 0..k
  <2>1. Len(a) \in Nat /\ Len(b) \in Nat
    OBVIOUS
  <2>. QED
    BY <2>1
<1>0. PICK both : both = a \o b
  OBVIOUS
<1>2. /\ both \in Seq(Seq(S)) /\ Len(both) = j + k
      /\ (\A n \in 1..j : both[n] = a[n]) /\ \A n \in 1..k : both[j + n] = b[n]
  <2>1. /\ both \in Seq(Seq(S)) /\ Len(both) = Len(a) + Len(b)
        /\ \A p \in 1..Len(a) : both[p] = a[p]
        /\ \A p \in 1..Len(b) : both[p + Len(a)] = b[p]
    BY <1>0, ConcatIs
  <2>. QED
    BY <1>1, <2>1
<1>3. PICK g \in [0..j -> Seq(S)] : Joins(g, a, j) /\ g[j] = FlattenSeq(a)
  BY <1>1, FlattenChain
<1>4. PICK h \in [0..k -> Seq(S)] : Joins(h, b, k) /\ h[k] = FlattenSeq(b)
  BY <1>1, FlattenChain
<1>5. PICK f \in [0..(j + k) -> Seq(S)] : Joins(f, both, j + k) /\ f[j + k] = FlattenSeq(both)
  <2>1. j + k \in Nat
    BY <1>1
  <2>. QED
    BY <1>2, <2>1, FlattenChain
<1>6. f[j] = g[j]
  <2>1. PICK Good : Good = {n \in 0..j : f[n] = g[n]}
    OBVIOUS
  <2>2. 0 \in Good
    BY <1>1, <1>3, <1>5, <2>1 DEF Joins
  <2>3. ASSUME NEW n \in 0..(j - 1), n \in Good PROVE n + 1 \in Good
    <3>1. n + 1 \in 1..j /\ n + 1 \in 1..(j + k) /\ (n + 1) - 1 = n /\ n + 1 \in 0..j
      BY <1>1
    <3>2. f[n + 1] = f[n] \o both[n + 1] /\ g[n + 1] = g[n] \o a[n + 1]
      BY <1>3, <1>5, <3>1 DEF Joins
    <3>. QED
      BY <1>2, <2>1, <2>3, <3>1, <3>2
  <2>4. 0..j \subseteq Good
    BY <1>1, <2>2, <2>3, ChainInduction
  <2>. QED
    BY <1>1, <2>1, <2>4
<1>7. f[j + k] = g[j] \o h[k]
  <2>1. PICK Good : Good = {n \in 0..k : f[j + n] = g[j] \o h[n]}
    OBVIOUS
  <2>2. 0 \in Good
    <3>1. h[0] = <<>> /\ g[j] \in Seq(S) /\ j + 0 = j
      BY <1>1, <1>4 DEF Joins
    <3>2. g[j] \o <<>> = g[j]
      BY <3>1
    <3>. QED
      BY <1>1, <1>6, <2>1, <3>1, <3>2
  <2>3. ASSUME NEW n \in 0..(k - 1), n \in Good PROVE n + 1 \in Good
    <3>1. /\ n + 1 \in 1..k /\ j + (n + 1) \in 1..(j + k) /\ n + 1 \in 0..k
          /\ (n + 1) - 1 = n /\ (j + (n + 1)) - 1 = j + n
      BY <1>1
    <3>2. f[j + (n + 1)] = f[j + n] \o b[n + 1] /\ h[n + 1] = h[n] \o b[n + 1]
      BY <1>2, <1>4, <1>5, <3>1 DEF Joins
    <3>3. PICK x \in Seq(S), y \in Seq(S), z \in Seq(S) : x = g[j] /\ y = h[n] /\ z = b[n + 1]
      <4>1. g[j] \in Seq(S) /\ h[n] \in Seq(S)
        <5>1. n \in 0..k
          BY <1>1
        <5>. QED
          BY <1>1, <5>1
      <4>2. b[n + 1] \in Seq(S)
        <5>1. PICK m \in 1..Len(b) : m = n + 1
          BY <1>1, <3>1
        <5>2. b[m] \in Seq(S)
          OBVIOUS
        <5>. QED
          BY <5>1, <5>2
      <4>. QED
        BY <4>1, <4>2
    <3>4. (x \o y) \o z = x \o (y \o z)
      <4>1. Regroups(x, y, z)
        BY ConcatAssociates
      <4>. QED
        BY <4>1 DEF Regroups
    <3>5. g[j] \o h[n + 1] = x \o (y \o z)
      BY <3>2, <3>3
    <3>6. f[j + (n + 1)] = (x \o y) \o z
      BY <2>1, <2>3, <3>2, <3>3
    <3>. QED
      BY <2>1, <3>1, <3>4, <3>5, <3>6
  <2>4. 0..k \subseteq Good
    BY <1>1, <2>2, <2>3, ChainInduction
  <2>. QED
    BY <1>1, <2>1, <2>4
<1>. QED
  BY <1>0, <1>3, <1>4, <1>5, <1>7

-----------------------------------------------------------------------------
(* Each item as a list of its own, if it is of the kind.                   *)
Singles(seq, kind) == [i \in DOMAIN seq |-> IF seq[i] \in kind THEN <<seq[i]>> ELSE <<>>]

(* What is left of a list are these, put one after the other.              *)
LEMMA SinglesAre ==
  ASSUME NEW S, NEW seq \in Seq(S), NEW kind, NEW singles, singles = Singles(seq, kind)
  PROVE  /\ singles \in Seq(Seq(S)) /\ Len(singles) = Len(seq) /\ singles = [i \in 1..Len(seq) |-> singles[i]]
         /\ \A i \in 1..Len(seq) : singles[i] = IF seq[i] \in kind THEN <<seq[i]>> ELSE <<>>
         /\ Within(seq, kind) = FlattenSeq(singles)
<1>1. \A i \in 1..Len(seq) : <<seq[i]>> \in Seq(S) /\ <<>> \in Seq(S)
  OBVIOUS
<1>2. DOMAIN seq = 1..Len(seq) /\ Len(seq) \in Nat
  OBVIOUS
<1>3. \A i \in 1..Len(seq) : singles[i] = IF seq[i] \in kind THEN <<seq[i]>> ELSE <<>>
  BY <1>2 DEF Singles
<1>4. singles \in [1..Len(seq) -> Seq(S)]
  BY <1>1, <1>2 DEF Singles
<1>5. Within(seq, kind) = FlattenSeq(singles)
  BY Zenon DEF Within, Singles
<1>. QED
  BY <1>2, <1>3, <1>4, <1>5

(* Within of two lists in a row.                                           *)
LEMMA WithinConcat ==
  ASSUME NEW S, NEW v \in Seq(S), NEW w \in Seq(S), NEW kind
  PROVE  Within(v \o w, kind) = Within(v, kind) \o Within(w, kind)
<1>1. PICK u : u = v \o w
  OBVIOUS
<1>2. /\ u \in Seq(S) /\ Len(u) = Len(v) + Len(w) /\ Len(v) \in Nat /\ Len(w) \in Nat
      /\ \A p \in 1..Len(v) : u[p] = v[p]
      /\ \A p \in 1..Len(w) : u[p + Len(v)] = w[p]
  BY <1>1, ConcatIs
<1>3. PICK a, b, c : a = Singles(v, kind) /\ b = Singles(w, kind) /\ c = Singles(u, kind)
  OBVIOUS
<1>4. /\ a \in Seq(Seq(S)) /\ Len(a) = Len(v) /\ Within(v, kind) = FlattenSeq(a)
      /\ \A i \in 1..Len(v) : a[i] = IF v[i] \in kind THEN <<v[i]>> ELSE <<>>
  BY <1>3, SinglesAre
<1>5. /\ b \in Seq(Seq(S)) /\ Len(b) = Len(w) /\ Within(w, kind) = FlattenSeq(b)
      /\ \A i \in 1..Len(w) : b[i] = IF w[i] \in kind THEN <<w[i]>> ELSE <<>>
  BY <1>3, SinglesAre
<1>6. /\ c \in Seq(Seq(S)) /\ Len(c) = Len(u) /\ Within(u, kind) = FlattenSeq(c)
      /\ \A i \in 1..Len(u) : c[i] = IF u[i] \in kind THEN <<u[i]>> ELSE <<>>
  BY <1>2, <1>3, SinglesAre
<1>7. PICK ab : ab = a \o b
  OBVIOUS
<1>8. /\ ab \in Seq(Seq(S)) /\ Len(ab) = Len(a) + Len(b)
      /\ \A p \in 1..Len(a) : ab[p] = a[p]
      /\ \A p \in 1..Len(b) : ab[p + Len(a)] = b[p]
  <2>1. PICK T : T = Seq(S)
    OBVIOUS
  <2>2. a \in Seq(T) /\ b \in Seq(T) /\ ab = a \o b
    BY <1>4, <1>5, <1>7, <2>1
  <2>3. /\ ab \in Seq(T) /\ Len(ab) = Len(a) + Len(b)
        /\ \A p \in 1..Len(a) : ab[p] = a[p]
        /\ \A p \in 1..Len(b) : ab[p + Len(a)] = b[p]
    BY ONLY <2>2, ConcatIs
  <2>. QED
    BY <2>1, <2>3
<1>9. ASSUME NEW p \in 1..Len(u) PROVE c[p] = ab[p]
  <2>1. CASE p <= Len(v)
    <3>1. p \in 1..Len(v) /\ p \in 1..Len(a)
      BY <1>2, <1>4, <2>1
    <3>2. c[p] = (IF u[p] \in kind THEN <<u[p]>> ELSE <<>>) /\ u[p] = v[p]
      BY <1>2, <1>6, <3>1
    <3>3. ab[p] = (IF v[p] \in kind THEN <<v[p]>> ELSE <<>>)
      BY <1>4, <1>8, <3>1
    <3>. QED
      BY <3>2, <3>3
  <2>2. CASE ~(p <= Len(v))
    <3>1. PICK q : q = p - Len(v)
      OBVIOUS
    <3>2. q \in 1..Len(w) /\ q \in 1..Len(b) /\ q + Len(v) = p /\ q + Len(a) = p
      BY <1>2, <1>4, <1>5, <2>2, <3>1
    <3>3. c[p] = (IF u[p] \in kind THEN <<u[p]>> ELSE <<>>) /\ u[p] = w[q]
      BY <1>2, <1>6, <3>2
    <3>4. ab[p] = (IF w[q] \in kind THEN <<w[q]>> ELSE <<>>)
      BY <1>5, <1>8, <3>2
    <3>. QED
      BY <3>3, <3>4
  <2>. QED
    BY <2>1, <2>2
<1>10. c = ab
  <2>1. PICK T : T = Seq(S)
    OBVIOUS
  <2>2. c \in Seq(T) /\ ab \in Seq(T) /\ Len(c) = Len(ab) /\ \A p \in 1..Len(c) : c[p] = ab[p]
    BY <1>2, <1>4, <1>5, <1>6, <1>8, <1>9, <2>1
  <2>. QED
    BY ONLY <2>2, SameItems
<1>11. FlattenSeq(ab) = FlattenSeq(a) \o FlattenSeq(b)
  BY <1>4, <1>5, <1>7, FlattenConcat
<1>. QED
  BY <1>1, <1>4, <1>5, <1>6, <1>10, <1>11

(* Only the kind of what is in the list matters.                           *)
LEMMA WithinAgrees ==
  ASSUME NEW S, NEW v \in Seq(S), NEW kind, NEW like, ToSet(v) \cap kind = ToSet(v) \cap like
  PROVE  Within(v, kind) = Within(v, like)
<1>1. PICK a, b : a = Singles(v, kind) /\ b = Singles(v, like)
  OBVIOUS
<1>2. /\ Within(v, kind) = FlattenSeq(a) /\ a = [i \in 1..Len(v) |-> a[i]]
      /\ \A i \in 1..Len(v) : a[i] = IF v[i] \in kind THEN <<v[i]>> ELSE <<>>
  BY <1>1, SinglesAre
<1>3. /\ Within(v, like) = FlattenSeq(b) /\ b = [i \in 1..Len(v) |-> b[i]]
      /\ \A i \in 1..Len(v) : b[i] = IF v[i] \in like THEN <<v[i]>> ELSE <<>>
  BY <1>1, SinglesAre
<1>4. \A i \in 1..Len(v) : v[i] \in kind <=> v[i] \in like
  <2>1. \A i \in 1..Len(v) : v[i] \in ToSet(v)
    BY DEF ToSet
  <2>. QED
    BY <2>1
<1>5. \A i \in 1..Len(v) : a[i] = b[i]
  BY <1>2, <1>3, <1>4
<1>6. a = b
  BY <1>2, <1>3, <1>5
<1>. QED
  BY <1>2, <1>3, <1>6

(* One item after a list.                                                  *)
LEMMA OneMore ==
  ASSUME NEW S, NEW x \in Seq(S), NEW y \in S, NEW z, z = x \o <<y>> \/ z = Append(x, y)
  PROVE  /\ z \in Seq(S) /\ Len(z) = Len(x) + 1 /\ z[Len(x) + 1] = y
         /\ \A i \in 1..Len(x) : z[i] = x[i]
<1>1. CASE z = Append(x, y)
  BY <1>1
<1>2. CASE z = x \o <<y>>
  <2>1. PICK one : one = <<y>>
    OBVIOUS
  <2>2. one \in Seq(S) /\ Len(one) = 1 /\ one[1] = y
    BY <2>1
  <2>3. z = x \o one
    BY <1>2, <2>1
  <2>. QED
    BY <2>2, <2>3
<1>. QED
  BY <1>1, <1>2

(* A list all of whose items are of the kind.                              *)
LEMMA WithinAll ==
  ASSUME NEW S, NEW v \in Seq(S), NEW kind, ToSet(v) \subseteq kind
  PROVE  Within(v, kind) = v
<1>1. PICK a : a = Singles(v, kind)
  OBVIOUS
<1>2. PICK k \in Nat : k = Len(v)
  OBVIOUS
<1>3. /\ Within(v, kind) = FlattenSeq(a) /\ a \in Seq(Seq(S)) /\ Len(a) = k
      /\ \A i \in 1..k : a[i] = <<v[i]>>
  <2>1. /\ Within(v, kind) = FlattenSeq(a) /\ a \in Seq(Seq(S)) /\ Len(a) = Len(v)
        /\ \A i \in 1..Len(v) : a[i] = IF v[i] \in kind THEN <<v[i]>> ELSE <<>>
    BY <1>1, SinglesAre
  <2>2. \A i \in 1..Len(v) : v[i] \in kind
    BY DEF ToSet
  <2>. QED
    BY <1>2, <2>1, <2>2
<1>4. PICK h \in [0..k -> Seq(S)] : Joins(h, a, k) /\ h[k] = FlattenSeq(a)
  BY <1>3, FlattenChain
<1>5. PICK Good : Good = {n \in 0..k : Len(h[n]) = n /\ \A i \in 1..n : h[n][i] = v[i]}
  OBVIOUS
<1>6. 0 \in Good
  BY <1>2, <1>4, <1>5 DEF Joins
<1>7. ASSUME NEW n \in 0..(k - 1), n \in Good PROVE n + 1 \in Good
  <2>1. n + 1 \in 1..k /\ (n + 1) - 1 = n /\ n + 1 \in 0..k /\ n \in 0..k
    BY <1>2
  <2>2. PICK x \in Seq(S) : x = h[n]
    BY <2>1
  <2>3. PICK y \in S : y = v[n + 1]
    BY <1>2, <2>1
  <2>4. PICK z : z = h[n + 1]
    OBVIOUS
  <2>5. z = x \o <<y>>
    BY <1>3, <1>4, <2>1, <2>2, <2>3, <2>4 DEF Joins
  <2>6. Len(x) = n /\ \A i \in 1..n : x[i] = v[i]
    BY <1>5, <1>7, <2>2
  <2>7. Len(z) = n + 1 /\ z[n + 1] = y /\ \A i \in 1..n : z[i] = x[i]
    <3>1. Len(z) = Len(x) + 1 /\ z[Len(x) + 1] = y /\ \A i \in 1..Len(x) : z[i] = x[i]
      BY ONLY <2>5, OneMore, x \in Seq(S), y \in S
    <3>. QED
      BY <2>6, <3>1
  <2>8. \A i \in 1..(n + 1) : z[i] = v[i]
    BY <2>3, <2>6, <2>7
  <2>. QED
    BY <1>5, <2>1, <2>4, <2>7, <2>8
<1>8. k \in Good
  <2>1. 0..k \subseteq Good
    BY <1>6, <1>7, ChainInduction
  <2>. QED
    BY <2>1
<1>9. PICK w \in Seq(S) : w = h[k]
  OBVIOUS
<1>10. Len(w) = Len(v) /\ \A i \in 1..Len(w) : w[i] = v[i]
  BY <1>2, <1>5, <1>8, <1>9
<1>11. w = v
  BY ONLY <1>10, SameItems, v \in Seq(S), w \in Seq(S)
<1>. QED
  BY <1>3, <1>4, <1>9, <1>11

-----------------------------------------------------------------------------
(* A selection has one member of each of the sets.                         *)
LEMMA SelectionsAre ==
  ASSUME NEW sets, NEW f, f \in Selections(sets)
  PROVE  f = [x \in DOMAIN sets |-> f[x]] /\ \A x \in DOMAIN sets : f[x] \in sets[x]
  BY DEF Selections
=============================================================================
