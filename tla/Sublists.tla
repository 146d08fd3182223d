------------------------------- MODULE Sublists -------------------------------
(***************************************************************************)
(* The items of a list that are of a kind, in the order of the list: what  *)
(* a list comprehension with an `if` makes.  The kind is a set, so that    *)
(* lemmas can be stated about it.                                          *)
(***************************************************************************)
EXTENDS Integers, SequencesExt

(* One member of each of several sets.                                     *)
Selections(sets) ==
  {f \in [DOMAIN sets -> UNION {sets[x] : x \in DOMAIN sets}] : \A x \in DOMAIN sets : f[x] \in sets[x]}

Within(seq, kind) == FlattenSeq([i \in DOMAIN seq |-> IF seq[i] \in kind THEN <<seq[i]>> ELSE <<>>])
Omitting(seq, kind) == Within(seq, ToSet(seq) \ kind)

(* The items of a set in order, where `before` is the set of the pairs of  *)
(* which the first comes first: what `sorted` makes.  The item at a place  *)
(* is the one that as many others are before.                              *)
SortedList(S, before) ==
  [i \in 1..Cardinality(S) |-> CHOOSE x \in S : Cardinality({y \in S : <<y, x>> \in before}) = i - 1]
Ascending(S) == SortedList(S, {p \in S \X S : p[1] < p[2]})
=============================================================================
