----------------------------- MODULE SortedIds -----------------------------
(* What a loop collects that goes through numbers from the least to the    *)
(* greatest.                                                               *)
EXTENDS Naturals, FiniteSets

InOrder(ids) ==
  LET Rank(m) == Cardinality({k \in ids : k <= m})
  IN  [i \in 1..Cardinality(ids) |-> CHOOSE m \in ids : Rank(m) = i]

=============================================================================
