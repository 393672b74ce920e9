-------------------------------- MODULE Rank --------------------------------
(***************************************************************************)
(* The rank arithmetic of tasks/rank.util.ts, which orders tasks within a  *)
(* column and columns within a board.  A rank string is a sequence of      *)
(* digits; the code's alphabet has 36, and nothing below depends on it.    *)
(* Positions count from 1 here and from 0 in the code.  The rows of a      *)
(* query, and the updates that re-space them, are the same for tasks and   *)
(* for columns and are stated here.                                        *)
(***************************************************************************)
EXTENDS Integers, Sequences, FiniteSets

CONSTANTS Base,        \* the number of digits in the alphabet
          Threshold    \* the rank length beyond which a list is re-spaced

ASSUME BaseAssumption == Base \in Nat /\ Base >= 2
ASSUME ThresholdAssumption == Threshold \in Nat \ {0}

Digits == 0 .. (Base - 1)
Ranks == Seq(Digits)

\* The two sentinels: no stored rank equals either of them.
First == <<>>
Last == <<Base - 1>>

\* Plain string comparison, both JavaScript's < and ORDER BY rank.
Less(a, b) ==
  \E i \in 1 .. Len(b) :
    /\ \A j \in 1 .. (i - 1) : j <= Len(a) /\ a[j] = b[j]
    /\ i <= Len(a) => a[i] < b[i]

\* A digit of a bound; a bound that has ended counts as `beyond' there.
Digit(s, i, beyond) == IF i <= Len(s) THEN s[i] ELSE beyond

Least(S) == CHOOSE i \in S : \A j \in S : i <= j

-----------------------------------------------------------------------------
(* A rank without a trailing 0 digit.  Every rank the program stores is    *)
(* one; "a" and "a0" have no rank between them.                            *)
Canonical(s) == s # <<>> => s[Len(s)] # 0

\* What a row can hold: between() returns nothing else, and no client chooses a rank.
StoredRanks == {s \in Ranks : s # First /\ Canonical(s) /\ Less(s, Last)}

\* Mutation: the gap test accepts adjacent digits.
BetweenNoGap(a, b) ==
  LET d == Least({i \in 1 .. (Len(b) + 1) : Digit(a, i, 0) # Digit(b, i, Base)})
  IN  [k \in 1 .. d |-> IF k < d THEN Digit(a, k, 0)
                        ELSE (Digit(a, d, 0) + Digit(b, d, Base)) \div 2]

(***************************************************************************)
(* The lexicographic midpoint, for Less(a, b); the code throws otherwise.  *)
(* It keeps a's digits, padded with 0, up to the first position with room: *)
(* the first one where a and b differ, when they differ by more than one   *)
(* digit, or the first one after it where a has not its highest digit.     *)
(***************************************************************************)
Between(a, b) ==
  LET d    == Least({i \in 1 .. (Len(b) + 1) : Digit(a, i, 0) # Digit(b, i, Base)})
      room == {i \in (d + 1) .. (d + Len(a) + 1) : Digit(a, i, 0) < Base - 1}
      wide == Digit(b, d, Base) - Digit(a, d, 0) > 1
      last == IF wide THEN d ELSE Least(room)
      top  == IF wide THEN Digit(b, d, Base) ELSE Base
  IN  [k \in 1 .. last |-> IF k < last THEN Digit(a, k, 0)
                           ELSE (Digit(a, last, 0) + top) \div 2]

\* The intervals with a rank between their ends.
Gaps ==
  {gap \in [lower : Ranks, upper : Ranks] : Less(gap.lower, gap.upper) /\ Canonical(gap.upper)}

\* n ranks in ascending order inside an interval: the middle one is the
\* interval's midpoint, each half is filled inside its own interval.
FillRange[n \in Nat] ==
  [gap \in Gaps |->
     IF n = 0 THEN <<>>
     ELSE LET before == (n - 1) \div 2
              mid    == Between(gap.lower, gap.upper)
          IN  FillRange[before][[gap EXCEPT !.upper = mid]] \o <<mid>>
                \o FillRange[n - 1 - before][[gap EXCEPT !.lower = mid]]]

Rebalance(n) == FillRange[n][[lower |-> First, upper |-> Last]]

-----------------------------------------------------------------------------
(* A query's rows: records with an id and a rank. *)

RankedRows(ids, rank) == {[id |-> i, rank |-> rank[i]] : i \in ids}

\* ORDER BY rank, id.
Before(x, y) == Less(x.rank, y.rank) \/ (x.rank = y.rank /\ x.id < y.id)

Earlier(found, x) == {y \in found : Before(y, x)}

Ordered(found) ==
  [n \in 1 .. Cardinality(found) |-> CHOOSE x \in found : Cardinality(Earlier(found, x)) = n - 1]

IdsOf(list) == [n \in 1 .. Len(list) |-> list[n].id]

\* One update per row of a list that is re-spaced.
Spaced(ids) ==
  LET ranks == Rebalance(Len(ids))
  IN  [n \in 1 .. Len(ids) |-> [id |-> ids[n], rank |-> ranks[n]]]

-----------------------------------------------------------------------------
(* Neighbour bounds.  `others' is the target list without the moved item,  *)
(* a sequence of records with an id and a rank in ascending (rank, id)     *)
(* order.  `None' stands for a field the request does not carry.           *)
CONSTANT None

IndexOf(others, id) ==
  IF \E i \in 1 .. Len(others) : others[i].id = id
  THEN CHOOSE i \in 1 .. Len(others) : others[i].id = id
  ELSE 0

RankAt(others, i, missing) == IF i \in 1 .. Len(others) THEN others[i].rank ELSE missing

\* `lower' and `upper' bound the new rank; `index' is how many of `others'
\* stand before the moved item when the list is re-spaced.
Bounds(others, lowerIdx, upperIdx, index) ==
  [lower |-> RankAt(others, lowerIdx, First),
   upper |-> RankAt(others, upperIdx, Last),
   index |-> index]

\* Neighbour ids win over a position; an id that is not in the list falls back
\* to the sentinel; a position is clamped; with neither, the item is appended.
ResolveNeighborBounds(others, beforeId, afterId, position) ==
  LET b  == IndexOf(others, beforeId)
      a  == IndexOf(others, afterId)
      at == IF position = None \/ position > Len(others) THEN Len(others) ELSE position
  IN  IF beforeId # None \/ afterId # None
      THEN Bounds(others, b, a, IF b > 0 THEN b ELSE IF a > 0 THEN a - 1 ELSE Len(others))
      ELSE Bounds(others, at, at + 1, at)
=============================================================================
