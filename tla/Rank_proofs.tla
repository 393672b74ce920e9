----------------------------- MODULE Rank_proofs -----------------------------
(***************************************************************************)
(* Lemmas about the rank arithmetic, for every alphabet: string comparison *)
(* is a strict total order, between() returns a rank strictly inside its   *)
(* interval, and rebalance() as many of them as asked for, in ascending    *)
(* order -- what its comment (rank.util.ts 111-116) says holds "by         *)
(* construction (not by separate proof)".  Then what they mean for a list  *)
(* of rows: a query returns each row once and in order, the bounds of a    *)
(* place are the ranks of the rows beside it, a rank between two of them   *)
(* belongs to no row, and a re-spaced list keeps its order.                *)
(***************************************************************************)
EXTENDS Rank, SequenceTheorems, FiniteSetTheorems, WellFoundedInduction, TLAPS

\* A digit of a rank is a number below the base, or the stand-in past its end.
LEMMA DigitRange ==
  ASSUME NEW s \in Ranks, NEW i \in Nat \ {0}
  PROVE  /\ Digit(s, i, 0) \in 0 .. (Base - 1)
         /\ Digit(s, i, Base) \in 0 .. Base
         /\ Digit(s, i, Base) = Base <=> i > Len(s)
  BY BaseAssumption, SMT DEF Digit, Ranks, Digits

\* Appending to a rank a digit keeps it a rank.
LEMMA AppendRank ==
  ASSUME NEW s \in Ranks, NEW d \in Digits
  PROVE  /\ Append(s, d) \in Ranks
         /\ Len(Append(s, d)) = Len(s) + 1
         /\ Append(s, d)[Len(s) + 1] = d
         /\ \A k \in 1 .. Len(s) : Append(s, d)[k] = s[k]
  BY DEF Ranks

\* The characters of a rank are digits.
LEMMA RankDigits ==
  ASSUME NEW s \in Ranks
  PROVE  Len(s) \in Nat /\ \A k \in 1 .. Len(s) : s[k] \in 0 .. (Base - 1)
<1>1. SUFFICES ASSUME NEW k \in 1 .. Len(s) PROVE Len(s) \in Nat /\ s[k] \in Digits
  BY DEF Ranks, Digits
<1> QED
  BY DEF Ranks

\* A digit above s's, after s's own digits padded with 0, puts a rank above s.
LEMMA AboveLower ==
  ASSUME NEW s \in Ranks, NEW r \in Ranks, NEW n \in 1 .. Len(r),
         \A k \in 1 .. (n - 1) : r[k] = Digit(s, k, 0),
         r[n] > Digit(s, n, 0)
  PROVE  Less(s, r)
<1>1. Len(s) \in Nat /\ Len(r) \in Nat
  BY DEF Ranks
<1>2. CASE n <= Len(s)
  <2>1. s[n] < r[n]
    BY <1>1, <1>2 DEF Digit
  <2>2. \A j \in 1 .. (n - 1) : j <= Len(s) /\ s[j] = r[j]
    BY <1>1, <1>2 DEF Digit
  <2> QED
    BY <2>1, <2>2 DEF Less
<1>3. CASE n > Len(s)
  <2>1. \A j \in 1 .. Len(s) : j <= Len(s) /\ s[j] = r[j]
    BY <1>1, <1>3 DEF Digit
  <2>2. Len(s) + 1 \in 1 .. Len(r)
    BY <1>1, <1>3
  <2>3. \A j \in 1 .. (Len(s) + 1 - 1) : j <= Len(s) /\ s[j] = r[j]
    BY <1>1, <2>1
  <2> QED
    BY <1>1, <2>2, <2>3 DEF Less
<1> QED
  BY <1>1, <1>2, <1>3

\* While the padded digits of s still agree with t, t is not used up, since it has
\* no trailing 0, and its next digit is not below that of s.
LEMMA StillInside ==
  ASSUME NEW s \in Ranks, NEW t \in Ranks, Less(s, t), Canonical(t), NEW n \in Nat,
         \A k \in 1 .. n : k <= Len(t) /\ t[k] = Digit(s, k, 0)
  PROVE  n + 1 <= Len(t) /\ Digit(s, n + 1, 0) <= t[n + 1]
<1>1. PICK i \in 1 .. Len(t) : /\ \A j \in 1 .. (i - 1) : j <= Len(s) /\ s[j] = t[j]
                               /\ i > Len(s) \/ s[i] < t[i]
  BY DEF Less
<1>2. /\ Len(s) \in Nat /\ Len(t) \in Nat
      /\ \A k \in 1 .. Len(t) : t[k] \in 0 .. (Base - 1)
      /\ \A k \in 1 .. Len(s) : s[k] \in 0 .. (Base - 1)
  BY RankDigits
<1>3. CASE i <= n
  <2>1. t[i] = Digit(s, i, 0)
    BY <1>1, <1>3
  <2>2. i > Len(s)
    BY <1>1, <1>2, <2>1 DEF Digit
  <2>3. n + 1 <= Len(t)
    <3>1. SUFFICES ASSUME Len(t) <= n PROVE FALSE
      BY <1>2
    <3>2. t[Len(t)] = Digit(s, Len(t), 0) /\ Len(t) > Len(s)
      BY <1>1, <1>2, <2>2, <3>1
    <3> QED
      BY <1>1, <1>2, <3>2 DEF Canonical, Digit
  <2>4. Digit(s, n + 1, 0) = 0
    BY <1>1, <1>2, <1>3, <2>2 DEF Digit
  <2> QED
    BY <1>2, <2>3, <2>4
<1>4. CASE i = n + 1
  BY <1>1, <1>2, <1>4 DEF Digit
<1>5. CASE i > n + 1
  <2>1. n + 1 <= Len(s) /\ s[n + 1] = t[n + 1]
    BY <1>1, <1>5
  <2> QED
    BY <1>1, <1>2, <1>5, <2>1 DEF Digit
<1> QED
  BY <1>1, <1>2, <1>3, <1>4, <1>5

\* The least element of a set of numbers is the one that is below all others.
LEMMA LeastIs ==
  ASSUME NEW S, S \subseteq Nat, NEW i \in S, \A j \in S : i <= j
  PROVE  Least(S) = i
<1>1. \A j \in S : (\A k \in S : j <= k) => j = i
  <2> SUFFICES ASSUME NEW j \in S, \A k \in S : j <= k PROVE j = i
    OBVIOUS
  <2>1. j <= i /\ i <= j /\ i \in Nat /\ j \in Nat
    OBVIOUS
  <2> QED
    BY <2>1
<1> QED
  BY <1>1 DEF Least

\* The midpoint, when the first difference leaves room.
LEMMA BetweenWide ==
  ASSUME NEW s \in Ranks, NEW t \in Ranks, NEW d \in 1 .. (Len(t) + 1),
         \A k \in 1 .. (d - 1) : Digit(s, k, 0) = Digit(t, k, Base),
         Digit(t, d, Base) - Digit(s, d, 0) > 1
  PROVE  Between(s, t) = [k \in 1 .. d |-> IF k < d THEN Digit(s, k, 0)
                            ELSE (Digit(s, d, 0) + Digit(t, d, Base)) \div 2]
<1> DEFINE D == {i \in 1 .. (Len(t) + 1) : Digit(s, i, 0) # Digit(t, i, Base)}
<1>1. Len(t) \in Nat
  BY RankDigits
<1>2. Digit(s, d, 0) # Digit(t, d, Base)
  BY <1>1, DigitRange, BaseAssumption, SMT
<1>3. D \subseteq Nat /\ d \in D /\ \A j \in D : d <= j
  BY <1>1, <1>2
<1>4. Least(D) = d
  BY <1>3, LeastIs
<1> QED
  BY <1>4 DEF Between

\* The midpoint, when the first room is at n, past the first difference.
LEMMA BetweenNarrow ==
  ASSUME NEW s \in Ranks, NEW t \in Ranks, NEW d \in 1 .. (Len(t) + 1),
         \A k \in 1 .. (d - 1) : Digit(s, k, 0) = Digit(t, k, Base),
         Digit(s, d, 0) # Digit(t, d, Base),
         Digit(t, d, Base) - Digit(s, d, 0) <= 1,
         NEW n \in Nat, d < n, Digit(s, n, 0) < Base - 1,
         \A k \in (d + 1) .. (n - 1) : Digit(s, k, 0) = Base - 1
  PROVE  Between(s, t) = [k \in 1 .. n |-> IF k < n THEN Digit(s, k, 0)
                            ELSE (Digit(s, n, 0) + Base) \div 2]
<1> DEFINE D == {i \in 1 .. (Len(t) + 1) : Digit(s, i, 0) # Digit(t, i, Base)}
           R == {i \in (d + 1) .. (d + Len(s) + 1) : Digit(s, i, 0) < Base - 1}
<1>1. Len(t) \in Nat /\ Len(s) \in Nat /\ d \in Nat
  BY RankDigits
<1>2. D \subseteq Nat /\ d \in D /\ \A j \in D : d <= j
  BY <1>1
<1>3. Least(D) = d
  BY <1>2, LeastIs
<1>4. ~(Digit(t, d, Base) - Digit(s, d, 0) > 1)
  <2>1. d \in Nat \ {0}
    BY <1>1
  <2>2. Digit(t, d, Base) \in 0 .. Base
    BY <2>1, DigitRange
  <2>3. Digit(s, d, 0) \in 0 .. (Base - 1)
    BY <2>1, DigitRange
  <2> QED
    BY <2>2, <2>3, BaseAssumption
<1>5. n <= d + Len(s) + 1
  <2>1. SUFFICES ASSUME n > d + Len(s) + 1 PROVE FALSE
    BY <1>1
  <2>2. Digit(s, n - 1, 0) = Base - 1 /\ n - 1 > Len(s)
    BY <1>1, <2>1
  <2> QED
    BY <1>1, <2>2, BaseAssumption DEF Digit
<1>6. n \in R /\ R \subseteq Nat
  BY <1>1, <1>5
<1>7. \A j \in R : n <= j
  <2> SUFFICES ASSUME NEW j \in R, j < n PROVE FALSE
    BY <1>1, <1>6
  <2>1. j \in (d + 1) .. (n - 1) /\ Digit(s, j, 0) < Base - 1
    BY <1>1
  <2> QED
    BY <2>1, BaseAssumption
<1>8. Least(R) = n
  BY <1>6, <1>7, LeastIs
<1> QED
  BY <1>3, <1>4, <1>8 DEF Between

\* A set of natural numbers has a least one.
LEMMA Minimum ==
  ASSUME NEW S, S \subseteq Nat, S # {}
  PROVE  \E m \in S : \A k \in S : m <= k
<1> DEFINE R == OpToRel(<, Nat)
<1>1. IsWellFoundedOn(R, Nat)
  BY NatLessThanWellFounded
<1>2. \A i, j \in Nat : i < j => <<i, j>> \in R
  BY DEF OpToRel
<1> HIDE DEF R
<1>3. PICK m \in S : \A k \in S : ~(<<k, m>> \in R)
  BY <1>1, WFMin
<1>4. \A k \in S : m \in Nat /\ k \in Nat /\ ~(k < m)
  BY <1>2, <1>3
<1> QED
  BY <1>4
-----------------------------------------------------------------------------
(* String comparison. *)

LEMMA LessIrreflexive ==
  ASSUME NEW s \in Ranks
  PROVE  ~Less(s, s)
  BY RankDigits DEF Less

LEMMA LessTransitive ==
  ASSUME NEW s \in Ranks, NEW t \in Ranks, NEW u \in Ranks, Less(s, t), Less(t, u)
  PROVE  Less(s, u)
<1>0. /\ Len(s) \in Nat /\ Len(t) \in Nat /\ Len(u) \in Nat
      /\ \A k \in 1 .. Len(s) : s[k] \in Int
      /\ \A k \in 1 .. Len(t) : t[k] \in Int
      /\ \A k \in 1 .. Len(u) : u[k] \in Int
  BY RankDigits, BaseAssumption
<1>1. PICK i \in 1 .. Len(t) : /\ \A j \in 1 .. (i - 1) : j <= Len(s) /\ s[j] = t[j]
                               /\ i <= Len(s) => s[i] < t[i]
  BY DEF Less
<1>2. PICK k \in 1 .. Len(u) : /\ \A j \in 1 .. (k - 1) : j <= Len(t) /\ t[j] = u[j]
                               /\ k <= Len(t) => t[k] < u[k]
  BY DEF Less
<1>3. CASE i < k
  <2>1. i \in 1 .. Len(u) /\ t[i] = u[i] /\ \A j \in 1 .. (i - 1) : s[j] = u[j]
    BY <1>0, <1>1, <1>2, <1>3
  <2> QED
    BY <1>1, <2>1 DEF Less
<1>4. CASE i >= k
  <2>1. \A j \in 1 .. (k - 1) : j <= Len(s) /\ s[j] = u[j]
    BY <1>0, <1>1, <1>2, <1>4
  <2>2. k <= Len(s) => s[k] < u[k]
    BY <1>0, <1>1, <1>2, <1>4
  <2> QED
    BY <2>1, <2>2 DEF Less
<1> QED
  BY <1>0, <1>3, <1>4

\* Two ranks differ at some first digit, or one has ended there.
LEMMA LessTotal ==
  ASSUME NEW s \in Ranks, NEW t \in Ranks, s # t
  PROVE  Less(s, t) \/ Less(t, s)
<1> DEFINE D == {k \in Nat \ {0} : \/ k <= Len(s) /\ k <= Len(t) /\ s[k] # t[k]
                                   \/ k <= Len(s) /\ k > Len(t)
                                   \/ k > Len(s) /\ k <= Len(t)}
<1>0. /\ Len(s) \in Nat /\ Len(t) \in Nat
      /\ \A k \in 1 .. Len(s) : s[k] \in Int
      /\ \A k \in 1 .. Len(t) : t[k] \in Int
  BY RankDigits, BaseAssumption
<1>1. D # {}
  <2>1. SUFFICES ASSUME D = {} PROVE s = t
    OBVIOUS
  <2>2. Len(s) = Len(t)
    <3>1. CASE Len(s) < Len(t)
      <4>1. Len(t) \in D
        BY <1>0, <3>1
      <4> QED
        BY <2>1, <4>1
    <3>2. CASE Len(t) < Len(s)
      <4>1. Len(s) \in D
        BY <1>0, <3>2
      <4> QED
        BY <2>1, <4>1
    <3> QED
      BY <1>0, <3>1, <3>2
  <2>3. \A k \in 1 .. Len(s) : s[k] = t[k]
    <3> SUFFICES ASSUME NEW k \in 1 .. Len(s), s[k] # t[k] PROVE FALSE
      OBVIOUS
    <3>1. k \in D
      BY <1>0, <2>2
    <3> QED
      BY <2>1, <3>1
  <2>4. s \in Seq(Digits) /\ t \in Seq(Digits)
    BY DEF Ranks
  <2> QED
    BY <2>2, <2>3, <2>4, SeqEqual
<1>2. D \subseteq Nat
  OBVIOUS
<1>3. PICK d \in D : \A k \in D : d <= k
  BY <1>1, <1>2, Minimum
<1>4. d \in Nat \ {0} /\ \A k \in 1 .. (d - 1) : k <= Len(s) /\ k <= Len(t) /\ s[k] = t[k]
  <2> SUFFICES ASSUME NEW k \in 1 .. (d - 1) PROVE k <= Len(s) /\ k <= Len(t) /\ s[k] = t[k]
    OBVIOUS
  <2>1. k \in Nat \ {0} /\ k < d
    BY <1>3
  <2>2. k \notin D
    BY <1>2, <1>3, <2>1
  <2>3. k <= Len(s) \/ k <= Len(t)
    BY <1>0, <1>3, <2>1
  <2> QED
    BY <1>0, <2>1, <2>2, <2>3
<1>5. CASE d <= Len(s) /\ d <= Len(t) /\ s[d] # t[d]
  <2>1. d \in 1 .. Len(s) /\ d \in 1 .. Len(t) /\ (s[d] < t[d] \/ t[d] < s[d])
    BY <1>0, <1>4, <1>5
  <2> QED
    BY <1>4, <2>1 DEF Less
<1>6. CASE d <= Len(s) /\ d > Len(t)
  <2>1. d \in 1 .. Len(s) /\ ~(d <= Len(t))
    BY <1>0, <1>4, <1>6
  <2> QED
    BY <1>4, <2>1 DEF Less
<1>7. CASE d > Len(s) /\ d <= Len(t)
  <2>1. d \in 1 .. Len(t) /\ ~(d <= Len(s))
    BY <1>0, <1>4, <1>7
  <2> QED
    BY <1>4, <2>1 DEF Less
<1> QED
  BY <1>3, <1>5, <1>6, <1>7
-----------------------------------------------------------------------------
(* The midpoint. *)

\* A sequence of digits given digit by digit.
LEMMA DigitByDigit ==
  ASSUME NEW s \in Ranks, NEW n \in Nat \ {0}, NEW m \in Digits,
         NEW r, r = [k \in 1 .. n |-> IF k < n THEN Digit(s, k, 0) ELSE m]
  PROVE  /\ r \in Ranks /\ Len(r) = n /\ r[n] = m
         /\ \A k \in 1 .. (n - 1) : r[k] = Digit(s, k, 0)
<1>1. \A k \in 1 .. n : (IF k < n THEN Digit(s, k, 0) ELSE m) \in Digits
  <2> SUFFICES ASSUME NEW k \in 1 .. n PROVE Digit(s, k, 0) \in Digits
    OBVIOUS
  <2>1. k \in Nat \ {0}
    OBVIOUS
  <2> QED
    BY <2>1, DigitRange DEF Digits
<1>2. r \in [1 .. n -> Digits]
  BY <1>1
<1>3. r \in Seq(Digits) /\ Len(r) = n
  BY <1>2
<1> QED
  BY <1>3 DEF Ranks

\* What between(a, b) returns for a < b, b without a trailing 0, is strictly between
\* them, and has no trailing 0 either.
THEOREM BetweenIsBetween ==
  ASSUME NEW s \in Ranks, NEW t \in Ranks, Less(s, t), Canonical(t)
  PROVE  /\ Between(s, t) \in Ranks /\ Between(s, t) # <<>> /\ Canonical(Between(s, t))
         /\ Less(s, Between(s, t)) /\ Less(Between(s, t), t)
<1> DEFINE D == {i \in 1 .. (Len(t) + 1) : Digit(s, i, 0) # Digit(t, i, Base)}
           r == Between(s, t)
<1>0. /\ Len(s) \in Nat /\ Len(t) \in Nat
      /\ \A k \in 1 .. Len(s) : s[k] \in 0 .. (Base - 1)
      /\ \A k \in 1 .. Len(t) : t[k] \in 0 .. (Base - 1)
  BY RankDigits
<1>1. Len(t) + 1 \in D
  BY <1>0, BaseAssumption DEF Digit
<1>2. D \subseteq Nat
  BY <1>0
<1>3. PICK d \in D : \A k \in D : d <= k
  BY <1>1, <1>2, Minimum
<1>4. d \in 1 .. (Len(t) + 1) /\ Digit(s, d, 0) # Digit(t, d, Base)
  BY <1>3
<1>5. \A k \in 1 .. (d - 1) : Digit(s, k, 0) = Digit(t, k, Base)
  <2> SUFFICES ASSUME NEW k \in 1 .. (d - 1), Digit(s, k, 0) # Digit(t, k, Base) PROVE FALSE
    OBVIOUS
  <2>1. k \in D /\ k < d
    BY <1>0, <1>4
  <2> QED
    BY <1>2, <1>3, <2>1
<1> HIDE DEF D
<1>6. \A k \in 1 .. (d - 1) : k <= Len(t) /\ t[k] = Digit(s, k, 0)
  <2> SUFFICES ASSUME NEW k \in 1 .. (d - 1) PROVE k <= Len(t) /\ t[k] = Digit(s, k, 0)
    OBVIOUS
  <2>1. k \in Nat \ {0}
    BY <1>0, <1>4
  <2>2. Digit(s, k, 0) \in 0 .. (Base - 1) /\ Digit(s, k, 0) = Digit(t, k, Base)
    BY <1>5, <2>1, DigitRange
  <2>3. k <= Len(t)
    BY <1>0, <2>1, <2>2, DigitRange, BaseAssumption
  <2> QED
    BY <2>2, <2>3 DEF Digit
<1>7. d - 1 \in Nat /\ d \in Nat \ {0} /\ d - 1 + 1 = d
  BY <1>0, <1>4
<1>8. d <= Len(t) /\ Digit(s, d, 0) <= t[d]
  <2>1. d - 1 + 1 <= Len(t) /\ Digit(s, d - 1 + 1, 0) <= t[d - 1 + 1]
    BY <1>6, <1>7, StillInside
  <2> QED
    BY <1>7, <2>1
<1>9. /\ Digit(t, d, Base) = t[d] /\ t[d] \in 0 .. (Base - 1)
      /\ Digit(s, d, 0) \in 0 .. (Base - 1)
      /\ Digit(s, d, 0) < t[d]
  <2>1. Digit(t, d, Base) = t[d] /\ t[d] \in 0 .. (Base - 1)
    BY <1>0, <1>7, <1>8 DEF Digit
  <2>2. Digit(s, d, 0) \in 0 .. (Base - 1)
    BY <1>7, DigitRange
  <2> QED
    BY <1>4, <1>8, <2>1, <2>2, BaseAssumption
<1> SUFFICES \E n \in Nat : /\ d <= n
                            /\ r \in Ranks /\ Len(r) = n /\ r[n] > Digit(s, n, 0)
                            /\ r[n] \in Digits
                            /\ r[d] < t[d]
                            /\ \A k \in 1 .. (n - 1) : r[k] = Digit(s, k, 0)
  <2>1. PICK n \in Nat : /\ d <= n
                         /\ r \in Ranks /\ Len(r) = n /\ r[n] > Digit(s, n, 0)
                         /\ r[n] \in Digits
                         /\ r[d] < t[d]
                         /\ \A k \in 1 .. (n - 1) : r[k] = Digit(s, k, 0)
    OBVIOUS
  <2> HIDE DEF r
  <2>2. n \in Nat \ {0} /\ n \in 1 .. Len(r)
    BY <1>7, <2>1
  <2>3. Less(s, r)
    BY <2>1, <2>2, AboveLower
  <2>4. r # <<>> /\ Canonical(r)
    <3>1. Digit(s, n, 0) \in 0 .. (Base - 1)
      BY <2>2, DigitRange
    <3>2. r[n] \in 0 .. (Base - 1) /\ r[n] > Digit(s, n, 0)
      BY <2>1 DEF Digits
    <3>3. r[n] # 0
      BY <3>1, <3>2, BaseAssumption
    <3> QED
      BY <2>1, <2>2, <3>3 DEF Canonical
  <2>5. Less(r, t)
    <3>1. d \in 1 .. Len(t) /\ \A j \in 1 .. (d - 1) : j <= Len(r) /\ r[j] = t[j]
      BY <1>0, <1>6, <1>7, <1>8, <2>1
    <3> QED
      BY <2>1, <3>1 DEF Less
  <2> QED
    BY <2>1, <2>3, <2>4, <2>5 DEF r
<1>10. CASE t[d] - Digit(s, d, 0) > 1
  <2> DEFINE m == (Digit(s, d, 0) + Digit(t, d, Base)) \div 2
  <2>1. r = [k \in 1 .. d |-> IF k < d THEN Digit(s, k, 0) ELSE m]
    BY <1>4, <1>5, <1>9, <1>10, BetweenWide
  <2>2. m \in Digits /\ Digit(s, d, 0) < m /\ m < t[d]
    BY <1>9, <1>10, BaseAssumption DEF Digits
  <2> HIDE DEF r, m
  <2>3. /\ r \in Ranks /\ Len(r) = d /\ r[d] = m
        /\ \A k \in 1 .. (d - 1) : r[k] = Digit(s, k, 0)
    BY <1>7, <2>1, <2>2, DigitByDigit
  <2>4. d \in Nat /\ d <= d /\ m > Digit(s, d, 0)
    BY <1>7, <1>9, <2>2, BaseAssumption DEF Digits
  <2> QED
    BY <2>2, <2>3, <2>4
<1>11. CASE t[d] - Digit(s, d, 0) <= 1
  <2> DEFINE R == {n \in Nat : n > d /\ Digit(s, n, 0) < Base - 1}
  <2>1. Len(s) + d + 1 \in R
    BY <1>0, <1>7, BaseAssumption DEF Digit
  <2>2. PICK n \in R : \A k \in R : n <= k
    BY <2>1, Minimum
  <2>3. n \in Nat \ {0} /\ n > d /\ Digit(s, n, 0) < Base - 1
    BY <1>7, <2>2
  <2>4. \A k \in (d + 1) .. (n - 1) : Digit(s, k, 0) = Base - 1
    <3> SUFFICES ASSUME NEW k \in (d + 1) .. (n - 1) PROVE Digit(s, k, 0) = Base - 1
      OBVIOUS
    <3>1. k \in Nat \ {0} /\ k > d /\ k < n
      BY <1>7, <2>3
    <3>2. k \notin R
      BY <2>2, <2>3, <3>1
    <3>3. Digit(s, k, 0) \in 0 .. (Base - 1)
      BY <3>1, DigitRange
    <3> QED
      BY <3>1, <3>2, <3>3, BaseAssumption
  <2> HIDE DEF R
  <2> DEFINE m == (Digit(s, n, 0) + Base) \div 2
  <2>5. r = [k \in 1 .. n |-> IF k < n THEN Digit(s, k, 0) ELSE m]
    <3>1. Digit(t, d, Base) - Digit(s, d, 0) <= 1 /\ n \in Nat /\ d < n
      BY <1>7, <1>9, <1>11, <2>3
    <3> QED
      BY <1>4, <1>5, <2>3, <2>4, <3>1, BetweenNarrow
  <2>6. Digit(s, n, 0) \in 0 .. (Base - 1)
    BY <2>3, DigitRange
  <2>7. m \in Digits /\ m > Digit(s, n, 0)
    BY <2>3, <2>6, BaseAssumption DEF Digits
  <2> HIDE DEF r, m
  <2>8. /\ r \in Ranks /\ Len(r) = n /\ r[n] = m
        /\ \A k \in 1 .. (n - 1) : r[k] = Digit(s, k, 0)
    BY <2>3, <2>5, <2>7, DigitByDigit
  <2>9. d \in 1 .. (n - 1) /\ n \in Nat /\ d <= n
    BY <1>7, <2>3
  <2> QED
    BY <1>9, <2>7, <2>8, <2>9
<1> QED
  BY <1>9, <1>10, <1>11, BaseAssumption
-----------------------------------------------------------------------------
(* Re-spacing. *)

\* One level of the recursion.
Fill(g, n) ==
  [gap \in Gaps |->
     IF n = 0 THEN <<>>
     ELSE LET before == (n - 1) \div 2
              mid    == Between(gap.lower, gap.upper)
          IN  g[before][[gap EXCEPT !.upper = mid]] \o <<mid>>
                \o g[n - 1 - before][[gap EXCEPT !.lower = mid]]]

\* g computes the recursion as far as n.
FillsTo(g, n) == \A m \in 0 .. n : g[m] = Fill(g, m)

LEMMA Halves ==
  ASSUME NEW n \in Nat \ {0}
  PROVE  (n - 1) \div 2 \in 0 .. (n - 1) /\ n - 1 - ((n - 1) \div 2) \in 0 .. (n - 1)
  OBVIOUS

\* It looks at smaller numbers only.
LEMMA FillDepends ==
  ASSUME NEW g, NEW h, NEW n \in Nat, \A m \in 0 .. (n - 1) : g[m] = h[m]
  PROVE  Fill(g, n) = Fill(h, n)
<1>1. CASE n = 0
  BY <1>1 DEF Fill
<1>2. CASE n # 0
  <2> DEFINE i == (n - 1) \div 2
             k == n - 1 - i
  <2>1. i \in 0 .. (n - 1) /\ k \in 0 .. (n - 1)
    BY <1>2, Halves
  <2> HIDE DEF i, k
  <2>2. g[i] = h[i] /\ g[k] = h[k]
    BY <2>1
  <2> QED
    BY <1>2, <2>2, Zenon DEF Fill, i, k
<1> QED
  BY <1>1, <1>2

LEMMA FillUnique ==
  ASSUME NEW g, NEW h, NEW n \in Nat, FillsTo(g, n), FillsTo(h, n)
  PROVE  \A m \in 0 .. n : g[m] = h[m]
<1> DEFINE S == {m \in 0 .. n : g[m] # h[m]}
<1>1. SUFFICES ASSUME S # {} PROVE FALSE
  OBVIOUS
<1>2. S \subseteq Nat
  OBVIOUS
<1>3. PICK m \in S : \A k \in S : m <= k
  BY <1>1, <1>2, Minimum
<1>4. m \in 0 .. n /\ m \in Nat /\ g[m] # h[m]
  BY <1>3
<1>5. \A k \in 0 .. (m - 1) : g[k] = h[k]
  <2> SUFFICES ASSUME NEW k \in 0 .. (m - 1), g[k] # h[k] PROVE FALSE
    OBVIOUS
  <2>1. k \in S /\ k < m /\ k \in Nat
    BY <1>4
  <2> QED
    BY <1>3, <1>4, <2>1
<1>6. Fill(g, m) = Fill(h, m)
  BY <1>4, <1>5, FillDepends
<1> QED
  BY <1>4, <1>6 DEF FillsTo

LEMMA FillExists ==
  ASSUME NEW n \in Nat
  PROVE  \E g : FillsTo(g, n)
<1> DEFINE S == {m \in Nat : \A g : ~FillsTo(g, m)}
<1>1. SUFFICES ASSUME S # {} PROVE FALSE
  OBVIOUS
<1>2. PICK m \in S : \A k \in S : m <= k
  <2>1. S \subseteq Nat
    OBVIOUS
  <2> HIDE DEF S
  <2> QED
    BY <1>1, <2>1, Minimum
<1>3. m \in Nat /\ \A g : ~FillsTo(g, m)
  BY <1>2
<1>4. PICK g : \A k \in 0 .. (m - 1) : g[k] = Fill(g, k)
  <2>1. CASE m = 0
    <3>1. 0 .. (m - 1) = {}
      BY <2>1
    <3> QED
      BY <3>1
  <2>2. CASE m # 0
    <3>1. m - 1 \in Nat /\ ~(m <= m - 1)
      BY <1>3, <2>2
    <3>2. m - 1 \notin S
      BY <1>2, <3>1
    <3> QED
      BY <3>1, <3>2 DEF FillsTo
  <2> QED
    BY <2>1, <2>2
<1> DEFINE h == [k \in Nat |-> IF k = m THEN Fill(g, m) ELSE g[k]]
<1>5. \A k \in 0 .. (m - 1) : h[k] = g[k]
  BY <1>3
<1>6. h[m] = Fill(g, m)
  BY <1>3
<1> HIDE DEF h
<1>7. \A k \in 0 .. m : h[k] = Fill(h, k)
  <2> SUFFICES ASSUME NEW k \in 0 .. m PROVE h[k] = Fill(h, k)
    OBVIOUS
  <2>1. k \in Nat /\ k <= m /\ \A l \in 0 .. (k - 1) : l \in 0 .. (m - 1)
    BY <1>3
  <2>2. Fill(h, k) = Fill(g, k)
    <3>1. \A l \in 0 .. (k - 1) : h[l] = g[l]
      BY <1>5, <2>1
    <3> QED
      BY <2>1, <3>1, FillDepends
  <2>3. CASE k = m
    BY <1>6, <2>2, <2>3
  <2>4. CASE k # m
    <3>1. k \in 0 .. (m - 1)
      BY <1>3, <2>1, <2>4
    <3> QED
      BY <1>4, <1>5, <2>2, <3>1
  <2> QED
    BY <2>3, <2>4
<1> QED
  BY <1>3, <1>7 DEF FillsTo

\* The recursion has a solution, so that FillRange is one.
LEMMA FillRangeIs ==
  ASSUME NEW n \in Nat
  PROVE  FillRange[n] = Fill(FillRange, n)
<1> DEFINE G(m) == CHOOSE g : FillsTo(g, m)
           f == [m \in Nat |-> G(m)[m]]
           Solves(g) == g = [m \in Nat |-> Fill(g, m)]
<1>1. \A m \in Nat : FillsTo(G(m), m)
  BY FillExists
<1>2. \A m \in Nat : f[m] = G(m)[m]
  OBVIOUS
<1> HIDE DEF G
<1>3. \A m \in Nat : f[m] = Fill(f, m)
  <2> SUFFICES ASSUME NEW m \in Nat PROVE f[m] = Fill(f, m)
    OBVIOUS
  <2>1. \A k \in 0 .. (m - 1) : f[k] = G(m)[k]
    <3> SUFFICES ASSUME NEW k \in 0 .. (m - 1) PROVE f[k] = G(m)[k]
      OBVIOUS
    <3>1. k \in Nat /\ k \in 0 .. k /\ \A l \in 0 .. k : l \in 0 .. m
      OBVIOUS
    <3>2. FillsTo(G(m), k) /\ FillsTo(G(k), k)
      BY <1>1, <3>1 DEF FillsTo
    <3>3. G(k)[k] = G(m)[k]
      BY <3>1, <3>2, FillUnique
    <3> QED
      BY <1>2, <3>1, <3>3
  <2> HIDE DEF f
  <2>2. Fill(f, m) = Fill(G(m), m)
    BY <2>1, FillDepends
  <2>3. G(m)[m] = Fill(G(m), m)
    BY <1>1 DEF FillsTo
  <2> QED
    BY <1>2, <2>2, <2>3
<1>4. f = [m \in Nat |-> f[m]]
  OBVIOUS
<1> HIDE DEF f
<1>5. Solves(f)
  BY <1>3, <1>4
<1>6. Solves(CHOOSE g : Solves(g))
  BY <1>5
<1>7. FillRange = CHOOSE g : Solves(g)
  BY Zenon DEF FillRange, Fill
<1>8. Solves(FillRange)
  BY <1>6, <1>7
<1> QED
  BY <1>8

\* The ranks strictly inside an interval.
Inside(gap) ==
  {r \in Ranks : r # <<>> /\ Canonical(r) /\ Less(gap.lower, r) /\ Less(r, gap.upper)}

Ascends(s) == \A i, j \in 1 .. Len(s) : i < j => Less(s[i], s[j])

\* The midpoint splits an interval into two that have room again.
LEMMA GapSplits ==
  ASSUME NEW gap \in Gaps, NEW mid, mid = Between(gap.lower, gap.upper)
  PROVE  LET left  == [gap EXCEPT !.upper = mid]
             right == [gap EXCEPT !.lower = mid]
         IN  /\ mid \in Inside(gap)
             /\ left \in Gaps /\ left.lower = gap.lower /\ left.upper = mid
             /\ right \in Gaps /\ right.lower = mid /\ right.upper = gap.upper
             /\ Inside(left) \subseteq Inside(gap) /\ Inside(right) \subseteq Inside(gap)
             /\ \A r \in Inside(left) : r \in Ranks /\ Less(r, mid)
             /\ \A r \in Inside(right) : r \in Ranks /\ Less(mid, r)
             /\ \A r \in Inside(left), q \in Inside(right) : Less(r, q)
<1> DEFINE left  == [gap EXCEPT !.upper = mid]
           right == [gap EXCEPT !.lower = mid]
<1>1. /\ gap \in [lower : Ranks, upper : Ranks]
      /\ gap.lower \in Ranks /\ gap.upper \in Ranks
      /\ Less(gap.lower, gap.upper) /\ Canonical(gap.upper)
  BY DEF Gaps
<1>2. /\ mid \in Ranks /\ mid # <<>> /\ Canonical(mid)
      /\ Less(gap.lower, mid) /\ Less(mid, gap.upper)
  BY <1>1, BetweenIsBetween
<1>3. /\ left \in [lower : Ranks, upper : Ranks] /\ left.lower = gap.lower /\ left.upper = mid
      /\ right \in [lower : Ranks, upper : Ranks] /\ right.lower = mid /\ right.upper = gap.upper
  BY <1>1, <1>2
<1>4. left \in Gaps /\ right \in Gaps
  BY <1>1, <1>2, <1>3 DEF Gaps
<1> HIDE DEF left, right
<1>5. \A r \in Inside(left) : r \in Ranks /\ Less(r, mid) /\ r \in Inside(gap)
  <2> SUFFICES ASSUME NEW r \in Inside(left)
               PROVE  r \in Ranks /\ Less(r, mid) /\ r \in Inside(gap)
    OBVIOUS
  <2>1. r \in Ranks /\ r # <<>> /\ Canonical(r) /\ Less(gap.lower, r) /\ Less(r, mid)
    BY <1>3 DEF Inside
  <2>2. Less(r, gap.upper)
    BY <1>1, <1>2, <2>1, LessTransitive
  <2> QED
    BY <2>1, <2>2 DEF Inside
<1>6. \A r \in Inside(right) : r \in Ranks /\ Less(mid, r) /\ r \in Inside(gap)
  <2> SUFFICES ASSUME NEW r \in Inside(right)
               PROVE  r \in Ranks /\ Less(mid, r) /\ r \in Inside(gap)
    OBVIOUS
  <2>1. r \in Ranks /\ r # <<>> /\ Canonical(r) /\ Less(mid, r) /\ Less(r, gap.upper)
    BY <1>3 DEF Inside
  <2>2. Less(gap.lower, r)
    BY <1>1, <1>2, <2>1, LessTransitive
  <2> QED
    BY <2>1, <2>2 DEF Inside
<1>7. \A r \in Inside(left), q \in Inside(right) : Less(r, q)
  BY <1>2, <1>5, <1>6, LessTransitive
<1>8. mid \in Inside(gap)
  BY <1>2 DEF Inside
<1> QED
  BY <1>3, <1>4, <1>5, <1>6, <1>7, <1>8 DEF left, right

\* A sequence put together from two and what stands between them.
LEMMA ThreeParts ==
  ASSUME NEW S, NEW p \in Seq(S), NEW q \in Seq(S), NEW x \in S,
         NEW w, w = p \o <<x>> \o q
  PROVE  /\ w \in Seq(S) /\ Len(w) = Len(p) + 1 + Len(q)
         /\ Len(p) \in Nat /\ Len(q) \in Nat
         /\ \A i \in 1 .. Len(p) : w[i] = p[i]
         /\ w[Len(p) + 1] = x
         /\ \A i \in 1 .. Len(q) : w[Len(p) + 1 + i] = q[i]
<1>1. /\ <<x>> \in Seq(S) /\ Len(<<x>>) = 1 /\ <<x>>[1] = x
      /\ Len(p) \in Nat /\ Len(q) \in Nat
  OBVIOUS
<1> QED
  BY <1>1

\* Two ascending lists around a rank between them make one.
LEMMA Joined ==
  ASSUME NEW S, S \subseteq Ranks, NEW L, NEW R, L \subseteq S, R \subseteq S,
         NEW mid \in S,
         NEW p \in Seq(L), NEW q \in Seq(R), Ascends(p), Ascends(q),
         \A r \in L : Less(r, mid), \A r \in R : Less(mid, r),
         \A r \in L, u \in R : Less(r, u)
  PROVE  /\ p \o <<mid>> \o q \in Seq(S)
         /\ Len(p \o <<mid>> \o q) = Len(p) + 1 + Len(q)
         /\ Ascends(p \o <<mid>> \o q)
<1> DEFINE w == p \o <<mid>> \o q
<1>1. p \in Seq(S) /\ q \in Seq(S) /\ Len(p) \in Nat /\ Len(q) \in Nat
  OBVIOUS
<1>2. /\ w \in Seq(S) /\ Len(w) = Len(p) + 1 + Len(q)
      /\ \A i \in 1 .. Len(p) : w[i] = p[i]
      /\ w[Len(p) + 1] = mid
      /\ \A i \in 1 .. Len(q) : w[Len(p) + 1 + i] = q[i]
  BY <1>1, ThreeParts
<1>3. /\ \A i \in 1 .. Len(p) : p[i] \in L
      /\ \A i \in 1 .. Len(q) : q[i] \in R
  OBVIOUS
<1> HIDE DEF w
<1>4. ASSUME NEW i \in 1 .. Len(w), NEW j \in 1 .. Len(w), i < j
      PROVE  Less(w[i], w[j])
  <2>0. Len(p) \in Nat /\ i \in Nat /\ j \in Nat
    BY <1>1, <1>2
  <2>1. CASE j <= Len(p)
    <3>1. i \in 1 .. Len(p) /\ j \in 1 .. Len(p)
      BY <1>1, <1>2, <1>4, <2>1
    <3> QED
      BY <1>2, <1>4, <3>1 DEF Ascends
  <2>2. CASE j = Len(p) + 1
    <3>1. i \in 1 .. Len(p)
      BY <1>1, <1>2, <1>4, <2>2
    <3> QED
      BY <1>2, <1>3, <2>2, <3>1
  <2>3. CASE j > Len(p) + 1
    <3> DEFINE l == j - Len(p) - 1
    <3>1. l \in 1 .. Len(q) /\ j = Len(p) + 1 + l
      BY <1>1, <1>2, <1>4, <2>3
    <3>2. w[j] = q[l] /\ q[l] \in R
      BY <1>2, <1>3, <3>1
    <3>3. CASE i <= Len(p)
      <4>1. i \in 1 .. Len(p)
        BY <1>1, <1>2, <3>3
      <4> QED
        BY <1>2, <1>3, <3>2, <4>1
    <3>4. CASE i = Len(p) + 1
      BY <1>2, <3>2, <3>4
    <3>5. CASE i > Len(p) + 1
      <4> DEFINE k == i - Len(p) - 1
      <4>1. k \in 1 .. Len(q) /\ i = Len(p) + 1 + k /\ k < l
        BY <1>1, <1>2, <1>4, <3>1, <3>5
      <4> HIDE DEF k, l
      <4>2. w[i] = q[k]
        BY <1>2, <4>1
      <4> QED
        BY <3>1, <3>2, <4>1, <4>2 DEF Ascends
    <3> QED
      BY <2>0, <3>3, <3>4, <3>5
  <2> QED
    BY <2>0, <2>1, <2>2, <2>3
<1>5. Ascends(w)
  BY <1>4 DEF Ascends
<1> QED
  BY <1>2, <1>5 DEF w

\* What fillRange() computes: as many ranks as asked for, ascending, inside the interval.
THEOREM FillRangeAscends ==
  ASSUME NEW n \in Nat, NEW gap \in Gaps
  PROVE  /\ FillRange[n][gap] \in Seq(Inside(gap)) /\ Len(FillRange[n][gap]) = n
         /\ Ascends(FillRange[n][gap])
<1> DEFINE Good(m, g) == /\ FillRange[m][g] \in Seq(Inside(g)) /\ Len(FillRange[m][g]) = m
                         /\ Ascends(FillRange[m][g])
           S == {m \in Nat : \E g \in Gaps : ~Good(m, g)}
<1>1. SUFFICES ASSUME S # {} PROVE FALSE
  OBVIOUS
<1>2. PICK m \in S : \A k \in S : m <= k
  <2>1. S \subseteq Nat
    OBVIOUS
  <2> HIDE DEF S
  <2> QED
    BY <1>1, <2>1, Minimum
<1>3. PICK g \in Gaps : ~Good(m, g)
  BY <1>2
<1>4. m \in Nat
  BY <1>2
<1>5. \A k \in 0 .. (m - 1), v \in Gaps : Good(k, v)
  <2> SUFFICES ASSUME NEW k \in 0 .. (m - 1), NEW v \in Gaps, ~Good(k, v) PROVE FALSE
    OBVIOUS
  <2>1. k \in Nat /\ k < m
    BY <1>4
  <2>2. k \in S
    BY <2>1
  <2> QED
    BY <1>2, <1>4, <2>1, <2>2
<1>6. m # 0
  <2> SUFFICES ASSUME m = 0 PROVE FALSE
    OBVIOUS
  <2>1. FillRange[0][g] = <<>>
    BY FillRangeIs DEF Fill
  <2> QED
    BY <1>3, <2>1 DEF Ascends
<1> DEFINE i   == (m - 1) \div 2
           j   == m - 1 - i
           mid == Between(g.lower, g.upper)
           left  == [g EXCEPT !.upper = mid]
           right == [g EXCEPT !.lower = mid]
           p == FillRange[i][left]
           q == FillRange[j][right]
<1>7. FillRange[m][g] = p \o <<mid>> \o q
  BY <1>4, <1>6, FillRangeIs, Zenon DEF Fill
<1>8. /\ i \in 0 .. (m - 1) /\ j \in 0 .. (m - 1) /\ i + 1 + j = m
  BY <1>4, <1>6, Halves
<1>9. /\ mid \in Inside(g) /\ left \in Gaps /\ right \in Gaps
      /\ Inside(left) \subseteq Inside(g) /\ Inside(right) \subseteq Inside(g)
      /\ \A r \in Inside(left) : Less(r, mid)
      /\ \A r \in Inside(right) : Less(mid, r)
      /\ \A r \in Inside(left), u \in Inside(right) : Less(r, u)
  BY GapSplits
<1>10. Good(i, left) /\ Good(j, right)
  BY <1>5, <1>8, <1>9
<1>11. /\ p \in Seq(Inside(left)) /\ Len(p) = i /\ Ascends(p)
       /\ q \in Seq(Inside(right)) /\ Len(q) = j /\ Ascends(q)
  BY <1>10
<1>12. Inside(g) \subseteq Ranks
  BY DEF Inside
<1> HIDE DEF p, q, mid, left, right, i, j
<1>13. /\ p \o <<mid>> \o q \in Seq(Inside(g))
       /\ Len(p \o <<mid>> \o q) = Len(p) + 1 + Len(q)
       /\ Ascends(p \o <<mid>> \o q)
  BY <1>9, <1>11, <1>12, Joined
<1>14. Good(m, g)
  BY <1>7, <1>8, <1>11, <1>13
<1> QED
  BY <1>3, <1>14

\* What rebalance() returns: ranks that can be stored, in ascending order.
THEOREM RebalanceAscends ==
  ASSUME NEW n \in Nat
  PROVE  /\ Rebalance(n) \in Seq(StoredRanks) /\ Len(Rebalance(n)) = n
         /\ Ascends(Rebalance(n))
<1> DEFINE gap == [lower |-> First, upper |-> Last]
<1>1. /\ First \in Ranks /\ Last \in Ranks
      /\ Less(First, Last) /\ Canonical(Last)
  BY BaseAssumption DEF First, Last, Ranks, Digits, Less, Canonical
<1>2. gap \in Gaps /\ gap.upper = Last
  BY <1>1 DEF Gaps
<1> HIDE DEF gap
<1>3. Inside(gap) \subseteq StoredRanks
  BY <1>2 DEF Inside, StoredRanks, First
<1>4. /\ FillRange[n][gap] \in Seq(Inside(gap)) /\ Len(FillRange[n][gap]) = n
      /\ Ascends(FillRange[n][gap])
  BY <1>2, FillRangeAscends
<1> QED
  BY <1>3, <1>4 DEF Rebalance, gap
-----------------------------------------------------------------------------
(* A query's rows, in order. *)

\* What a query finds: finitely many rows, each with an id of its own.
Rows(found) ==
  /\ IsFiniteSet(found)
  /\ found \subseteq [id : Nat, rank : StoredRanks]
  /\ \A x, y \in found : x.id = y.id => x = y

\* ORDER BY rank, id compares any two rows, one way only.
LEMMA BeforeOrders ==
  ASSUME NEW found, Rows(found)
  PROVE  /\ \A x \in found : ~Before(x, x)
         /\ \A x, y \in found : x # y => Before(x, y) \/ Before(y, x)
         /\ \A x, y, z \in found : Before(x, y) /\ Before(y, z) => Before(x, z)
<1>1. \A x \in found : x.id \in Nat /\ x.rank \in Ranks
  BY DEF Rows, StoredRanks
<1>2. \A x \in found : ~Before(x, x)
  BY <1>1, LessIrreflexive DEF Before
<1>3. \A x, y \in found : x # y => Before(x, y) \/ Before(y, x)
  <2> SUFFICES ASSUME NEW x \in found, NEW y \in found, x # y
               PROVE  Before(x, y) \/ Before(y, x)
    OBVIOUS
  <2>1. x.id # y.id
    BY DEF Rows
  <2>2. CASE x.rank = y.rank
    BY <1>1, <2>1, <2>2 DEF Before
  <2>3. CASE x.rank # y.rank
    BY <1>1, <2>3, LessTotal DEF Before
  <2> QED
    BY <2>2, <2>3
<1>4. \A x, y, z \in found : Before(x, y) /\ Before(y, z) => Before(x, z)
  <2> SUFFICES ASSUME NEW x \in found, NEW y \in found, NEW z \in found,
                      Before(x, y), Before(y, z)
               PROVE  Before(x, z)
    OBVIOUS
  <2>1. CASE x.rank = y.rank /\ y.rank = z.rank
    BY <1>1, <2>1, LessIrreflexive DEF Before
  <2>2. CASE x.rank # y.rank /\ y.rank # z.rank
    <3>1. Less(x.rank, y.rank) /\ Less(y.rank, z.rank)
      BY <2>2 DEF Before
    <3> QED
      BY <1>1, <3>1, LessTransitive DEF Before
  <2>3. CASE x.rank = y.rank /\ y.rank # z.rank
    BY <2>3 DEF Before
  <2>4. CASE x.rank # y.rank /\ y.rank = z.rank
    BY <2>4 DEF Before
  <2> QED
    BY <2>1, <2>2, <2>3, <2>4
<1> QED
  BY <1>2, <1>3, <1>4

\* More rows stand before a later one.
LEMMA EarlierGrows ==
  ASSUME NEW found, Rows(found), NEW x \in found
  PROVE  /\ Cardinality(Earlier(found, x)) \in 0 .. (Cardinality(found) - 1)
         /\ Cardinality(found) \in Nat
         /\ \A y \in found : Before(x, y) =>
              Cardinality(Earlier(found, x)) < Cardinality(Earlier(found, y))
<1> DEFINE E(y) == Earlier(found, y)
<1>1. \A y : E(y) = {z \in found : Before(z, y)}
  BY DEF Earlier
<1>2. /\ \A y \in found : ~Before(y, y)
      /\ \A y, z, w \in found : Before(y, z) /\ Before(z, w) => Before(y, w)
  BY BeforeOrders
<1>0. IsFiniteSet(found)
  BY DEF Rows
<1> HIDE DEF E
<1>3. \A y : E(y) \in SUBSET found /\ IsFiniteSet(E(y))
  BY <1>0, <1>1, FS_Subset
<1>4. IsFiniteSet(found \ {x}) /\ Cardinality(found \ {x}) = Cardinality(found) - 1
  BY <1>0, FS_RemoveElement
<1>5. E(x) \in SUBSET (found \ {x})
  BY <1>1, <1>2
<1>6. Cardinality(E(x)) <= Cardinality(found) - 1 /\ Cardinality(E(x)) \in Nat
  BY <1>3, <1>4, <1>5, FS_Subset, FS_CardinalityType
<1>7. Cardinality(found) \in Nat
  BY <1>0, FS_CardinalityType
<1>8. ASSUME NEW y \in found, Before(x, y)
      PROVE  Cardinality(E(x)) < Cardinality(E(y))
  <2>1. E(x) \in SUBSET E(y) /\ x \in E(y) /\ x \notin E(x)
    BY <1>1, <1>2, <1>8
  <2>2. Cardinality(E(x)) <= Cardinality(E(y)) /\ Cardinality(E(x)) # Cardinality(E(y))
    BY <1>3, <2>1, FS_Subset
  <2>3. Cardinality(E(y)) \in Nat
    BY <1>3, FS_CardinalityType
  <2> QED
    BY <1>6, <2>2, <2>3
<1> QED
  BY <1>6, <1>7, <1>8 DEF E

\* Each row stands in the list after those that are before it.
LEMMA OrderedPlaces ==
  ASSUME NEW found, Rows(found), NEW list, list = Ordered(found)
  PROVE  /\ Len(list) = Cardinality(found) /\ Len(list) \in Nat
         /\ \A n \in 1 .. Len(list) : /\ list[n] \in found
                                      /\ Cardinality(Earlier(found, list[n])) = n - 1
         /\ \A x \in found : \E n \in 1 .. Len(list) : list[n] = x
         /\ \A m, n \in 1 .. Len(list) : m < n => Before(list[m], list[n])
<1> DEFINE N == Cardinality(found)
           Place(x) == Cardinality(Earlier(found, x))
           f == [x \in found |-> Place(x) + 1]
           p(n) == CHOOSE x \in found : Place(x) = n - 1
<1>1. N \in Nat /\ IsFiniteSet(found)
  BY FS_CardinalityType DEF Rows
<1>2. \A x \in found : Place(x) \in 0 .. (N - 1)
  BY EarlierGrows
<1>3. \A x, y \in found : Before(x, y) => Place(x) < Place(y)
  BY EarlierGrows
<1>4. \A x, y \in found : x # y => Before(x, y) \/ Before(y, x)
  BY BeforeOrders
<1>6. list = [n \in 1 .. N |-> p(n)]
  BY DEF Ordered
<1> HIDE DEF N, Place
<1>7. f \in [found -> 1 .. N]
  BY <1>1, <1>2
<1>8. \A x, y \in found : x # y => Place(x) # Place(y)
  BY <1>1, <1>2, <1>3, <1>4
<1>9. f \in Injection(found, 1 .. N)
  <2>1. \A x, y \in found : f[x] = f[y] => x = y
    BY <1>1, <1>2, <1>8
  <2> QED
    BY <1>7, <2>1 DEF Injection, IsInjective
<1>10. IsFiniteSet(1 .. N) /\ Cardinality(1 .. N) = N
  BY <1>1, FS_Interval
<1>11. f \in Surjection(found, 1 .. N)
  BY <1>1, <1>9, <1>10, FS_Injection DEF N
<1>12. \A n \in 1 .. N : p(n) \in found /\ Place(p(n)) = n - 1
  <2> SUFFICES ASSUME NEW n \in 1 .. N PROVE \E x \in found : Place(x) = n - 1
    OBVIOUS
  <2>1. PICK x \in found : f[x] = n
    BY <1>11 DEF Surjection
  <2> QED
    BY <1>1, <1>2, <2>1
<1>13. Len(list) = N /\ \A n \in 1 .. N : list[n] = p(n)
  BY <1>1, <1>6
<1> HIDE DEF f, p
<1>14. \A x \in found : \E n \in 1 .. N : list[n] = x
  <2> SUFFICES ASSUME NEW x \in found PROVE \E n \in 1 .. N : p(n) = x
    BY <1>13
  <2> DEFINE n == Place(x) + 1
  <2>1. n \in 1 .. N /\ n - 1 = Place(x)
    BY <1>1, <1>2
  <2> HIDE DEF n
  <2>2. p(n) \in found /\ Place(p(n)) = Place(x)
    BY <1>12, <2>1
  <2> QED
    BY <1>8, <2>1, <2>2
<1>15. ASSUME NEW m \in 1 .. N, NEW n \in 1 .. N, m < n
       PROVE  Before(list[m], list[n])
  <2>1. /\ list[m] \in found /\ list[n] \in found
        /\ Place(list[m]) = m - 1 /\ Place(list[n]) = n - 1
    BY <1>12, <1>13
  <2>2. list[m] # list[n] /\ ~Before(list[n], list[m])
    BY <1>1, <1>3, <1>15, <2>1
  <2> QED
    BY <1>4, <2>1, <2>2
<1> QED
  BY <1>1, <1>12, <1>13, <1>14, <1>15 DEF N, Place

\* The list holds each row once, in ascending order of the ranks.
Sorted(list, found) ==
  /\ Len(list) \in Nat
  /\ \A n \in 1 .. Len(list) : /\ list[n] \in found
                               /\ list[n].id \in Nat
                               /\ list[n].rank \in StoredRanks
                               /\ list[n].rank \in Ranks
  /\ \A x \in found : \E n \in 1 .. Len(list) : list[n] = x
  /\ \A m, n \in 1 .. Len(list) : m < n =>
       /\ list[m].id # list[n].id
       /\ Less(list[m].rank, list[n].rank) \/ list[m].rank = list[n].rank

LEMMA OrderedIsSorted ==
  ASSUME NEW found, Rows(found)
  PROVE  Sorted(Ordered(found), found)
<1> DEFINE list == Ordered(found)
<1>1. /\ Len(list) \in Nat
      /\ \A n \in 1 .. Len(list) : list[n] \in found
      /\ \A x \in found : \E n \in 1 .. Len(list) : list[n] = x
      /\ \A m, n \in 1 .. Len(list) : m < n => Before(list[m], list[n])
  BY OrderedPlaces
<1> HIDE DEF list
<1>2. \A n \in 1 .. Len(list) : /\ list[n].id \in Nat
                                /\ list[n].rank \in StoredRanks
                                /\ list[n].rank \in Ranks
  BY <1>1 DEF Rows, StoredRanks
<1>3. ASSUME NEW m \in 1 .. Len(list), NEW n \in 1 .. Len(list), m < n
      PROVE  /\ list[m].id # list[n].id
             /\ Less(list[m].rank, list[n].rank) \/ list[m].rank = list[n].rank
  <2>1. list[m] \in found /\ list[n] \in found /\ Before(list[m], list[n])
    BY <1>1, <1>3
  <2>2. list[m] # list[n]
    BY <2>1, BeforeOrders
  <2> QED
    BY <2>1, <2>2 DEF Rows, Before
<1> QED
  BY <1>1, <1>2, <1>3 DEF Sorted, list

\* A list of all rows that ascends is the one a query returns.
LEMMA OrderedIs ==
  ASSUME NEW found, Rows(found), NEW N \in Nat, NEW list \in [1 .. N -> found],
         \A x \in found : \E n \in 1 .. N : list[n] = x,
         \A m, n \in 1 .. N : m < n => Before(list[m], list[n])
  PROVE  Len(Ordered(found)) = N /\ \A n \in 1 .. N : Ordered(found)[n] = list[n]
<1> DEFINE Place(x) == Cardinality(Earlier(found, x))
           s == Ordered(found)
<1>1. /\ \A x \in found : ~Before(x, x)
      /\ \A x, y, z \in found : Before(x, y) /\ Before(y, z) => Before(x, z)
  BY BeforeOrders
<1>2. ASSUME NEW m \in 1 .. N, NEW n \in 1 .. N
      PROVE  Before(list[m], list[n]) <=> m < n
  <2>1. list[m] \in found /\ list[n] \in found /\ (m < n \/ m = n \/ n < m)
    OBVIOUS
  <2> QED
    BY <1>1, <2>1
<1>3. list \in Bijection(1 .. N, found)
  <2>1. \A m, n \in 1 .. N : list[m] = list[n] => m = n
    <3> SUFFICES ASSUME NEW m \in 1 .. N, NEW n \in 1 .. N, list[m] = list[n], m # n
                 PROVE  FALSE
      OBVIOUS
    <3>1. m < n \/ n < m
      OBVIOUS
    <3> QED
      BY <1>1, <3>1
  <2> QED
    BY <2>1 DEF Bijection, Injection, Surjection, IsInjective
<1>4. Cardinality(found) = N
  BY <1>3, FS_CountingElements DEF ExistsBijection
<1>5. ASSUME NEW n \in 1 .. N PROVE Place(list[n]) = n - 1
  <2> DEFINE before == [m \in 1 .. (n - 1) |-> list[m]]
             earlier == Earlier(found, list[n])
  <2>1. \A m \in 1 .. (n - 1) : m \in 1 .. N /\ m < n
    OBVIOUS
  <2>2. \A x \in earlier : \E m \in 1 .. (n - 1) : before[m] = x
    <3> SUFFICES ASSUME NEW x \in found, Before(x, list[n])
                 PROVE  \E m \in 1 .. (n - 1) : before[m] = x
      BY DEF Earlier
    <3>1. PICK m \in 1 .. N : list[m] = x
      OBVIOUS
    <3>2. m < n
      BY <1>2, <3>1
    <3> QED
      BY <3>1, <3>2
  <2>3. \A m \in 1 .. (n - 1) : before[m] \in earlier
    BY <1>2, <2>1 DEF Earlier
  <2>4. \A l, m \in 1 .. (n - 1) : before[l] = before[m] => l = m
    BY <1>3, <2>1 DEF Bijection, Injection, IsInjective
  <2>5. before \in [1 .. (n - 1) -> earlier]
    BY <2>3
  <2> HIDE DEF before, earlier
  <2>6. before \in Bijection(1 .. (n - 1), earlier)
    BY <2>2, <2>4, <2>5 DEF Bijection, Injection, Surjection, IsInjective
  <2>7. n - 1 \in Nat
    OBVIOUS
  <2>8. Cardinality(earlier) = n - 1
    BY <2>6, <2>7, FS_CountingElements DEF ExistsBijection
  <2> QED
    BY <2>8 DEF earlier
<1>6. /\ Len(s) = Cardinality(found)
      /\ \A n \in 1 .. Len(s) : s[n] \in found /\ Place(s[n]) = n - 1
  BY OrderedPlaces
<1> HIDE DEF s, Place
<1>7. ASSUME NEW n \in 1 .. N PROVE s[n] = list[n]
  <2>1. s[n] \in found /\ Place(s[n]) = n - 1
    BY <1>4, <1>6
  <2>2. PICK m \in 1 .. N : list[m] = s[n]
    BY <2>1
  <2>3. m - 1 = n - 1
    BY <1>5, <2>1, <2>2
  <2> QED
    BY <2>2, <2>3
<1> QED
  BY <1>4, <1>6, <1>7 DEF s

\* One row for each id.
LEMMA RankedRowsAre ==
  ASSUME NEW ids, ids \subseteq Nat, IsFiniteSet(ids),
         NEW rank, \A i \in ids : rank[i] \in StoredRanks
  PROVE  /\ Rows(RankedRows(ids, rank))
         /\ \A x \in RankedRows(ids, rank) : x.id \in ids /\ x.rank = rank[x.id]
         /\ \A i \in ids : \E x \in RankedRows(ids, rank) : x.id = i
<1> DEFINE found == RankedRows(ids, rank)
           g == [i \in ids |-> [id |-> i, rank |-> rank[i]]]
<1>1. g \in [ids -> found] /\ \A x \in found : \E i \in ids : g[i] = x
  BY DEF RankedRows
<1>2. g \in Surjection(ids, found)
  BY <1>1 DEF Surjection
<1>3. IsFiniteSet(found)
  BY <1>2, FS_Surjection
<1>4. found = {[id |-> i, rank |-> rank[i]] : i \in ids}
  BY DEF RankedRows
<1> HIDE DEF found
<1>5. \A x \in found : \E i \in ids : x = [id |-> i, rank |-> rank[i]]
  BY <1>4
<1>6. \A x \in found : /\ x.id \in ids /\ x.rank = rank[x.id]
                       /\ x = [id |-> x.id, rank |-> rank[x.id]]
                       /\ x \in [id : Nat, rank : StoredRanks]
  BY <1>5
<1>7. \A x, y \in found : x.id = y.id => x = y
  BY <1>6
<1>8. \A i \in ids : \E x \in found : x.id = i
  <2> SUFFICES ASSUME NEW i \in ids PROVE \E x \in found : x.id = i
    OBVIOUS
  <2>1. [id |-> i, rank |-> rank[i]] \in found
    BY <1>4
  <2> QED
    BY <2>1
<1>9. Rows(found)
  BY <1>3, <1>6, <1>7 DEF Rows
<1> QED
  BY <1>6, <1>8, <1>9 DEF found

\* The rows of these ids, each once, sorted.
SortedRows(list, ids, rank) ==
  /\ Sorted(list, RankedRows(ids, rank))
  /\ Len(list) \in Nat
  /\ \A n \in 1 .. Len(list) : list[n].id \in ids /\ list[n].rank = rank[list[n].id]
  /\ \A i \in ids : \E n \in 1 .. Len(list) : list[n].id = i

\* The list of some rows, in order.
LEMMA ListIs ==
  ASSUME NEW ids, ids \subseteq Nat, IsFiniteSet(ids),
         NEW rank, \A i \in ids : rank[i] \in StoredRanks,
         NEW list, list = Ordered(RankedRows(ids, rank))
  PROVE  SortedRows(list, ids, rank)
<1> DEFINE found == RankedRows(ids, rank)
<1>0. /\ Rows(found)
      /\ \A x \in found : x.id \in ids /\ x.rank = rank[x.id]
      /\ \A i \in ids : \E x \in found : x.id = i
  BY RankedRowsAre
<1> HIDE DEF found
<1>1. Sorted(list, found)
  BY <1>0, OrderedIsSorted DEF found
<1>2. /\ \A x \in found : x.id \in ids /\ x.rank = rank[x.id]
      /\ \A i \in ids : \E x \in found : x.id = i
  BY <1>0
<1>3. /\ Len(list) \in Nat
      /\ \A n \in 1 .. Len(list) : list[n] \in found
      /\ \A x \in found : \E n \in 1 .. Len(list) : list[n] = x
  BY <1>1 DEF Sorted
<1>4. \A i \in ids : \E n \in 1 .. Len(list) : list[n].id = i
  BY <1>2, <1>3
<1> QED
  BY <1>1, <1>2, <1>3, <1>4 DEF SortedRows, found

\* The ids of a sorted list, in order.
LEMMA SortedIds ==
  ASSUME NEW list, NEW found, Sorted(list, found), NEW T, \A x \in found : x.id \in T,
         NEW s, s = IdsOf(list)
  PROVE  /\ s \in Seq(T) /\ Len(s) = Len(list) /\ Len(s) \in Nat
         /\ \A n \in 1 .. Len(s) : s[n] = list[n].id
         /\ \A m, n \in 1 .. Len(s) : m # n => s[m] # s[n]
<1> DEFINE N == Len(list)
<1>1. N \in Nat /\ \A n \in 1 .. N : list[n].id \in T
  BY DEF Sorted
<1>2. \A m, n \in 1 .. N : m # n => list[m].id # list[n].id
  <2> SUFFICES ASSUME NEW m \in 1 .. N, NEW n \in 1 .. N, m # n
               PROVE  list[m].id # list[n].id
    OBVIOUS
  <2>1. m < n \/ n < m
    BY <1>1
  <2> QED
    BY <2>1 DEF Sorted
<1> HIDE DEF N
<1>3. s = [n \in 1 .. N |-> list[n].id]
  BY DEF N, IdsOf
<1>4. s \in Seq(T) /\ Len(s) = N /\ \A n \in 1 .. N : s[n] = list[n].id
  BY <1>1, <1>3
<1> QED
  BY <1>1, <1>2, <1>4 DEF N

-----------------------------------------------------------------------------
(* What a handler makes of them. *)

\* Ranks that ascend differ.
LEMMA AscendsApart ==
  ASSUME NEW s \in Seq(StoredRanks), Ascends(s),
         NEW m \in 1 .. Len(s), NEW n \in 1 .. Len(s), m # n
  PROVE  s[m] # s[n]
<1>1. s[m] \in Ranks /\ s[n] \in Ranks /\ m \in Nat /\ n \in Nat
  BY DEF StoredRanks
<1>2. Less(s[m], s[n]) \/ Less(s[n], s[m])
  BY <1>1 DEF Ascends
<1> QED
  BY <1>1, <1>2, LessIrreflexive

\* A stored rank strictly inside an interval of stored ranks, or of sentinels.
LEMMA BetweenStored ==
  ASSUME NEW lower \in StoredRanks \cup {First}, NEW upper \in StoredRanks \cup {Last},
         Less(lower, upper)
  PROVE  /\ Between(lower, upper) \in StoredRanks
         /\ lower \in Ranks /\ upper \in Ranks /\ Between(lower, upper) \in Ranks
         /\ Less(lower, Between(lower, upper)) /\ Less(Between(lower, upper), upper)
<1>1. First \in Ranks /\ Last \in Ranks /\ Canonical(Last)
  BY BaseAssumption DEF First, Last, Ranks, Digits, Canonical
<1>2. /\ lower \in Ranks /\ upper \in Ranks /\ Canonical(upper)
      /\ upper = Last \/ Less(upper, Last)
  BY <1>1 DEF StoredRanks
<1>3. /\ Between(lower, upper) \in Ranks /\ Between(lower, upper) # <<>>
      /\ Canonical(Between(lower, upper))
      /\ Less(lower, Between(lower, upper)) /\ Less(Between(lower, upper), upper)
  BY <1>2, BetweenIsBetween
<1>4. Less(Between(lower, upper), Last)
  BY <1>1, <1>2, <1>3, LessTransitive
<1> QED
  BY <1>2, <1>3, <1>4 DEF StoredRanks, First

\* A stored rank is above the lower sentinel and below the upper one.
LEMMA StoredInside ==
  ASSUME NEW s \in StoredRanks
  PROVE  s \in Ranks /\ Less(First, s) /\ Less(s, Last)
<1>1. s \in Ranks /\ s # <<>> /\ Less(s, Last) /\ Len(s) \in Nat
  BY RankDigits DEF StoredRanks, First
<1>2. 1 \in 1 .. Len(s)
  BY <1>1 DEF Ranks
<1> QED
  BY <1>1, <1>2 DEF Less, First

\* A list into which x has been spliced, before the entry i.
Splice(s, i, x) == SubSeq(s, 1, i - 1) \o <<x>> \o SubSeq(s, i, Len(s))

LEMMA InsertedAt ==
  ASSUME NEW S, NEW s \in Seq(S), NEW x \in S, NEW i \in 1 .. (Len(s) + 1),
         NEW w, w = Splice(s, i, x)
  PROVE  /\ w \in Seq(S) /\ Len(w) = Len(s) + 1 /\ Len(s) \in Nat
         /\ w[i] = x
         /\ \A n \in 1 .. (i - 1) : w[n] = s[n]
         /\ \A n \in i .. Len(s) : w[n + 1] = s[n]
<1> DEFINE p == SubSeq(s, 1, i - 1)
           q == SubSeq(s, i, Len(s))
<1>1. Len(s) \in Nat /\ i \in Nat /\ i - 1 \in Nat /\ i - 1 <= Len(s)
  OBVIOUS
<1>2. /\ p \in Seq(S) /\ Len(p) = i - 1
      /\ \A n \in 1 .. (i - 1) : p[n] = s[n]
  BY <1>1
<1>3. /\ q \in Seq(S) /\ Len(q) = Len(s) - i + 1
      /\ \A n \in 1 .. (Len(s) - i + 1) : q[n] = s[i + n - 1]
  BY <1>1
<1> HIDE DEF p, q
<1>4. /\ w \in Seq(S) /\ Len(w) = Len(p) + 1 + Len(q)
      /\ \A n \in 1 .. Len(p) : w[n] = p[n]
      /\ w[Len(p) + 1] = x
      /\ \A n \in 1 .. Len(q) : w[Len(p) + 1 + n] = q[n]
  <2>1. p \in Seq(S) /\ q \in Seq(S)
    BY <1>2, <1>3
  <2>2. w = p \o <<x>> \o q
    BY DEF Splice, p, q
  <2> QED
    BY <2>1, <2>2, ThreeParts
<1>5. Len(w) = Len(s) + 1 /\ w[i] = x /\ \A n \in 1 .. (i - 1) : w[n] = s[n]
  <2>1. Len(p) + 1 = i /\ Len(p) + 1 + Len(q) = Len(s) + 1
    BY <1>1, <1>2, <1>3
  <2> QED
    BY <1>2, <1>4, <2>1
<1>6. \A n \in i .. Len(s) : w[n + 1] = s[n]
  <2> SUFFICES ASSUME NEW n \in i .. Len(s) PROVE w[n + 1] = s[n]
    OBVIOUS
  <2> DEFINE k == n - i + 1
  <2>1. k \in 1 .. Len(q) /\ Len(p) + 1 + k = n + 1 /\ i + k - 1 = n
    BY <1>1, <1>2, <1>3
  <2> HIDE DEF k
  <2>2. w[n + 1] = q[k] /\ q[k] = s[n]
    BY <1>3, <1>4, <2>1
  <2> QED
    BY <2>2
<1> QED
  BY <1>1, <1>4, <1>5, <1>6

LEMMA TwoParts ==
  ASSUME NEW S, NEW p \in Seq(S), NEW q \in Seq(S), NEW w, w = p \o q
  PROVE  /\ w \in Seq(S) /\ Len(w) = Len(p) + Len(q)
         /\ \A n \in 1 .. Len(p) : w[n] = p[n]
         /\ \A n \in 1 .. Len(q) : w[Len(p) + n] = q[n]
OBVIOUS

\* A list from which the entry i has been cut.
Cut(s, i) == SubSeq(s, 1, i - 1) \o SubSeq(s, i + 1, Len(s))

\* The other entries move up.
MovedUp(w, s, i) ==
  /\ Len(w) = Len(s) - 1 /\ Len(s) \in Nat
  /\ \A n \in 1 .. (i - 1) : w[n] = s[n]
  /\ \A n \in i .. (Len(s) - 1) : w[n] = s[n + 1]

LEMMA RemovedAt ==
  ASSUME NEW S, NEW s \in Seq(S), NEW i \in 1 .. Len(s), NEW w, w = Cut(s, i)
  PROVE  w \in Seq(S) /\ MovedUp(w, s, i)
<1> DEFINE p == SubSeq(s, 1, i - 1)
           q == SubSeq(s, i + 1, Len(s))
<1>1. Len(s) \in Nat /\ i \in Nat /\ i - 1 \in Nat /\ i + 1 \in Nat /\ i <= Len(s)
  OBVIOUS
<1>2. /\ p \in Seq(S) /\ Len(p) = i - 1
      /\ \A n \in 1 .. (i - 1) : p[n] = s[n]
  BY <1>1
<1>3. /\ q \in Seq(S) /\ Len(q) = Len(s) - i
      /\ \A n \in 1 .. (Len(s) - i) : q[n] = s[i + n]
  BY <1>1
<1>4. w = p \o q
  BY DEF Cut
<1> HIDE DEF p, q
<1>5. /\ w \in Seq(S) /\ Len(w) = Len(p) + Len(q)
      /\ \A n \in 1 .. Len(p) : w[n] = p[n]
      /\ \A n \in 1 .. Len(q) : w[Len(p) + n] = q[n]
  <2>1. p \in Seq(S) /\ q \in Seq(S)
    BY <1>2, <1>3
  <2> QED
    BY <1>4, <2>1, TwoParts
<1>6. \A n \in i .. (Len(s) - 1) : w[n] = s[n + 1]
  <2> SUFFICES ASSUME NEW n \in i .. (Len(s) - 1) PROVE w[n] = s[n + 1]
    OBVIOUS
  <2> DEFINE k == n - i + 1
  <2>1. k \in 1 .. Len(q) /\ Len(p) + k = n /\ i + k = n + 1
    BY <1>1, <1>2, <1>3
  <2> HIDE DEF k
  <2>2. w[n] = q[k] /\ q[k] = s[n + 1]
    BY <1>3, <1>5, <2>1
  <2> QED
    BY <2>2
<1> QED
  BY <1>1, <1>2, <1>3, <1>5, <1>6 DEF MovedUp

\* Splicing a new entry into a list keeps the entries apart.
LEMMA Spliced ==
  ASSUME NEW S, NEW s \in Seq(S), \A m, n \in 1 .. Len(s) : m # n => s[m] # s[n],
         NEW x \in S, \A n \in 1 .. Len(s) : s[n] # x,
         NEW i \in 1 .. (Len(s) + 1),
         NEW w, w = Splice(s, i, x)
  PROVE  /\ w \in Seq(S) /\ Len(w) = Len(s) + 1 /\ Len(s) \in Nat
         /\ w[i] = x
         /\ \A n \in 1 .. (i - 1) : w[n] = s[n]
         /\ \A n \in i .. Len(s) : w[n + 1] = s[n]
         /\ \A m, n \in 1 .. Len(w) : m # n => w[m] # w[n]
<1>1. Len(s) \in Nat /\ i \in Nat
  OBVIOUS
<1>3. /\ w \in Seq(S) /\ Len(w) = Len(s) + 1 /\ w[i] = x
      /\ \A n \in 1 .. (i - 1) : w[n] = s[n]
      /\ \A n \in i .. Len(s) : w[n + 1] = s[n]
  BY InsertedAt
\* Where each entry of w comes from.
<1> DEFINE from(n) == IF n < i THEN n ELSE n - 1
<1>5. \A n \in 1 .. Len(w) : n = i \/ (from(n) \in 1 .. Len(s) /\ w[n] = s[from(n)])
  <2> SUFFICES ASSUME NEW n \in 1 .. Len(w), n # i
               PROVE  from(n) \in 1 .. Len(s) /\ w[n] = s[from(n)]
    OBVIOUS
  <2>1. CASE n < i
    <3>1. n \in 1 .. (i - 1) /\ n \in 1 .. Len(s) /\ from(n) = n
      BY <1>1, <1>3, <2>1
    <3> QED
      BY <1>3, <3>1
  <2>2. CASE n > i
    <3>1. n - 1 \in i .. Len(s) /\ n - 1 \in 1 .. Len(s) /\ n - 1 + 1 = n /\ from(n) = n - 1
      BY <1>1, <1>3, <2>2
    <3> QED
      BY <1>3, <3>1
  <2>3. n \in Nat
    BY <1>3
  <2> QED
    BY <1>1, <2>1, <2>2, <2>3
<1>6. \A m, n \in 1 .. Len(w) : m # n => w[m] # w[n]
  <2> SUFFICES ASSUME NEW m \in 1 .. Len(w), NEW n \in 1 .. Len(w), m # n
               PROVE  w[m] # w[n]
    OBVIOUS
  <2>1. CASE m = i \/ n = i
    <3>1. \A l \in 1 .. Len(w) : l # i => w[l] # x
      BY <1>5
    <3> HIDE DEF from
    <3> QED
      BY <1>3, <2>1, <3>1
  <2>2. CASE m # i /\ n # i
    <3>1. from(m) # from(n)
      BY <1>1, <1>3, <2>2
    <3> HIDE DEF from
    <3>2. /\ from(m) \in 1 .. Len(s) /\ w[m] = s[from(m)]
          /\ from(n) \in 1 .. Len(s) /\ w[n] = s[from(n)]
      BY <1>5, <2>2
    <3> QED
      BY <3>1, <3>2
  <2> QED
    BY <2>1, <2>2
<1> QED
  BY <1>1, <1>3, <1>6

-----------------------------------------------------------------------------
(* resolveNeighborBounds. *)

\* Where a neighbour stands in a list whose ids differ.
LEMMA IndexOfIs ==
  ASSUME NEW list, NEW found, Sorted(list, found), NEW x
  PROVE  /\ IndexOf(list, x) \in 0 .. Len(list)
         /\ IndexOf(list, x) > 0 => list[IndexOf(list, x)].id = x
         /\ \A n \in 1 .. Len(list) : list[n].id = x => IndexOf(list, x) = n
<1>1. CASE \E i \in 1 .. Len(list) : list[i].id = x
  <2> DEFINE k == CHOOSE i \in 1 .. Len(list) : list[i].id = x
  <2>1. k \in 1 .. Len(list) /\ list[k].id = x /\ IndexOf(list, x) = k
    BY <1>1 DEF IndexOf
  <2> HIDE DEF k
  <2>2. \A n \in 1 .. Len(list) : list[n].id = x => n = k
    <3> SUFFICES ASSUME NEW n \in 1 .. Len(list), list[n].id = x, n # k PROVE FALSE
      OBVIOUS
    <3>1. n < k \/ k < n
      BY <2>1 DEF Sorted
    <3> QED
      BY <2>1, <3>1 DEF Sorted
  <2> QED
    BY <2>1, <2>2
<1>2. CASE ~\E i \in 1 .. Len(list) : list[i].id = x
  BY <1>2 DEF IndexOf, Sorted
<1> QED
  BY <1>1, <1>2

\* Two bounds with no row of the list between them.
IsGap(list, bounds) ==
  \E k \in 0 .. Len(list) : /\ bounds.lower = RankAt(list, k, First)
                            /\ bounds.upper = RankAt(list, k + 1, Last)

\* The bounds that neighbour ids name, or the sentinels.
AtNeighbours(list, before, after, bounds) ==
  /\ bounds.lower = RankAt(list, IndexOf(list, before), First)
  /\ bounds.upper = RankAt(list, IndexOf(list, after), Last)

\* A neighbour in the list is a bound, and stands on its side of the index.
BesideNeighbours(list, before, after, bounds) ==
  /\ \A n \in 1 .. Len(list) :
       list[n].id = before => bounds.lower = list[n].rank /\ n <= bounds.index
  /\ Less(bounds.lower, bounds.upper) =>
       \A n \in 1 .. Len(list) :
         list[n].id = after => bounds.upper = list[n].rank /\ bounds.index < n

\* The bounds are stored ranks or sentinels.  A neighbour that is in the list bounds the
\* new rank, and the re-spaced list, on its side; a position is a gap of the list.
LEMMA BoundsAre ==
  ASSUME NEW list, NEW found, Sorted(list, found),
         \A n \in 1 .. Len(list) : list[n].id # None,
         NEW before, NEW after, NEW position \in Nat \cup {None},
         NEW bounds, bounds = ResolveNeighborBounds(list, before, after, position)
  PROVE  /\ bounds.lower \in StoredRanks \cup {First}
         /\ bounds.upper \in StoredRanks \cup {Last}
         /\ bounds.index \in 0 .. Len(list)
         /\ BesideNeighbours(list, before, after, bounds)
         /\ before # None \/ after # None => AtNeighbours(list, before, after, bounds)
         /\ before = None /\ after = None => IsGap(list, bounds)
<1> DEFINE b == IndexOf(list, before)
           a == IndexOf(list, after)
<1>1. /\ b \in 0 .. Len(list) /\ a \in 0 .. Len(list)
      /\ \A n \in 1 .. Len(list) : (list[n].id = before => b = n) /\ (list[n].id = after => a = n)
  BY IndexOfIs
<1>2. /\ Len(list) \in Nat
      /\ \A n \in 1 .. Len(list) : list[n].rank \in StoredRanks /\ list[n].rank \in Ranks
      /\ \A m, n \in 1 .. Len(list) : m < n =>
           Less(list[m].rank, list[n].rank) \/ list[m].rank = list[n].rank
  BY DEF Sorted
<1>3. \A i \in Int : /\ RankAt(list, i, First) \in StoredRanks \cup {First}
                     /\ RankAt(list, i, Last) \in StoredRanks \cup {Last}
  BY <1>2 DEF RankAt
<1>6. CASE before # None \/ after # None
  <2>1. /\ bounds.lower = RankAt(list, b, First)
        /\ bounds.upper = RankAt(list, a, Last)
        /\ bounds.index = (IF b > 0 THEN b ELSE IF a > 0 THEN a - 1 ELSE Len(list))
    BY <1>6 DEF ResolveNeighborBounds, Bounds
  <2> HIDE DEF a, b
  <2>2. bounds.index \in 0 .. Len(list)
    BY <1>1, <1>2, <2>1
  <2>3. \A n \in 1 .. Len(list) :
          list[n].id = before => bounds.lower = list[n].rank /\ n <= bounds.index
    BY <1>1, <1>2, <2>1 DEF RankAt
  <2>4. ASSUME Less(bounds.lower, bounds.upper), NEW n \in 1 .. Len(list), list[n].id = after
        PROVE  bounds.upper = list[n].rank /\ bounds.index < n
    <3>1. a = n /\ a > 0 /\ bounds.upper = list[n].rank
      BY <1>1, <1>2, <2>1, <2>4 DEF RankAt
    <3>2. CASE b > 0
      <4>1. b \in 1 .. Len(list) /\ bounds.lower = list[b].rank /\ bounds.index = b
        BY <1>1, <1>2, <2>1, <3>2 DEF RankAt
      <4>2. Less(list[b].rank, list[n].rank) /\ list[b].rank \in Ranks /\ list[n].rank \in Ranks
        BY <1>2, <2>4, <3>1, <4>1
      <4>3. ~(n < b) /\ n # b
        BY <1>2, <4>1, <4>2, LessIrreflexive, LessTransitive
      <4> QED
        BY <1>2, <3>1, <4>1, <4>3
    <3>3. CASE ~(b > 0)
      BY <1>1, <1>2, <2>1, <3>1, <3>3
    <3> QED
      BY <3>2, <3>3
  <2> QED
    BY <1>1, <1>3, <1>6, <2>1, <2>2, <2>3, <2>4 DEF BesideNeighbours, AtNeighbours, a, b
<1>7. CASE before = None /\ after = None
  <2> DEFINE at == IF position = None \/ position > Len(list) THEN Len(list) ELSE position
  <2>1. /\ bounds.lower = RankAt(list, at, First)
        /\ bounds.upper = RankAt(list, at + 1, Last)
        /\ bounds.index = at
    BY <1>7 DEF ResolveNeighborBounds, Bounds
  <2>2. at \in 0 .. Len(list) /\ at \in Int /\ at + 1 \in Int
    BY <1>2
  <2> HIDE DEF at
  <2>3. \A n \in 1 .. Len(list) : list[n].id # before /\ list[n].id # after
    BY <1>7
  <2> QED
    BY <1>3, <1>7, <2>1, <2>2, <2>3 DEF BesideNeighbours, IsGap
<1> QED
  BY <1>6, <1>7

\* A rank inside a gap of the list is nobody's yet.
LEMMA GapIsFree ==
  ASSUME NEW list, NEW found, Sorted(list, found),
         NEW gap, IsGap(list, gap), NEW rank \in Ranks,
         Less(gap.lower, rank), Less(rank, gap.upper)
  PROVE  \A x \in found : x.rank # rank
<1>0. PICK k \in 0 .. Len(list) : /\ gap.lower = RankAt(list, k, First)
                                  /\ gap.upper = RankAt(list, k + 1, Last)
  BY DEF IsGap
<1>1. /\ Len(list) \in Nat
      /\ \A n \in 1 .. Len(list) : list[n].rank \in Ranks
      /\ \A x \in found : \E n \in 1 .. Len(list) : list[n] = x
      /\ \A m, n \in 1 .. Len(list) : m < n =>
           Less(list[m].rank, list[n].rank) \/ list[m].rank = list[n].rank
  BY DEF Sorted
<1>3. ASSUME NEW n \in 1 .. Len(list) PROVE list[n].rank # rank
  <2>1. CASE n <= k
    <3>1. k \in 1 .. Len(list) /\ (n < k \/ n = k)
      BY <1>1, <2>1
    <3>2. Less(list[k].rank, rank)
      BY <1>0, <3>1 DEF RankAt
    <3>3. Less(list[n].rank, rank)
      BY <1>1, <3>1, <3>2, LessTransitive
    <3> QED
      BY <3>3, LessIrreflexive
  <2>2. CASE n > k
    <3>1. k + 1 \in 1 .. Len(list) /\ (k + 1 < n \/ n = k + 1)
      BY <1>1, <2>2
    <3>2. Less(rank, list[k + 1].rank)
      BY <1>0, <3>1 DEF RankAt
    <3>3. Less(rank, list[n].rank)
      BY <1>1, <3>1, <3>2, LessTransitive
    <3> QED
      BY <3>3, LessIrreflexive
  <2> QED
    BY <1>1, <2>1, <2>2
<1> QED
  BY <1>1, <1>3

-----------------------------------------------------------------------------
(* Re-spacing. *)

\* A list that is re-spaced: each row once, in ascending order.
LEMMA SpacedIs ==
  ASSUME NEW T, NEW ids \in Seq(T)
  PROVE  /\ Spaced(ids) \in Seq([id : T, rank : StoredRanks])
         /\ Len(Spaced(ids)) = Len(ids) /\ Len(ids) \in Nat
         /\ \A n \in 1 .. Len(ids) : Spaced(ids)[n].id = ids[n]
         /\ \A m, n \in 1 .. Len(ids) : m < n => Less(Spaced(ids)[m].rank, Spaced(ids)[n].rank)
         /\ \A m, n \in 1 .. Len(ids) : m # n => Spaced(ids)[m].rank # Spaced(ids)[n].rank
<1> DEFINE N == Len(ids)
           ranks == Rebalance(N)
           writes == Spaced(ids)
<1>1. N \in Nat /\ \A n \in 1 .. N : ids[n] \in T
  OBVIOUS
<1>2. ranks \in Seq(StoredRanks) /\ Len(ranks) = N /\ Ascends(ranks)
  BY <1>1, RebalanceAscends
<1> HIDE DEF ranks
<1>3. writes = [n \in 1 .. N |-> [id |-> ids[n], rank |-> ranks[n]]]
  BY DEF Spaced, ranks
<1> HIDE DEF writes
<1>4. \A n \in 1 .. N : /\ writes[n].id = ids[n] /\ writes[n].rank = ranks[n]
                        /\ writes[n] \in [id : T, rank : StoredRanks]
  BY <1>1, <1>2, <1>3
<1>5. writes \in Seq([id : T, rank : StoredRanks]) /\ Len(writes) = N
  <2> DEFINE U == [id : T, rank : StoredRanks]
  <2>1. writes \in [1 .. N -> U]
    BY <1>3, <1>4
  <2> HIDE DEF N, U
  <2>2. writes \in Seq(U) /\ Len(writes) = N
    BY <1>1, <2>1
  <2> QED
    BY <2>2 DEF U
<1>6. \A m, n \in 1 .. N : m # n => ranks[m] # ranks[n]
  BY <1>2, AscendsApart
<1>7. \A m, n \in 1 .. N : m < n => Less(ranks[m], ranks[n])
  BY <1>2 DEF Ascends
<1> QED
  BY <1>1, <1>4, <1>5, <1>6, <1>7 DEF writes

=============================================================================
