------------------------- MODULE RankBetween_proofs -------------------------
(* Proofs about the loop of between(), for every alphabet and all arguments. *)
EXTENDS RankBetween, Rank_proofs

-----------------------------------------------------------------------------
IInv == TypeOK /\ Walk /\ StrictlyBetween

\* The walk starts with an empty prefix.
LEMMA InitIInv == Init => IInv
  BY DEF Init, IInv, TypeOK, Walk, StrictlyBetween, Ranks

\* What the conditions of the loop's body compare.
LEMMA DigitsAtNext ==
  ASSUME IInv, pc = "looping"
  PROVE  /\ a \in Ranks /\ b \in Ranks /\ Canonical(b)
         /\ next \in Nat \ {0} /\ next = Len(prefix) + 1
         /\ digitA \in Digits /\ digitB \in 0 .. Base /\ digitA <= digitB
         /\ upper = b => next <= Len(b) /\ digitB = b[next]
         /\ upper = <<>> => digitB = Base
<1>1. a \in Ranks /\ b \in Ranks /\ Canonical(b) /\ prefix \in Ranks /\ Less(a, b)
  BY ArgumentsAssumption DEF IInv, TypeOK, Walk
<1>2. /\ next \in Nat \ {0} /\ next = Len(prefix) + 1
      /\ digitA \in Digits
  BY <1>1, DigitRange DEF digitA, next, Digits, Ranks
<1>3. CASE upper = <<>> /\ b # <<>>
  BY <1>1, <1>2, <1>3, BaseAssumption DEF digitB, Digit, Digits
<1>4. b # <<>>
  BY <1>1 DEF Less
<1>5. CASE upper = b
  <2>1. \A k \in 1 .. Len(prefix) : k <= Len(b) /\ b[k] = Digit(a, k, 0)
    BY <1>4, <1>5 DEF IInv, Walk
  <2>2. Len(prefix) \in Nat
    BY <1>1 DEF Ranks
  <2>3. next <= Len(b) /\ digitA <= b[next]
    BY <1>1, <1>2, <2>1, <2>2, StillInside DEF digitA
  <2>4. digitB = b[next]
    BY <1>5, <2>3 DEF digitB, Digit
  <2>5. b[next] \in 0 .. (Base - 1)
    BY <1>1, <1>2, <2>3, RankDigits
  <2> QED
    BY <1>1, <1>2, <1>4, <1>5, <2>3, <2>4, <2>5, BaseAssumption
<1> QED
  BY <1>3, <1>4, <1>5 DEF IInv, TypeOK

\* A rank that continues the prefix with a digit below digitB is below b, and so
\* is everything that continues it.
LEMMA BelowUpper ==
  ASSUME IInv, pc = "looping", NEW r \in Ranks, Len(r) = next, r[next] < digitB,
         \A k \in 1 .. Len(prefix) : r[k] = prefix[k]
  PROVE  \E k \in 1 .. next : /\ \A j \in 1 .. (k - 1) : j <= Len(b) /\ r[j] = b[j]
                              /\ k <= Len(b)
                              /\ r[k] < b[k]
<1>1. CASE upper = b
  <2>1. b # <<>>
    BY DEF IInv, Walk, Less
  <2>2. \A k \in 1 .. Len(prefix) : k <= Len(b) /\ r[k] = b[k]
    BY <1>1, <2>1 DEF IInv, Walk
  <2> QED
    BY <1>1, <2>2, DigitsAtNext
<1>2. CASE upper = <<>> /\ b # <<>>
  <2>1. PICK k \in 1 .. Len(prefix) :
               /\ \A j \in 1 .. (k - 1) : j <= Len(b) /\ prefix[j] = b[j]
               /\ k <= Len(b)
               /\ prefix[k] < b[k]
    BY <1>2 DEF IInv, Walk
  <2>2. k \in 1 .. next /\ \A j \in 1 .. k : r[j] = prefix[j]
    BY <2>1, DigitsAtNext
  <2> QED
    BY <2>1, <2>2
<1>3. b # <<>>
  BY DEF IInv, Walk, Less
<1> QED
  BY <1>1, <1>2, <1>3 DEF IInv, TypeOK

\* Every step of the loop keeps the invariant.
LEMMA NextIInv == IInv /\ [Next]_vars => IInv'
<1> SUFFICES ASSUME IInv, [Next]_vars PROVE IInv'
  OBVIOUS
<1>0. a \in Arguments /\ b \in Arguments /\ a \in Ranks /\ b \in Ranks /\ prefix \in Ranks
  BY ArgumentsAssumption DEF IInv, TypeOK
<1>1. CASE Check
  <2>1. /\ UNCHANGED <<a, b, prefix, upper, result>> /\ Len(<<>>) = 0
        /\ prefix = <<>> /\ upper = b
        /\ pc' = "looping" => Less(a, b)
        /\ pc' \in {"looping", "threw"}
    BY <1>1 DEF IInv, Check, Walk
  <2>2. TypeOK'
    BY <2>1 DEF IInv, TypeOK
  <2>3. Walk'
    BY <2>1 DEF Walk
  <2> QED
    BY <2>1, <2>2, <2>3 DEF IInv, StrictlyBetween
<1>2. CASE CommonDigit
  <2>1. upper = b /\ digitA = b[next] /\ next <= Len(b) /\ b # <<>>
    BY <1>2, DigitsAtNext, BaseAssumption DEF CommonDigit, IInv, TypeOK, Digits
  <2>2. /\ prefix' \in Ranks /\ Len(prefix') = next /\ prefix'[next] = digitA
        /\ \A k \in 1 .. Len(prefix) : prefix'[k] = prefix[k]
    BY <1>0, <1>2, DigitsAtNext, AppendRank DEF CommonDigit, next
  <2>3. TypeOK'
    BY <1>2, <2>2 DEF CommonDigit, IInv, TypeOK
  <2>4. Walk'
    BY <1>2, <2>1, <2>2, DigitsAtNext DEF CommonDigit, IInv, Walk, digitA
  <2> QED
    BY <1>2, <2>3, <2>4 DEF CommonDigit, IInv, StrictlyBetween
<1>3. CASE MidDigit
  <2> DEFINE mid == (digitA + digitB) \div 2
  <2>1. mid \in Digits /\ digitA < mid /\ mid < digitB /\ mid # 0
    BY <1>3, DigitsAtNext, BaseAssumption DEF MidDigit, Digits
  <2> HIDE DEF mid
  <2>2. /\ result' \in Ranks /\ Len(result') = next /\ result'[next] = mid
        /\ \A k \in 1 .. Len(prefix) : result'[k] = prefix[k]
    BY <1>0, <1>3, <2>1, AppendRank DEF MidDigit, next, mid
  <2>3. TypeOK'
    BY <1>3, <2>2 DEF MidDigit, IInv, TypeOK
  <2>4. Less(a, result')
    <3>1. \A k \in 1 .. (next - 1) : result'[k] = Digit(a, k, 0)
      BY <1>3, <2>2, DigitsAtNext DEF MidDigit, IInv, Walk
    <3>2. next \in 1 .. Len(result') /\ result'[next] > Digit(a, next, 0)
      BY <1>3, <2>1, <2>2, DigitsAtNext DEF MidDigit, digitA, Digits
    <3> QED
      BY <1>0, <2>2, <3>1, <3>2, AboveLower
  <2>5. Less(result', b)
    <3>1. PICK k \in 1 .. next : /\ \A j \in 1 .. (k - 1) : j <= Len(b) /\ result'[j] = b[j]
                                 /\ k <= Len(b)
                                 /\ result'[k] < b[k]
      BY <1>3, <2>1, <2>2, BelowUpper DEF MidDigit
    <3>2. k \in 1 .. Len(b) /\ \A j \in 1 .. (k - 1) : j <= Len(result')
      BY <1>0, <1>3, <2>2, <3>1, DigitsAtNext, RankDigits DEF MidDigit
    <3>3. \A j \in 1 .. (k - 1) : j <= Len(result') /\ result'[j] = b[j]
      BY <3>1, <3>2
    <3> QED
      BY <3>1, <3>2, <3>3 DEF Less
  <2>6. Canonical(result')
    BY <2>1, <2>2 DEF Canonical
  <2> QED
    BY <1>3, <2>3, <2>4, <2>5, <2>6 DEF MidDigit, IInv, Walk, StrictlyBetween
<1>4. CASE AdjacentDigit
  <2>1. digitA < digitB
    BY <1>4, DigitsAtNext DEF AdjacentDigit, Digits
  <2>2. /\ prefix' \in Ranks /\ Len(prefix') = next /\ prefix'[next] = digitA
        /\ \A k \in 1 .. Len(prefix) : prefix'[k] = prefix[k]
    BY <1>0, <1>4, DigitsAtNext, AppendRank DEF AdjacentDigit, next
  <2>3. TypeOK'
    BY <1>4, <2>2 DEF AdjacentDigit, IInv, TypeOK
  <2>4. \E k \in 1 .. Len(prefix') : /\ \A j \in 1 .. (k - 1) : j <= Len(b) /\ prefix'[j] = b[j]
                                     /\ k <= Len(b)
                                     /\ prefix'[k] < b[k]
    BY <1>4, <2>1, <2>2, BelowUpper DEF AdjacentDigit
  <2>5. Walk'
    <3>1. \A k \in 1 .. Len(prefix') : prefix'[k] = Digit(a, k, 0)
      BY <1>4, <2>2, DigitsAtNext DEF AdjacentDigit, IInv, Walk, digitA
    <3> QED
      BY <1>4, <2>4, <3>1 DEF AdjacentDigit, IInv, Walk
  <2> QED
    BY <1>4, <2>3, <2>5 DEF AdjacentDigit, IInv, StrictlyBetween
<1>5. CASE UNCHANGED vars
  BY <1>5 DEF vars, IInv, TypeOK, Walk, StrictlyBetween
<1> QED
  BY <1>1, <1>2, <1>3, <1>4, <1>5 DEF Next

\* Type correctness of the loop.
THEOREM TypeCorrect == Spec => []TypeOK
<1>1. IInv => TypeOK
  BY DEF IInv
<1> QED
  BY <1>1, InitIInv, NextIInv, PTL DEF Spec

\* For every alphabet and all arguments without a trailing 0, what between()
\* returns is strictly between them and has no trailing 0 either.
THEOREM ResultStrictlyBetween == Spec => []StrictlyBetween
<1>1. IInv => StrictlyBetween
  BY DEF IInv
<1> QED
  BY <1>1, InitIInv, NextIInv, PTL DEF Spec
-----------------------------------------------------------------------------
(* The length of the result, and that it is the closed form of Rank. *)

\* Up to d, a and b have the same digits.
Agree(d) == \A k \in 1 .. (d - 1) : Digit(a, k, 0) = Digit(b, k, Base)

\* a and b differ first at d, by one digit.
Parted(d) ==
  /\ d <= Len(b) /\ Agree(d)
  /\ Digit(a, d, 0) # Digit(b, d, Base)
  /\ Digit(b, d, Base) - Digit(a, d, 0) <= 1

\* How the walk came where it is: along both arguments, or past their first difference
\* along the highest digits of a.
Path ==
  /\ pc # "returned" => result = <<>>
  /\ pc = "looping" =>
       \/ upper = b /\ Agree(Len(prefix) + 1)
       \/ /\ upper = <<>>
          /\ \E d \in 1 .. Len(prefix) :
               Parted(d) /\ \A k \in (d + 1) .. Len(prefix) : Digit(a, k, 0) = Base - 1

PathInv == IInv /\ Path /\ GrowsByOneDigit /\ ComputesBetween

\* A prefix of a's digits, and one more digit.
LEMMA Appended ==
  ASSUME NEW s \in Ranks, NEW p \in Ranks, NEW x \in Digits, NEW n \in Nat, n = Len(p) + 1,
         \A k \in 1 .. Len(p) : p[k] = Digit(s, k, 0)
  PROVE  Append(p, x) = [k \in 1 .. n |-> IF k < n THEN Digit(s, k, 0) ELSE x]
<1>1. /\ Len(p) \in Nat /\ Append(p, x) \in Ranks /\ Len(Append(p, x)) = n
      /\ Append(p, x)[n] = x
      /\ \A k \in 1 .. Len(p) : Append(p, x)[k] = p[k]
  BY AppendRank, RankDigits
<1>2. Append(p, x) = [k \in 1 .. n |-> Append(p, x)[k]]
  <2>1. Append(p, x) \in [1 .. n -> Digits]
    BY <1>1, LenProperties DEF Ranks
  <2> QED
    BY <2>1
<1>3. \A k \in 1 .. n : Append(p, x)[k] = IF k < n THEN Digit(s, k, 0) ELSE x
  BY <1>1
<1> QED
  BY <1>2, <1>3

\* The walk has not come further than its arguments reach.
LEMMA WithinArguments ==
  ASSUME IInv, Path, pc = "looping"
  PROVE  /\ Len(prefix) \in Nat /\ Len(a) \in Nat /\ Len(b) \in Nat
         /\ Len(prefix) <= Len(a) \/ Len(prefix) <= Len(b)
         /\ upper = b => next <= Len(b)
         /\ digitA # digitB /\ digitB - digitA <= 1 => next <= Len(a) \/ next <= Len(b)
<1>1. Len(prefix) \in Nat /\ Len(a) \in Nat /\ Len(b) \in Nat
  BY DigitsAtNext, RankDigits DEF IInv, TypeOK
<1>2. CASE upper = b
  BY <1>1, <1>2, DigitsAtNext
<1>3. CASE upper = <<>> /\ b # <<>>
  <2>1. PICK d \in 1 .. Len(prefix) :
          Parted(d) /\ \A k \in (d + 1) .. Len(prefix) : Digit(a, k, 0) = Base - 1
    BY <1>3 DEF Path
  <2>2. d <= Len(b)
    BY <2>1 DEF Parted
  <2>3. Len(prefix) <= Len(a) \/ Len(prefix) <= Len(b)
    <3>1. CASE d = Len(prefix)
      BY <2>2, <3>1
    <3>2. CASE d # Len(prefix)
      <4>1. Digit(a, Len(prefix), 0) = Base - 1
        BY <1>1, <2>1, <3>2
      <4> QED
        BY <1>1, <4>1, BaseAssumption DEF Digit
    <3> QED
      BY <3>1, <3>2
  <2>4. ASSUME digitB - digitA <= 1 PROVE next <= Len(a)
    <3>1. digitA # 0
      BY <1>3, <2>4, DigitsAtNext, BaseAssumption DEF Digits
    <3> QED
      BY <1>1, <3>1, DigitsAtNext DEF digitA, Digit
  <2> QED
    BY <1>1, <1>3, <2>3, <2>4
<1>4. b # <<>>
  BY DEF IInv, Walk, Less
<1> QED
  BY <1>2, <1>3, <1>4 DEF IInv, TypeOK

LEMMA InitPathInv == Init => PathInv
<1> SUFFICES ASSUME Init PROVE Path /\ GrowsByOneDigit /\ ComputesBetween
  BY InitIInv DEF PathInv
<1>1. Len(<<>>) = 0 /\ Len(a) \in Nat
  BY ArgumentsAssumption, RankDigits DEF Init
<1> QED
  BY <1>1 DEF Init, Path, GrowsByOneDigit, ComputesBetween

LEMMA NextPathInv == PathInv /\ [Next]_vars => PathInv'
<1> SUFFICES ASSUME PathInv, [Next]_vars PROVE PathInv'
  OBVIOUS
<1> USE DEF PathInv
<1>0. IInv' /\ a \in Ranks /\ b \in Ranks /\ prefix \in Ranks /\ a' = a /\ b' = b
  BY NextIInv, ArgumentsAssumption
  DEF IInv, TypeOK, Next, Check, CommonDigit, MidDigit, AdjacentDigit, vars
<1>1. CASE Check
  <2>1. /\ UNCHANGED <<a, b, prefix, upper, result>>
        /\ prefix = <<>> /\ upper = b /\ result = <<>> /\ Len(<<>>) = 0
        /\ pc' \in {"looping", "threw"}
    BY <1>1 DEF Check, IInv, Walk, Path
  <2>2. Path'
    BY <2>1 DEF Path, Agree
  <2> QED
    BY <1>0, <2>1, <2>2 DEF GrowsByOneDigit, ComputesBetween
<1>2. CASE CommonDigit
  <2>1. /\ upper = b /\ digitA = digitB /\ next <= Len(b) /\ next = Len(prefix) + 1
        /\ pc = "looping"
    BY <1>2, DigitsAtNext, BaseAssumption DEF CommonDigit, IInv, TypeOK, Digits
  <2>2. /\ Len(prefix') = next /\ UNCHANGED <<upper, result, pc>>
        /\ Len(prefix) \in Nat /\ next \in Nat
    BY <1>0, <1>2, DigitsAtNext, AppendRank, RankDigits DEF CommonDigit
  <2>3. Agree(next + 1)
    <3>1. Agree(next)
      <4>1. CASE upper = b /\ Agree(Len(prefix) + 1)
        BY <2>1, <4>1
      <4>2. CASE upper = <<>>
        BY <2>1, <4>2, DigitsAtNext DEF IInv, Walk, Less
      <4> QED
        BY <2>1, <4>1, <4>2 DEF Path
    <3>2. Digit(a, next, 0) = Digit(b, next, Base)
      BY <2>1 DEF digitA, digitB
    <3> QED
      BY <2>2, <3>1, <3>2 DEF Agree
  <2>4. Path'
    BY <1>0, <2>1, <2>2, <2>3 DEF Path, Agree
  <2>5. result = <<>> /\ Len(<<>>) = 0
    BY <2>1 DEF Path
  <2>6. GrowsByOneDigit'
    BY <1>0, <2>1, <2>2, <2>5, RankDigits DEF GrowsByOneDigit
  <2> QED
    BY <1>0, <2>1, <2>2, <2>4, <2>6 DEF ComputesBetween
<1>3. CASE MidDigit
  <2> DEFINE mid == (digitA + digitB) \div 2
  <2>1. /\ pc = "looping" /\ digitB - digitA > 1 /\ pc' = "returned"
        /\ result' = Append(prefix, mid)
        /\ UNCHANGED <<prefix, upper>>
    BY <1>3 DEF MidDigit
  <2>2. mid \in Digits
    BY <2>1, DigitsAtNext, BaseAssumption DEF Digits
  <2>3. /\ next = Len(prefix) + 1 /\ next \in Nat /\ Len(prefix) \in Nat
        /\ Len(a) \in Nat /\ Len(b) \in Nat
    BY <2>1, WithinArguments, DigitsAtNext
  <2>4. \A k \in 1 .. Len(prefix) : prefix[k] = Digit(a, k, 0)
    BY <2>1 DEF IInv, Walk
  <2> HIDE DEF mid
  <2>5. result' = [k \in 1 .. next |-> IF k < next THEN Digit(a, k, 0) ELSE mid]
    BY <1>0, <2>1, <2>2, <2>3, <2>4, Appended
  <2>6. GrowsByOneDigit'
    <3>1. Len(result') = next
      BY <1>0, <2>1, <2>2, <2>3, AppendRank
    <3>2. Len(prefix) <= Len(a) \/ Len(prefix) <= Len(b)
      BY <2>1, WithinArguments
    <3> QED
      BY <1>0, <2>1, <2>3, <3>1, <3>2 DEF GrowsByOneDigit
  <2>7. result' = Between(a, b)
    <3>1. CASE upper = b
      <4>1. Agree(next) /\ next <= Len(b)
        <5>1. upper # <<>>
          BY <2>1, <3>1 DEF IInv, Walk, Less
        <5> QED
          BY <2>1, <2>3, <5>1, DigitsAtNext, <3>1 DEF Path
      <4>2. next \in 1 .. (Len(b) + 1) /\ \A k \in 1 .. (next - 1) : Digit(a, k, 0) = Digit(b, k, Base)
        BY <2>3, <4>1 DEF Agree
      <4>3. digitB = Digit(b, next, Base) /\ digitA = Digit(a, next, 0)
        BY <3>1 DEF digitA, digitB
      <4>4. Between(a, b) = [k \in 1 .. next |-> IF k < next THEN Digit(a, k, 0)
                               ELSE (Digit(a, next, 0) + Digit(b, next, Base)) \div 2]
        <5>1. Digit(b, next, Base) - Digit(a, next, 0) > 1
          BY <2>1, <4>3
        <5> QED
          BY <1>0, <4>2, <5>1, BetweenWide
      <4> QED
        BY <2>5, <4>3, <4>4 DEF mid
    <3>2. CASE upper = <<>> /\ b # <<>>
      <4>1. PICK d \in 1 .. Len(prefix) :
              Parted(d) /\ \A k \in (d + 1) .. Len(prefix) : Digit(a, k, 0) = Base - 1
        BY <2>1, <3>2 DEF Path
      <4>2. digitB = Base /\ digitA = Digit(a, next, 0) /\ digitA < Base - 1
        BY <2>1, <3>2, DigitsAtNext, BaseAssumption DEF digitA, Digits
      <4>3. /\ d \in 1 .. (Len(b) + 1) /\ d < next
            /\ \A k \in 1 .. (d - 1) : Digit(a, k, 0) = Digit(b, k, Base)
            /\ Digit(a, d, 0) # Digit(b, d, Base)
            /\ Digit(b, d, Base) - Digit(a, d, 0) <= 1
            /\ \A k \in (d + 1) .. (next - 1) : Digit(a, k, 0) = Base - 1
        BY <2>3, <4>1 DEF Parted, Agree
      <4>4. Between(a, b) = [k \in 1 .. next |-> IF k < next THEN Digit(a, k, 0)
                               ELSE (Digit(a, next, 0) + Base) \div 2]
        BY <1>0, <2>3, <4>2, <4>3, BetweenNarrow
      <4> QED
        BY <2>5, <4>2, <4>4 DEF mid
    <3>3. b # <<>>
      BY <2>1 DEF IInv, Walk, Less
    <3> QED
      BY <3>1, <3>2, <3>3 DEF IInv, TypeOK
  <2> QED
    BY <1>0, <2>1, <2>6, <2>7 DEF Path, ComputesBetween
<1>4. CASE AdjacentDigit
  <2>1. /\ pc = "looping" /\ digitA # digitB /\ digitB - digitA <= 1
        /\ upper' = <<>> /\ UNCHANGED <<result, pc>> /\ prefix' = Append(prefix, digitA)
    BY <1>4 DEF AdjacentDigit
  <2>2. /\ Len(prefix') = next /\ next = Len(prefix) + 1 /\ next \in Nat /\ Len(prefix) \in Nat
        /\ Len(a) \in Nat /\ Len(b) \in Nat
    BY <1>0, <2>1, DigitsAtNext, AppendRank, WithinArguments
  <2>3. \E d \in 1 .. next :
          Parted(d) /\ \A k \in (d + 1) .. next : Digit(a, k, 0) = Base - 1
    <3>1. CASE upper = b
      <4>1. Agree(next) /\ next <= Len(b)
        <5>1. upper # <<>>
          BY <2>1, <3>1 DEF IInv, Walk, Less
        <5> QED
          BY <2>1, <2>2, <5>1, DigitsAtNext, <3>1 DEF Path
      <4>2. Parted(next)
        BY <2>1, <3>1, <4>1 DEF Parted, digitA, digitB
      <4> QED
        BY <2>2, <4>2
    <3>2. CASE upper = <<>> /\ b # <<>>
      <4>1. PICK d \in 1 .. Len(prefix) :
              Parted(d) /\ \A k \in (d + 1) .. Len(prefix) : Digit(a, k, 0) = Base - 1
        BY <2>1, <3>2 DEF Path
      <4>2. Digit(a, next, 0) = Base - 1
        <5>1. digitA = Base - 1
          BY <2>1, <3>2, DigitsAtNext, BaseAssumption DEF Digits
        <5> QED
          BY <5>1 DEF digitA
      <4>3. d \in 1 .. next /\ \A k \in (d + 1) .. next : Digit(a, k, 0) = Base - 1
        BY <2>2, <4>1, <4>2
      <4> QED
        BY <4>1, <4>3
    <3>3. b # <<>>
      BY <2>1 DEF IInv, Walk, Less
    <3> QED
      BY <3>1, <3>2, <3>3 DEF IInv, TypeOK
  <2>4. result = <<>> /\ Len(<<>>) = 0
    BY <2>1 DEF Path
  <2>5. Path'
    BY <1>0, <2>1, <2>2, <2>3, <2>4 DEF Path, Parted, Agree
  <2>6. GrowsByOneDigit'
    <3>1. next <= Len(a) \/ next <= Len(b)
      BY <2>1, WithinArguments
    <3> QED
      BY <1>0, <2>1, <2>2, <2>4, <3>1 DEF GrowsByOneDigit
  <2> QED
    BY <1>0, <2>1, <2>5, <2>6 DEF ComputesBetween
<1>5. CASE UNCHANGED vars
  BY <1>0, <1>5 DEF vars, Path, Parted, Agree, GrowsByOneDigit, ComputesBetween
<1> QED
  BY <1>1, <1>2, <1>3, <1>4, <1>5 DEF Next

\* A call returns a rank at most one digit longer than its longer argument, for every
\* alphabet: an insert cannot make a rank jump past the length at which the list is
\* re-spaced (rank.util.ts 51-87).
THEOREM GrowsByOne == Spec => []GrowsByOneDigit
<1>1. PathInv => GrowsByOneDigit
  BY DEF PathInv
<1> QED
  BY <1>1, InitPathInv, NextPathInv, PTL DEF Spec

\* The loop returns what the closed form Between says, on which the models of the
\* services rest: what is proved of one holds of the other (rank.util.ts 51-87).
THEOREM LoopComputesBetween == Spec => []ComputesBetween
<1>1. PathInv => ComputesBetween
  BY DEF PathInv
<1> QED
  BY <1>1, InitPathInv, NextPathInv, PTL DEF Spec
=============================================================================
