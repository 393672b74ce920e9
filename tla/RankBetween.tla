----------------------------- MODULE RankBetween -----------------------------
(***************************************************************************)
(* The loop of between(a, b) in tasks/rank.util.ts, one action per way     *)
(* through its body.  It is a for (;;) with no bound, so that it ends, and *)
(* that what it returns lies strictly between its arguments, is what every *)
(* create, move and rebalance of the program rests on.                     *)
(***************************************************************************)
EXTENDS Rank

CONSTANT Arguments      \* the arguments it is called with

ASSUME ArgumentsAssumption == Arguments \subseteq {s \in Ranks : Canonical(s)}

VARIABLES a, b,       \* the arguments
          prefix,     \* the digits kept so far; the code's i is its length
          upper,      \* b, or "" once b no longer constrains the result
          result,     \* what was returned
          pc

vars == <<a, b, prefix, upper, result, pc>>

next == Len(prefix) + 1
digitA == Digit(a, next, 0)

\* Mutation: a bound that has ended counts as 0 on both sides.
digitBEndsAtZero == Digit(upper, next, 0)

digitB == Digit(upper, next, Base)

Init ==
  /\ a \in Arguments
  /\ b \in Arguments
  /\ prefix = <<>>
  /\ upper = b
  /\ result = <<>>
  /\ pc = "called"

\* The argument check at the top: there is no answer unless a < b.
Check ==
  /\ pc = "called"
  /\ pc' = IF Less(a, b) THEN "looping" ELSE "threw"
  /\ UNCHANGED <<a, b, prefix, upper, result>>

\* The two digits agree: keep the digit and look one position deeper.
CommonDigit ==
  /\ pc = "looping"
  /\ digitA = digitB
  /\ prefix' = Append(prefix, digitA)
  /\ UNCHANGED <<a, b, upper, result, pc>>

\* Mutation: a gap of one digit is taken for room.
MidDigitOfAdjacent ==
  /\ pc = "looping"
  /\ digitB - digitA >= 1
  /\ result' = Append(prefix, (digitA + digitB) \div 2)
  /\ pc' = "returned"
  /\ UNCHANGED <<a, b, prefix, upper>>

\* A digit fits between the two: return it after the prefix.
MidDigit ==
  /\ pc = "looping"
  /\ digitB - digitA > 1
  /\ result' = Append(prefix, (digitA + digitB) \div 2)
  /\ pc' = "returned"
  /\ UNCHANGED <<a, b, prefix, upper>>

\* Mutation: the walk keeps b's digit and stays below nothing.
AdjacentTakesUpperDigit ==
  /\ pc = "looping"
  /\ digitA # digitB
  /\ digitB - digitA <= 1
  /\ prefix' = Append(prefix, digitB)
  /\ upper' = <<>>
  /\ UNCHANGED <<a, b, result, pc>>

\* Mutation: the position advances only while the upper bound is in force.
AdjacentStuck ==
  /\ pc = "looping"
  /\ digitA # digitB
  /\ digitB - digitA <= 1
  /\ prefix' = IF upper = b THEN Append(prefix, digitA) ELSE prefix
  /\ upper' = <<>>
  /\ UNCHANGED <<a, b, result, pc>>

\* The digits are adjacent: keep a's and go on, unbounded from above.
AdjacentDigit ==
  /\ pc = "looping"
  /\ digitA # digitB
  /\ digitB - digitA <= 1
  /\ prefix' = Append(prefix, digitA)
  /\ upper' = <<>>
  /\ UNCHANGED <<a, b, result, pc>>

Next == Check \/ CommonDigit \/ MidDigit \/ AdjacentDigit

\* The loop is synchronous code: nothing can suspend it.
Spec == Init /\ [][Next]_vars /\ WF_vars(Next)
-----------------------------------------------------------------------------
TypeOK ==
  /\ a \in Arguments /\ b \in Arguments
  /\ prefix \in Ranks
  /\ upper \in {b, <<>>}
  /\ result \in Ranks
  /\ pc \in {"called", "looping", "returned", "threw"}

\* Where the walk stands: the prefix is a's digits padded with 0, and either it
\* is also a prefix of b, or it is already below b at some position.
Walk ==
  /\ pc = "called" => prefix = <<>> /\ upper = b
  /\ pc = "looping" =>
    /\ Less(a, b)
    /\ \A k \in 1 .. Len(prefix) : prefix[k] = Digit(a, k, 0)
    /\ \/ /\ upper = b
          /\ \A k \in 1 .. Len(prefix) : k <= Len(b) /\ prefix[k] = b[k]
       \/ /\ upper = <<>>
          /\ \E k \in 1 .. Len(prefix) :
               /\ \A j \in 1 .. (k - 1) : j <= Len(b) /\ prefix[j] = b[j]
               /\ k <= Len(b)
               /\ prefix[k] < b[k]

\* between() returns a rank strictly between its arguments (rank.util.ts 51-66),
\* and again one with no trailing 0, so that it can bound a later call.
StrictlyBetween ==
  pc = "returned" => Less(a, result) /\ Less(result, b) /\ Canonical(result)

\* The walk stops at most one digit past its longer argument, so one insert grows
\* a rank by at most one digit: the comparison with RANK_LENGTH_REBALANCE_THRESHOLD
\* after each call (tasks.service.ts 66 and 214) then sees a rank in time.
GrowsByOneDigit ==
  \E s \in {a, b} : Len(prefix) <= Len(s) /\ Len(result) <= Len(s) + 1

\* The loop computes the midpoint that Rank's closed form defines, which is the
\* definition the models of the services use.
ComputesBetween == pc = "returned" => result = Between(a, b)

\* The unbounded for (;;) ends, whatever the arguments (rank.util.ts 78).
Terminates == <>(pc \in {"returned", "threw"})
=============================================================================
