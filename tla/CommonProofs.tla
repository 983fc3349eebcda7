---------------------------- MODULE CommonProofs --------------------------
(* What the programs share in common/: the report's numbers, for any        *)
(* counts, any clock and any size of words, and the place of the regions,   *)
(* for any device, any sizes and indices and any number of benchmarks.      *)
EXTENDS Benchmarks, ShmLayout, TLAPS

(* Lemmas about remainders and quotients.                                   *)
LEMMA Remainder ==
  ASSUME NEW x \in Int, NEW w \in Nat, w > 0
  PROVE  /\ x % w \in Nat /\ x % w < w
         /\ x \in Nat => x % w <= x
         /\ x \in Nat /\ x < w => x % w = x
OBVIOUS

LEMMA Quotient ==
  ASSUME NEW x \in Nat, NEW n \in Nat, n > 0
  PROVE  /\ x \div n \in Nat
         /\ x = n * (x \div n) + (x % n)
OBVIOUS

LEMMA QuotientGrows ==
  ASSUME NEW x \in Nat, NEW y \in Nat, NEW n \in Nat, n > 0, x <= y
  PROVE  x \div n <= y \div n
OBVIOUS

LEMMA ProductGrows ==
  ASSUME NEW n \in Nat, NEW a \in Int, NEW b \in Int, a <= b
  PROVE  n * a <= n * b /\ n * a \in Int /\ n * b \in Int
OBVIOUS

(* Cauchy and Schwarz, for one sample more.                                 *)
LEMMA SquareStep ==
  ASSUME NEW n \in Nat, NEW s \in Nat, NEW q \in Nat, NEW t \in Nat,
         s * s <= n * q, n = 0 => s = 0
  PROVE  (s + t) * (s + t) <= (n + 1) * (q + t * t)
OBVIOUS

(* A reading is a natural number, at most a grain from the clock, and does  *)
(* not decrease while the clock does not.                                   *)
LEMMA RoundedNear ==
  ASSUME NEW t \in Nat
  PROVE  Rounded(t) \in Nat /\ Rounded(t) <= t + Grain
<1> DEFINE q == t \div Grain
           r == t % Grain
           k == IF 2 * r < Grain \/ (2 * r = Grain /\ q % 2 = 0) THEN q ELSE q + 1
<1>1. Grain \in Nat /\ Grain > 0
  BY GrainAssumption
<1>2. q \in Nat /\ r \in Nat /\ t = Grain * q + r
  BY <1>1, Quotient, Remainder
<1>3. Rounded(t) = Grain * k /\ k \in Nat /\ k <= q + 1
  BY <1>2 DEF Rounded
<1>4. Grain * k <= Grain * (q + 1) /\ Grain * (q + 1) = Grain * q + Grain
  BY <1>1, <1>2, <1>3, ProductGrows
<1>5. Grain * q \in Nat /\ Grain * k \in Nat
  BY <1>1, <1>2, <1>3
<1> HIDE DEF q, r, k
<1> QED BY <1>1, <1>2, <1>3, <1>4, <1>5

LEMMA RoundedGrows ==
  ASSUME NEW t \in Nat, NEW u \in Nat, t <= u
  PROVE  Rounded(t) <= Rounded(u)
<1> DEFINE q(x) == x \div Grain
           r(x) == x % Grain
           k(x) == IF 2 * r(x) < Grain \/ (2 * r(x) = Grain /\ q(x) % 2 = 0)
                   THEN q(x) ELSE q(x) + 1
<1>1. Grain \in Nat /\ Grain > 0
  BY GrainAssumption
<1>2. /\ q(t) \in Nat /\ r(t) \in Nat /\ t = Grain * q(t) + r(t)
      /\ q(u) \in Nat /\ r(u) \in Nat /\ u = Grain * q(u) + r(u)
  BY <1>1, Quotient, Remainder
<1>3. q(t) <= q(u)
  BY <1>1, QuotientGrows
<1>4. k(t) <= k(u) /\ k(t) \in Nat /\ k(u) \in Nat
  <2>1. CASE q(t) = q(u)
    <3>1. r(t) <= r(u)
      <4> HIDE DEF q, r
      <4> QED BY <1>1, <1>2, <2>1
    <3> QED BY <1>1, <1>2, <2>1, <3>1
  <2>2. CASE q(t) < q(u)
    <3> HIDE DEF q, r
    <3> QED BY <1>1, <1>2, <2>2
  <2> HIDE DEF q, r, k
  <2> QED BY <1>2, <1>3, <2>1, <2>2
<1>5. Rounded(t) = Grain * k(t) /\ Rounded(u) = Grain * k(u)
  BY DEF Rounded
<1> HIDE DEF q, r, k
<1> QED BY <1>1, <1>4, <1>5, ProductGrows
---------------------------------------------------------------------------
(* While a round is timed, or between two, what was recorded so far.        *)
Extremes ==
    /\ pc = "off" => message = 0 /\ times = {} /\ squares = 0
    /\ pc # "off" =>
        /\ \A t \in times : minimum <= t /\ t <= maximum
        /\ maximum \in times \cup {0}
        /\ minimum \in times \/ (minimum = INT32_MAX /\ \A t \in times : t >= INT32_MAX)

(* The sums are the exact ones until they overflow, and the square of one   *)
(* is bounded by the other.                                                 *)
Sums ==
    /\ sum <= exact /\ exact <= squares
    /\ exact < Word => sum = exact
    /\ squares < Word => squared_sum = squares
    /\ exact * exact <= message * squares
    /\ message = 0 => exact = 0

(* The rounds fit between the start and now.                                *)
Timed ==
    ~isSet =>
        /\ pc = "off" => exact = 0
        /\ pc = "loop" => exact <= now - total_start
        /\ pc = "round" => exact <= single_start - total_start /\ single_start <= now
        /\ pc = "done" => exact <= total_time

IInv == TypeOK /\ Extremes /\ Sums /\ Timed

LEMMA Reading ==
  ASSUME TypeOK
  PROVE  now \in Nat /\ now < Word /\ clock \in Nat
<1>1. clock \in Nat /\ clock <= MaxClock
  BY ClockAssumption DEF TypeOK
<1>2. now \in Nat /\ now <= clock + Grain
  BY <1>1, RoundedNear DEF now
<1> QED BY <1>1, <1>2, ClockAssumption, WordAssumption, GrainAssumption

LEMMA InitInv == Init => IInv
<1> SUFFICES ASSUME Init PROVE IInv
  OBVIOUS
<1> USE DEF Init
<1>1. TypeOK
  BY DEF TypeOK
<1>2. Extremes
  BY DEF Extremes
<1>3. Sums
  BY DEF Sums
<1>4. Timed
  BY DEF Timed
<1> QED BY <1>1, <1>2, <1>3, <1>4 DEF IInv

LEMMA SetupInv == IInv /\ setup_benchmarks => IInv'
<1> SUFFICES ASSUME IInv, setup_benchmarks PROVE IInv'
  OBVIOUS
<1> USE DEF IInv, setup_benchmarks, history
<1>1. now \in Nat /\ now' = now
  BY Reading DEF now
<1>2. TypeOK'
  BY <1>1, WordAssumption DEF TypeOK
<1>3. Extremes'
  BY DEF Extremes
<1>4. message = 0 /\ times = {} /\ squares = 0
  BY DEF Extremes
<1>5. exact = 0
  BY <1>4 DEF Sums
<1>6. Sums'
  <2>1. /\ sum' = 0 /\ squared_sum' = 0 /\ exact' = 0 /\ squares' = 0 /\ message' = 0
    BY <1>4, <1>5
  <2> QED BY <2>1 DEF Sums
<1>7. Timed'
  BY <1>1, <1>5 DEF Timed
<1> QED BY <1>2, <1>3, <1>6, <1>7

LEMMA StartRoundInv == IInv /\ StartRound => IInv'
<1> SUFFICES ASSUME IInv, StartRound PROVE IInv'
  OBVIOUS
<1> USE DEF IInv, StartRound, history
<1>1. now \in Nat /\ now' = now
  BY Reading DEF now
<1>2. TypeOK'
  BY <1>1 DEF TypeOK
<1>3. Extremes'
  BY DEF Extremes
<1>4. Sums'
  BY DEF Sums
<1>5. Timed'
  BY <1>1 DEF Timed, TypeOK
<1> QED BY <1>2, <1>3, <1>4, <1>5

LEMMA BenchmarkInv == IInv /\ benchmark => IInv'
<1> SUFFICES ASSUME IInv, benchmark PROVE IInv'
  OBVIOUS
<1> DEFINE time == (now - single_start) % Word
<1> USE DEF IInv
<1>1. /\ pc = "round" /\ pc' = "loop" /\ message' = message + 1
      /\ minimum' = (IF time < minimum THEN time ELSE minimum)
      /\ maximum' = (IF time > maximum THEN time ELSE maximum)
      /\ squared_sum' = (squared_sum + time * time) % Word
      /\ sum' = (sum + time) % Word
      /\ times' = times \cup {time}
      /\ exact' = exact + time
      /\ squares' = squares + time * time
      /\ UNCHANGED <<clock, total_start, single_start, total_time, count, isSet>>
  BY DEF benchmark, Records
<1>2. now \in Nat /\ now < Word /\ now' = now
  BY <1>1, Reading DEF now
<1>3. Word \in Nat /\ Word > 0
  BY WordAssumption
<1>4. now - single_start \in Int
  BY <1>2 DEF TypeOK
<1>5. time \in Nat
  BY <1>3, <1>4, Remainder
<1>6. ~isSet => time = now - single_start
  BY <1>1, <1>2, <1>3, <1>4, Remainder DEF Timed, TypeOK
<1> HIDE DEF time
<1>7. time * time \in Nat /\ time <= time * time
  <2>1. CASE time = 0
    BY <2>1
  <2>2. CASE time > 0
    BY <2>2, <1>5
  <2> QED BY <2>1, <2>2, <1>5
<1>8. sum + time \in Nat /\ squared_sum + time * time \in Nat
  BY <1>5, <1>7 DEF TypeOK
<1>9. /\ sum' \in Nat /\ sum' <= sum + time
      /\ sum + time < Word => sum' = sum + time
      /\ squared_sum' \in Nat
      /\ squared_sum + time * time < Word => squared_sum' = squared_sum + time * time
  BY <1>1, <1>3, <1>8, Remainder
<1>10. TypeOK'
  BY <1>1, <1>5, <1>7, <1>9 DEF TypeOK
<1>11. Extremes'
  <2>1. minimum \in Nat /\ maximum \in Nat /\ times \subseteq Nat
    BY DEF TypeOK
  <2>2. /\ \A t \in times : minimum <= t /\ t <= maximum
        /\ maximum \in times \cup {0}
        /\ minimum \in times \/ (minimum = INT32_MAX /\ \A t \in times : t >= INT32_MAX)
    BY <1>1 DEF Extremes
  <2>3. \A t \in times' : minimum' <= t /\ t <= maximum'
    BY <1>1, <1>5, <2>1, <2>2
  <2>4. maximum' \in times' \cup {0}
    BY <1>1, <2>2
  <2>5. minimum' \in times' \/ (minimum' = INT32_MAX /\ \A t \in times' : t >= INT32_MAX)
    BY <1>1, <1>5, <2>1, <2>2, WordAssumption
  <2> QED BY <1>1, <2>3, <2>4, <2>5 DEF Extremes
<1>12. Sums'
  <2>1. message \in Nat /\ exact \in Nat /\ squares \in Nat /\ sum \in Nat /\ squared_sum \in Nat
    BY DEF TypeOK
  <2>2. (exact + time) * (exact + time) <= (message + 1) * (squares + time * time)
    BY <1>5, <2>1, SquareStep DEF Sums
  <2>3. sum' <= exact' /\ exact' <= squares'
    BY <1>1, <1>5, <1>7, <1>9, <2>1 DEF Sums
  <2>4. exact' < Word => sum' = exact'
    BY <1>1, <1>3, <1>5, <1>9, <2>1 DEF Sums
  <2>5. squares' < Word => squared_sum' = squares'
    BY <1>1, <1>3, <1>7, <1>9, <2>1 DEF Sums
  <2>6. message' # 0
    BY <1>1, <2>1
  <2> QED BY <1>1, <2>2, <2>3, <2>4, <2>5, <2>6 DEF Sums
<1>13. Timed'
  BY <1>1, <1>2, <1>5, <1>6 DEF Timed, TypeOK
<1> QED BY <1>10, <1>11, <1>12, <1>13

LEMMA EvaluateInv == IInv /\ evaluate => IInv'
<1> SUFFICES ASSUME IInv, evaluate PROVE IInv'
  OBVIOUS
<1> USE DEF IInv, evaluate, history
<1>1. now \in Nat /\ now < Word /\ now - total_start \in Int
  BY Reading DEF TypeOK
<1>2. Word \in Nat /\ Word > 0
  BY WordAssumption
<1>3. (now - total_start) % Word \in Nat
  BY <1>1, <1>2, Remainder
<1>4. TypeOK'
  BY <1>3 DEF TypeOK
<1>5. Extremes'
  BY DEF Extremes
<1>6. Sums'
  BY DEF Sums
<1>7. ~isSet => (now - total_start) % Word = now - total_start
  BY <1>1, <1>2, Remainder DEF Timed, TypeOK
<1>8. Timed'
  BY <1>7 DEF Timed
<1> QED BY <1>4, <1>5, <1>6, <1>8

LEMMA TickInv == IInv /\ pc \in {"loop", "round"} /\ Tick => IInv'
<1> SUFFICES ASSUME IInv, pc \in {"loop", "round"}, Tick PROVE IInv'
  OBVIOUS
<1> USE DEF IInv, bench, history
<1>0. UNCHANGED <<pc, bench, message, count, history, isSet>>
  BY DEF Tick
<1>1. clock' \in 0 .. MaxClock /\ clock <= clock' /\ clock \in Nat
  BY StepsAssumption, ClockAssumption DEF Tick, TypeOK
<1>2. now <= now' /\ now \in Nat /\ now' \in Nat
  BY <1>1, RoundedGrows, RoundedNear DEF now
<1>3. TypeOK'
  BY <1>0, <1>1 DEF TypeOK
<1>4. Extremes'
  BY <1>0 DEF Extremes
<1>5. Sums'
  BY <1>0 DEF Sums
<1>6. Timed'
  <2>1. /\ pc' = pc /\ isSet' = isSet /\ exact' = exact
        /\ total_start' = total_start /\ single_start' = single_start
    BY <1>0
  <2>2. exact \in Nat /\ total_start \in Nat /\ single_start \in Nat
    BY DEF TypeOK
  <2>3. ~isSet /\ pc = "loop" => exact <= now - total_start
    BY DEF Timed
  <2>4. ~isSet /\ pc = "loop" => exact <= now' - total_start
    BY <1>2, <2>2, <2>3 DEF now
  <2>5. ~isSet /\ pc = "round" => exact <= single_start - total_start /\ single_start <= now
    BY DEF Timed
  <2>6. ~isSet /\ pc = "round" => single_start <= now'
    BY <1>2, <2>2, <2>5 DEF now
  <2> QED BY <2>1, <2>4, <2>5, <2>6 DEF Timed
<1> QED BY <1>3, <1>4, <1>5, <1>6

LEMMA SetBackInv == IInv /\ SetBack => IInv'
<1> SUFFICES ASSUME IInv, SetBack PROVE IInv'
  OBVIOUS
<1> USE DEF IInv, bench, history
<1>0. UNCHANGED <<pc, bench, message, count, history>> /\ isSet'
  BY DEF SetBack
<1>1. clock' \in 0 .. MaxClock /\ isSet' \in BOOLEAN
  BY StepsAssumption, ClockAssumption DEF SetBack, TypeOK
<1>2. TypeOK'
  BY <1>0, <1>1 DEF TypeOK
<1>3. Extremes'
  BY <1>0 DEF Extremes
<1>4. Sums'
  BY <1>0 DEF Sums
<1>5. Timed'
  BY <1>0 DEF Timed
<1> QED BY <1>2, <1>3, <1>4, <1>5

LEMMA NextInv == IInv /\ [Next]_vars => IInv'
<1> SUFFICES ASSUME IInv, [Next]_vars PROVE IInv'
  OBVIOUS
<1>1. CASE Next
  BY <1>1, SetupInv, StartRoundInv, BenchmarkInv, EvaluateInv, TickInv, SetBackInv DEF Next
<1>2. CASE UNCHANGED vars
  BY <1>2 DEF vars, bench, history, IInv, TypeOK, Extremes, Sums, Timed, now
<1> QED BY <1>1, <1>2

(* The strengthened invariant: extremes, sums and the time passed fit       *)
(* together in every reachable state.                                       *)
THEOREM Invariant == Spec => []IInv
BY InitInv, NextInv, PTL DEF Spec

(* Every variable keeps its type.                                           *)
THEOREM TypeCorrect == Spec => []TypeOK
<1>1. IInv => TypeOK
  BY DEF IInv
<1> QED BY <1>1, Invariant, PTL

(* The extremes are samples and bound all of them, whatever the clock does. *)
THEOREM ExtremesRight == Spec => []MinMax
<1>1. IInv => MinMax
  BY DEF IInv, Extremes, MinMax
<1> QED BY Invariant, <1>1, PTL

(* The variance is not negative by as much as 1, for any samples.           *)
THEOREM Variance == Spec => []SigmaReal
<1>1. IInv => SigmaReal
  <2> SUFFICES ASSUME IInv, squares < Word, message > 0
               PROVE  message * message * ((squared_sum \div message) + 1) > sum * sum
    BY DEF SigmaReal
  <2> DEFINE q == squared_sum \div message
             r == squared_sum % message
  <2>1. message \in Nat /\ exact \in Nat /\ squares \in Nat /\ squared_sum \in Nat
    BY DEF IInv, TypeOK
  <2>2. Word \in Nat /\ squared_sum = squares /\ sum = exact /\ sum * sum <= message * squared_sum
    BY <2>1, WordAssumption DEF IInv, Sums
  <2>3. q \in Nat /\ r \in Nat /\ r < message /\ squared_sum = message * q + r
    BY <2>1, Quotient, Remainder
  <2> HIDE DEF q, r
  <2>4. message * (q + 1) = message * q + message /\ message * q \in Nat
    BY <2>1, <2>3
  <2>5. message * (q + 1) > squared_sum /\ message * (q + 1) \in Nat
    BY <2>1, <2>3, <2>4
  <2>6. message * (message * (q + 1)) > message * squared_sum
    BY <2>1, <2>5
  <2>7. message * (message * (q + 1)) = message * message * (q + 1)
    BY <2>1, <2>3
  <2>8. sum * sum \in Nat /\ message * squared_sum \in Nat /\ message * message * (q + 1) \in Nat
    BY <2>1, <2>2, <2>3
  <2>9. message * message * (q + 1) > sum * sum
    BY <2>2, <2>6, <2>7, <2>8
  <2> QED BY <2>9 DEF q
<1> QED BY Invariant, <1>1, PTL

(* The rounds do not add up to more than the total, however coarse the      *)
(* clock is, unless it is set back.                                         *)
THEOREM TotalRight == Spec => []RoundsWithinTotal
<1>1. IInv => RoundsWithinTotal
  BY DEF IInv, Sums, Timed, TypeOK, RoundsWithinTotal
<1> QED BY Invariant, <1>1, PTL
---------------------------------------------------------------------------
(* A benchmark that is running has put its region where its product says,   *)
(* unless the product does not fit an int.                                  *)
Placed ==
    \A b \in Benches : state[b] # "off" =>
        /\ kind[b] = "segment" => start[b] = 0
        /\ kind[b] # "segment" /\ Fits(b) => start[b] = Memory - Product(b)

LaidOut == LayoutTypeOK /\ Placed /\ Intact

(* Regions counted back from the end do not overlap if none of the farther  *)
(* ones is smaller.                                                         *)
LEMMA ProductsGrow ==
  ASSUME NEW i \in Nat, NEW j \in Nat, NEW s \in Nat, NEW t \in Nat, i < j, s <= t
  PROVE  (i + 1) * s + t <= (j + 1) * t
<1>1. (i + 1) * s <= (i + 1) * t
  OBVIOUS
<1>2. (i + 1) * t <= j * t
  <2>1. PICK k \in Nat : j = i + 1 + k
    <3> WITNESS j - (i + 1) \in Nat
    <3> QED OBVIOUS
  <2>2. j * t = (i + 1) * t + k * t
    BY <2>1
  <2>3. k * t >= 0
    OBVIOUS
  <2>4. (i + 1) * t \in Int /\ j * t \in Int /\ k * t \in Int
    OBVIOUS
  <2> QED BY <2>2, <2>3, <2>4
<1>3. (j + 1) * t = j * t + t
  OBVIOUS
<1>4. (i + 1) * s \in Int /\ (i + 1) * t \in Int /\ j * t \in Int
  OBVIOUS
<1> QED BY <1>1, <1>2, <1>3, <1>4

(* What a region's index and span are.                                      *)
LEMMA Integral ==
  ASSUME LayoutTypeOK, NEW b \in Benches
  PROVE  shmem_index(b) \in Int /\ Span(b) \in Nat /\ Span(b) > 0 /\ Product(b) \in Int
<1>1. index[b] \in Int /\ size[b] \in Nat /\ size[b] > 0
  <2>1. index[b] \in Indices /\ size[b] \in Sizes
    BY DEF LayoutTypeOK
  <2>2. size[b] \in Nat \ {0}
    BY <2>1, SizesAssumption
  <2>3. index[b] \in Int
    BY <2>1, IndicesAssumption
  <2> QED BY <2>2, <2>3
<1>2. shmem_index(b) \in Int /\ Span(b) \in Nat /\ Span(b) > 0
  BY <1>1 DEF shmem_index, Span
<1> QED BY <1>2 DEF Product

LEMMA BelowApart ==
  ASSUME LayoutTypeOK, Placed, NEW b \in Benches, NEW c \in Benches,
         state[b] # "off", state[c] # "off", kind[b] # "segment", kind[c] # "segment",
         Fits(b), Fits(c), Below(b, c)
  PROVE  Region(b) \cap Region(c) = {}
<1>1. start[b] = Memory - Product(b) /\ start[c] = Memory - Product(c)
  BY DEF Placed
<1>2. Product(b) + Span(c) <= Product(c)
  BY ProductsGrow, Integral DEF Product, Below, Fits
<1>3. start[c] + Span(c) <= start[b]
  BY <1>1, <1>2, Integral, MemoryAssumption
<1>4. start[b] \in Int /\ start[c] \in Int /\ Span(b) \in Nat /\ Span(c) \in Nat
  BY Integral DEF LayoutTypeOK
<1> QED BY <1>3, <1>4 DEF Region

(* Compatible benchmarks have no byte in common.                            *)
LEMMA Disjoint ==
  ASSUME LayoutTypeOK, Placed, NEW b \in Benches, NEW c \in Benches,
         state[b] # "off", state[c] # "off", Compatible(b, c)
  PROVE  ~Overlap(c, b)
<1>1. CASE kind[b] = "segment" /\ kind[c] = "segment"
  BY <1>1 DEF Compatible, Overlap, Home, Key
<1>2. CASE kind[b] = "segment" /\ kind[c] # "segment"
  BY <1>2 DEF Overlap, Home
<1>3. CASE kind[b] # "segment" /\ kind[c] = "segment"
  BY <1>3 DEF Overlap, Home
<1>4. CASE kind[b] # "segment" /\ kind[c] # "segment"
  <2>1. Fits(b) /\ Fits(c) /\ (Below(b, c) \/ Below(c, b))
    BY <1>4 DEF Compatible
  <2> QED BY <1>4, <2>1, BelowApart DEF Overlap
<1> QED BY <1>1, <1>2, <1>3, <1>4

LEMMA InitLaidOut == LayoutInit => LaidOut
BY DEF LayoutInit, LaidOut, LayoutTypeOK, Placed, Intact

(* What depends on the options alone stays as it is.                        *)
LEMMA SameOptions ==
  ASSUME UNCHANGED Options, NEW b, NEW c
  PROVE  /\ Fits(b)' = Fits(b) /\ Product(b)' = Product(b) /\ Span(b)' = Span(b)
         /\ Compatible(b, c)' = Compatible(b, c)
         /\ kind' = kind
BY DEF Options, Fits, Product, Span, shmem_index, Compatible, Below, IsInt

LEMMA LaunchLaidOut ==
  ASSUME LaidOut, NEW b \in Benches, Launch(b) PROVE LaidOut'
<1> USE DEF LaidOut
<1>0. UNCHANGED Options /\ UNCHANGED intruders
  BY DEF Launch
<1>1. PICK d \in Distances(b) :
        start' = [start EXCEPT ![b] = IF kind[b] = "segment" THEN 0 ELSE Memory - d]
  BY DEF Launch
<1>2. d \in Int
  <2>1. Product(b) \in Int
    BY Integral
  <2>2. Wrapped(Product(b)) \in Int
    BY <2>1, WidthAssumption DEF Wrapped
  <2> QED BY <2>1, <2>2, <1>1 DEF Distances
<1>3. LayoutTypeOK'
  BY <1>0, <1>1, <1>2, MemoryAssumption DEF LayoutTypeOK, Launch, Options
<1>4. kind[b] # "segment" /\ Fits(b) => d = Product(b)
  BY <1>1 DEF Distances, Fits
<1>5. Placed'
  <2> SUFFICES ASSUME NEW c \in Benches, state'[c] # "off"
               PROVE  /\ kind[c] = "segment" => start'[c] = 0
                      /\ kind[c] # "segment" /\ Fits(c) => start'[c] = Memory - Product(c)
    BY <1>0, SameOptions DEF Placed
  <2>1. CASE c = b
    BY <2>1, <1>1, <1>4 DEF LayoutTypeOK
  <2>2. CASE c # b
    BY <2>2, <1>1 DEF LayoutTypeOK, Placed, Launch
  <2> QED BY <2>1, <2>2
<1>6. Intact'
  <2>1. ASSUME NEW c \in Benches, state'[c] = "filled" \/ state'[c] = "outside"
        PROVE  state[c] = state'[c]
    BY <2>1 DEF Launch, LayoutTypeOK
  <2> QED BY <1>0, <2>1, SameOptions DEF Intact
<1> QED BY <1>3, <1>5, <1>6

LEMMA FillLaidOut ==
  ASSUME LaidOut, NEW b \in Benches, Fill(b) PROVE LaidOut'
<1> USE DEF LaidOut
<1>0. UNCHANGED Options /\ start' = start
  BY DEF Fill
<1>1. PICK written \in BOOLEAN :
        intruders' = [c \in Benches |-> IF c = b THEN {}
                                        ELSE IF written /\ Overlap(b, c) THEN intruders[c] \cup {b}
                                        ELSE intruders[c]]
  BY DEF Fill
<1>2. state' = [state EXCEPT ![b] = IF Inside(b) THEN "filled" ELSE "outside"] /\ state[b] # "off"
  BY DEF Fill
<1>3. LayoutTypeOK'
  BY <1>0, <1>1, <1>2 DEF LayoutTypeOK, Options
<1>4. Placed'
  BY <1>0, <1>2, SameOptions DEF Placed, LayoutTypeOK
<1>5. Intact'
  <2> SUFFICES ASSUME NEW c \in Benches
               PROVE  /\ state'[c] = "filled" => \A e \in Benches \ {c} :
                            Compatible(c, e) => e \notin intruders'[c]
                      /\ state'[c] = "outside" /\ Fits(c) => Product(c) > Memory
    BY <1>0, SameOptions DEF Intact
  <2>1. CASE c = b
    <3>1. intruders'[c] = {}
      BY <2>1, <1>1
    <3>2. ASSUME ~Inside(b), Fits(b) PROVE Product(b) > Memory
      <4>1. CASE kind[b] = "segment"
        <5>1. start[b] = 0
          BY <4>1, <1>2 DEF Placed
        <5>2. size[b] \in Nat
          <6>1. size[b] \in Sizes
            BY DEF LayoutTypeOK
          <6> QED BY <6>1, SizesAssumption
        <5>3. Span(b) = size[b] /\ Length(b) = size[b]
          BY <4>1, <5>2 DEF Span, Length
        <5> QED BY <5>1, <5>2, <5>3, <3>2 DEF Inside
      <4>2. CASE kind[b] # "segment"
        <5>1. start[b] = Memory - Product(b) /\ Length(b) = Memory
          BY <4>2, <1>2, <3>2 DEF Placed, Length
        <5>2. /\ shmem_index(b) \in Nat /\ Span(b) \in Nat
              /\ Product(b) = (shmem_index(b) + 1) * Span(b)
          BY <3>2, Integral DEF Fits, Product
        <5>3. Span(b) <= Product(b)
          <6>1. /\ Product(b) = shmem_index(b) * Span(b) + Span(b)
                /\ shmem_index(b) * Span(b) >= 0
            BY <5>2
          <6> QED BY <6>1, <5>2
        <5> QED BY <5>1, <5>3, <3>2, Integral, MemoryAssumption DEF Inside
      <4> QED BY <4>1, <4>2
    <3> QED BY <2>1, <3>1, <3>2, <1>2 DEF LayoutTypeOK
  <2>2. CASE c # b
    <3>1. state'[c] = state[c]
      BY <2>2, <1>2 DEF LayoutTypeOK
    <3>2. ASSUME state[c] = "filled", NEW e \in Benches \ {c}, Compatible(c, e)
          PROVE  e \notin intruders'[c]
      <4>1. e \notin intruders[c]
        BY <3>2 DEF Intact
      <4>2. CASE e = b
        <5>1. ~Overlap(b, c)
          BY <4>2, <3>2, <1>2, Disjoint
        <5> QED BY <5>1, <4>1, <1>1, <2>2
      <4>3. CASE e # b
        BY <4>3, <4>1, <1>1, <2>2
      <4> QED BY <4>2, <4>3
    <3> QED BY <3>1, <3>2 DEF Intact
  <2> QED BY <2>1, <2>2
<1> QED BY <1>3, <1>4, <1>5

LEMMA StopLaidOut ==
  ASSUME LaidOut, NEW b \in Benches, Stop(b) PROVE LaidOut'
<1> USE DEF LaidOut
<1>0. UNCHANGED Options /\ UNCHANGED <<start, intruders>> /\ state' = [state EXCEPT ![b] = "off"]
  BY DEF Stop
<1>1. LayoutTypeOK'
  BY <1>0 DEF LayoutTypeOK, Options
<1>2. Placed'
  BY <1>0, SameOptions DEF Placed, LayoutTypeOK
<1>3. Intact'
  BY <1>0, SameOptions DEF Intact, LayoutTypeOK
<1> QED BY <1>1, <1>2, <1>3

LEMMA NextLaidOut == ASSUME LaidOut, [LayoutNext]_layout PROVE LaidOut'
<1>1. CASE LayoutNext
  BY <1>1, LaunchLaidOut, FillLaidOut, StopLaidOut DEF LayoutNext
<1>2. CASE UNCHANGED layout
  <2>1. UNCHANGED Options /\ UNCHANGED <<start, state, intruders>>
    BY <1>2 DEF layout, Options
  <2>2. LayoutTypeOK'
    BY <2>1 DEF LaidOut, LayoutTypeOK, Options
  <2>3. Placed'
    BY <2>1, SameOptions DEF LaidOut, Placed
  <2>4. Intact'
    BY <2>1, SameOptions DEF LaidOut, Intact
  <2> QED BY <2>2, <2>3, <2>4 DEF LaidOut
<1> QED BY <1>1, <1>2

(* Benchmarks with the same -b and different -i, or with larger regions for *)
(* larger indices, or with segments of their own, never disturb each other; *)
(* and those whose regions fit into the device stay in it.                  *)
THEOREM NeverDisturbed == LayoutSpec => []Intact
<1>1. LaidOut => Intact
  BY DEF LaidOut
<1> QED BY InitLaidOut, NextLaidOut, <1>1, PTL DEF LayoutSpec
===========================================================================
