--------------------------- MODULE ThrottleProofs ---------------------------
(***************************************************************************)
(* What the throttles of a node promise, for any number of methods,        *)
(* throttles, limiters, windows and seconds: their limits are kept. And    *)
(* what the windows chosen for a limit are good for, with the numbers of   *)
(* the code: the time of a limit is covered to less than a window, and its *)
(* windows fit the ring for all times but some between 126 and 2879        *)
(* seconds.                                                                *)
(***************************************************************************)
EXTENDS ThrottleGroup, ThrottleConfig, DataProofs

-----------------------------------------------------------------------------
(* The inductive invariant                                                 *)

Windows(th) == 0 .. WindowCount[th] - 1
Window == [requests : Nat, by_fn : [Methods -> Nat], data : Nat]
Throttle ==
  [th \in Throttles |->
     [stats_pos : Windows(th), stats : [Windows(th) -> Window], score : Int,
      throttled : BOOLEAN, capacity_used : 0 .. Full]]

Counted(th) == [0 .. Horizon(th) - 1 -> [Methods -> Nat]]

(* The ring stands where the last maintenance turned it.                   *)
RingNoticed(th) == group[th].stats_pos = WindowAt(th, noticed)

(* No window of the ring counts less than was admitted in it: what a       *)
(* missed second leaves in the ring only makes it count more.              *)
Cell(th, T, age) == T.stats[(T.stats_pos - age) % WindowCount[th]]
Ages(th) == (0 .. Horizon(th) - 1) \cap (0 .. WindowCount[th] - 1)
ChargedIn(th, T, A) ==
  \A age \in Ages(th) :
    /\ SumFunction(A[age]) <= Cell(th, T, age).requests
    /\ \A m \in Methods : A[age][m] <= Cell(th, T, age).by_fn[m]

(* A throttle that is not throttled has room for one more request.         *)
RoomIn(th, T) ==
  \A l \in Limiters[th] :
    ~ T.throttled /\ l.t # "L_DATA_RECEIVED" => AmountUsed(th, T, l) < l.maximum

(* VerdictNeverTooStrict and RateLimit, of one throttle; the second for    *)
(* limiters that look at no more windows than the ring has.                *)
MildIn(th, T) ==
  LET fresh == FreshScore(th, T)
  IN  /\ T.throttled => fresh.throttled
      /\ T.capacity_used <= fresh.capacity_used
      /\ (\A l \in Limiters[th] : l.t # "L_DATA_RECEIVED") => T.throttled = fresh.throttled

AdmittedIn(A, n) == SumFunction([age \in 0 .. n - 1 |-> SumFunction(A[age])])
AdmittedOf(A, n, m) == SumFunction([age \in 0 .. n - 1 |-> A[age][m]])
KeptIn(th, A) ==
  \A l \in Limiters[th] : l.in_time_windows <= WindowCount[th] =>
    /\ l.t = "L_REQUESTS" => AdmittedIn(A, l.in_time_windows) <= l.maximum
    /\ l.t = "L_REQUESTS_PER_FN" =>
         \A m \in Methods : AdmittedOf(A, l.in_time_windows, m) <= l.maximum

ThrottleInv(th, T, A) ==
  /\ T \in Throttle[th] /\ A \in Counted(th)
  /\ ChargedIn(th, T, A)
  /\ RoomIn(th, T)
  /\ MildIn(th, T)
  /\ KeptIn(th, A)

(* A throttle that let a request past its data limit is throttled.         *)
OverdrawnThrottled(th) ==
  /\ overdrawn[th] \in 0 .. 1
  /\ overdrawn[th] = 1 => group[th].throttled

IInv ==
  /\ LoopTypeOK
  /\ in_flight \in 0 .. MaxInFlight
  /\ \A th \in Throttles :
       /\ ThrottleInv(th, group[th], admitted[th])
       /\ RingNoticed(th)
       /\ OverdrawnThrottled(th)

-----------------------------------------------------------------------------
(* What a throttle counts                                                  *)

(* The windows a limiter looks at, from the current one back.              *)
RequestsIn(th, T, n) == [i \in 0 .. n - 1 |-> Cell(th, T, i).requests]
DataIn(th, T, n) == [i \in 0 .. n - 1 |-> Cell(th, T, i).data]
RequestsFor(th, T, n, m) == [i \in 0 .. n - 1 |-> Cell(th, T, i).by_fn[m]]

(* The amount used of a limit is a sum over the windows behind the current *)
(* one.                                                                    *)
LEMMA AmountIsSum ==
  ASSUME NEW th, NEW T, NEW l, NEW n, n = l.in_time_windows
  PROVE  /\ l.t = "L_REQUESTS" =>
              AmountUsed(th, T, l) = SumFunctionOnSet(RequestsIn(th, T, n), 0 .. n - 1)
         /\ l.t = "L_DATA_RECEIVED" =>
              AmountUsed(th, T, l) = SumFunctionOnSet(DataIn(th, T, n), 0 .. n - 1)
         /\ l.t = "L_REQUESTS_PER_FN" =>
              AmountUsed(th, T, l) =
                Max({0} \cup {SumFunctionOnSet(RequestsFor(th, T, n, m), 0 .. n - 1) : m \in Methods})
<1>1. DOMAIN RequestsIn(th, T, n) = 0 .. n - 1 /\ DOMAIN DataIn(th, T, n) = 0 .. n - 1
  BY DEF RequestsIn, DataIn
<1>2. \A m : DOMAIN RequestsFor(th, T, n, m) = 0 .. n - 1
  BY DEF RequestsFor
<1>3. l.t = "L_REQUESTS" => AmountUsed(th, T, l) = SumFunction(RequestsIn(th, T, n))
  BY DEF AmountUsed, OverWindows, RequestsIn, Cell
<1>4. l.t = "L_DATA_RECEIVED" => AmountUsed(th, T, l) = SumFunction(DataIn(th, T, n))
  BY DEF AmountUsed, OverWindows, DataIn, Cell
<1>5. l.t = "L_REQUESTS_PER_FN" =>
        AmountUsed(th, T, l) = Max({0} \cup {SumFunction(RequestsFor(th, T, n, m)) : m \in Methods})
  BY DEF AmountUsed, OverWindows, RequestsFor, Cell
<1>6. /\ SumFunction(RequestsIn(th, T, n)) = SumFunctionOnSet(RequestsIn(th, T, n), 0 .. n - 1)
      /\ SumFunction(DataIn(th, T, n)) = SumFunctionOnSet(DataIn(th, T, n), 0 .. n - 1)
  BY <1>1 DEF SumFunction
<1>7. \A m : SumFunction(RequestsFor(th, T, n, m)) = SumFunctionOnSet(RequestsFor(th, T, n, m), 0 .. n - 1)
  BY <1>2 DEF SumFunction
<1> QED
  BY <1>3, <1>4, <1>5, <1>6, <1>7

LEMMA RequestAmount ==
  ASSUME NEW th, NEW T, NEW l, l.t = "L_REQUESTS"
  PROVE  AmountUsed(th, T, l) =
           SumFunctionOnSet(RequestsIn(th, T, l.in_time_windows), 0 .. l.in_time_windows - 1)
<1>1. PICK n : n = l.in_time_windows
  OBVIOUS
<1>2. AmountUsed(th, T, l) = SumFunctionOnSet(RequestsIn(th, T, n), 0 .. n - 1)
  BY <1>1, AmountIsSum, ZenonT(60)
<1> QED
  BY <1>1, <1>2

LEMMA DataAmount ==
  ASSUME NEW th, NEW T, NEW l, l.t = "L_DATA_RECEIVED"
  PROVE  AmountUsed(th, T, l) =
           SumFunctionOnSet(DataIn(th, T, l.in_time_windows), 0 .. l.in_time_windows - 1)
<1>1. PICK n : n = l.in_time_windows
  OBVIOUS
<1>2. AmountUsed(th, T, l) = SumFunctionOnSet(DataIn(th, T, n), 0 .. n - 1)
  BY <1>1, AmountIsSum, ZenonT(60)
<1> QED
  BY <1>1, <1>2

LEMMA LimiterFacts ==
  ASSUME NEW th \in Throttles, NEW l \in Limiters[th]
  PROVE  /\ l.t \in LimiterTypes /\ l.maximum \in Nat \ {0} /\ l.in_time_windows \in Nat
         /\ WindowCount[th] \in Nat \ {0} /\ WindowSeconds[th] \in Nat \ {0}
BY ThrottleAssumption

LEMMA CellTyped ==
  ASSUME NEW th \in Throttles, NEW T \in Throttle[th], NEW i \in Int
  PROVE  /\ (T.stats_pos - i) % WindowCount[th] \in Windows(th)
         /\ Cell(th, T, i) \in Window
<1>1. WindowCount[th] \in Nat \ {0}
  BY ThrottleAssumption
<1>2. T.stats_pos \in Windows(th) /\ T.stats \in [Windows(th) -> Window]
  BY DEF Throttle
<1>3. T.stats_pos - i \in Int
  BY <1>1, <1>2 DEF Windows
<1>4. (T.stats_pos - i) % WindowCount[th] \in Windows(th)
  BY <1>1, <1>3, PlaceExists DEF Windows
<1> QED
  BY <1>2, <1>4 DEF Cell

LEMMA TermsTyped ==
  ASSUME NEW th \in Throttles, NEW T \in Throttle[th], NEW n \in Nat
  PROVE  /\ \A i \in 0 .. n - 1 : RequestsIn(th, T, n)[i] \in Nat /\ DataIn(th, T, n)[i] \in Nat
         /\ \A m \in Methods : \A i \in 0 .. n - 1 : RequestsFor(th, T, n, m)[i] \in Nat
<1>1. \A i \in 0 .. n - 1 : Cell(th, T, i) \in Window
  BY CellTyped
<1> QED
  BY <1>1 DEF Window, RequestsIn, DataIn, RequestsFor

(* The method with most requests.                                          *)
LEMMA MostRequests ==
  ASSUME NEW f \in [Methods -> Nat], NEW most, most = Max({0} \cup {f[m] : m \in Methods})
  PROVE  /\ most \in Nat
         /\ \A m \in Methods : f[m] <= most
         /\ most = 0 \/ \E m \in Methods : most = f[m]
<1> DEFINE S == {0} \cup {f[m] : m \in Methods}
<1>1. IsFiniteSet({f[m] : m \in Methods})
  BY ThrottleAssumption, ImageFinite
<1>2. IsFiniteSet(S)
  <2>1. S = {f[m] : m \in Methods} \cup {0}
    OBVIOUS
  <2> QED
    BY <1>1, <2>1, FS_AddElement
<1>3. S \subseteq Int /\ S # {} /\ S \subseteq Nat /\ \A m \in Methods : f[m] \in S
  OBVIOUS
<1>4. \A x \in S : x = 0 \/ \E m \in Methods : x = f[m]
  OBVIOUS
<1> HIDE DEF S
<1>5. Max(S) \in S /\ \A y \in S : Max(S) >= y
  BY <1>2, <1>3, MaxOfSet
<1>6. /\ Max(S) \in Nat
      /\ \A m \in Methods : f[m] <= Max(S)
      /\ Max(S) = 0 \/ \E m \in Methods : Max(S) = f[m]
  BY <1>3, <1>4, <1>5
<1> QED
  BY <1>6 DEF S

SumsFor(th, T, n) ==
  [m \in Methods |-> SumFunctionOnSet(RequestsFor(th, T, n, m), 0 .. n - 1)]

LEMMA SumsForTyped ==
  ASSUME NEW th \in Throttles, NEW T \in Throttle[th], NEW n \in Nat
  PROVE  /\ SumFunctionOnSet(RequestsIn(th, T, n), 0 .. n - 1) \in Nat
         /\ SumFunctionOnSet(DataIn(th, T, n), 0 .. n - 1) \in Nat
         /\ SumsFor(th, T, n) \in [Methods -> Nat]
<1>1. IsFiniteSet(0 .. n - 1)
  BY FirstAreFinite
<1>2. /\ SumFunctionOnSet(RequestsIn(th, T, n), 0 .. n - 1) \in Nat
      /\ SumFunctionOnSet(DataIn(th, T, n), 0 .. n - 1) \in Nat
  BY <1>1, TermsTyped, SumOfNaturals
<1>3. \A m \in Methods : SumFunctionOnSet(RequestsFor(th, T, n, m), 0 .. n - 1) \in Nat
  BY <1>1, TermsTyped, SumOfNaturals
<1> QED
  BY <1>2, <1>3 DEF SumsFor

LEMMA AmountFor ==
  ASSUME NEW th \in Throttles, NEW T \in Throttle[th],
         NEW l \in Limiters[th], l.t = "L_REQUESTS_PER_FN",
         NEW n \in Nat, n = l.in_time_windows
  PROVE  /\ AmountUsed(th, T, l) \in Nat
         /\ \A m \in Methods : SumsFor(th, T, n)[m] <= AmountUsed(th, T, l)
         /\ \/ AmountUsed(th, T, l) = 0
            \/ \E m \in Methods : AmountUsed(th, T, l) = SumsFor(th, T, n)[m]
<1> DEFINE f == SumsFor(th, T, n)
           amount == AmountUsed(th, T, l)
           sums == {SumFunctionOnSet(RequestsFor(th, T, n, m), 0 .. n - 1) : m \in Methods}
<1>1. amount = Max({0} \cup sums)
  <2>1. \A k : k = l.in_time_windows /\ l.t = "L_REQUESTS_PER_FN" =>
          AmountUsed(th, T, l) =
            Max({0} \cup {SumFunctionOnSet(RequestsFor(th, T, k, m), 0 .. k - 1) : m \in Methods})
    BY AmountIsSum
  <2> QED
    BY <2>1
<1>2. sums = {f[m] : m \in Methods}
  BY DEF SumsFor
<1>3. f \in [Methods -> Nat]
  BY SumsForTyped
<1> HIDE DEF f, sums, amount
<1>4. amount = Max({0} \cup {f[m] : m \in Methods})
  BY <1>1, <1>2
<1>5. /\ amount \in Nat
      /\ \A m \in Methods : f[m] <= amount
      /\ amount = 0 \/ \E m \in Methods : amount = f[m]
  BY <1>3, <1>4, MostRequests
<1> QED
  BY <1>5 DEF f, amount

LEMMA AmountTyped ==
  ASSUME NEW th \in Throttles, NEW T \in Throttle[th], NEW l \in Limiters[th]
  PROVE  AmountUsed(th, T, l) \in Nat
<1>1. PICK n \in Nat : n = l.in_time_windows
  BY LimiterFacts
<1>2. /\ SumFunctionOnSet(RequestsIn(th, T, n), 0 .. n - 1) \in Nat
      /\ SumFunctionOnSet(DataIn(th, T, n), 0 .. n - 1) \in Nat
      /\ SumsFor(th, T, n) \in [Methods -> Nat]
  BY SumsForTyped
<1>3. l.t = "L_REQUESTS" \/ l.t = "L_DATA_RECEIVED" => AmountUsed(th, T, l) \in Nat
  BY <1>1, <1>2, AmountIsSum, ZenonT(60)
<1>4. l.t = "L_REQUESTS_PER_FN" => AmountUsed(th, T, l) \in Nat
  BY <1>1, AmountFor
<1>5. l.t \in LimiterTypes
  BY LimiterFacts
<1> QED
  BY <1>3, <1>4, <1>5 DEF LimiterTypes

-----------------------------------------------------------------------------
(* The verdict                                                             *)

(* The part of a limit used is all of it only if the limit is reached.     *)
LEMMA FullFacts == Full \in Nat \ {0}
BY DEF Full

LEMMA PartOfLimit ==
  ASSUME NEW a \in Nat, NEW max \in Nat \ {0}, a < max
  PROVE  (a * Full) \div max \in Nat /\ (a * Full) \div max < Full
<1>1. PICK full \in Nat \ {0} : full = Full
  BY FullFacts
<1> DEFINE p == (a * full) \div max
<1>2. p \in Nat /\ p * max <= a * full
  <2>1. a * full \in Nat
    OBVIOUS
  <2> QED
    BY <2>1, Division
<1> HIDE DEF p
<1>3. ASSUME p >= full PROVE FALSE
  <2>1. PICK k \in Nat : p = full + k
    <3>1. p - full \in Nat /\ p = full + (p - full)
      BY <1>2, <1>3
    <3> QED
      BY <3>1
  <2>2. PICK j \in Nat : max = a + 1 + j
    <3>1. max - (a + 1) \in Nat /\ max = a + 1 + (max - (a + 1))
      OBVIOUS
    <3> QED
      BY <3>1
  <2>3. p * max = full * max + k * max /\ k * max \in Nat
    BY <2>1
  <2>4. full * max = a * full + full + j * full /\ j * full \in Nat /\ a * full \in Nat
    BY <2>2
  <2> QED
    BY <1>2, <2>3, <2>4
<1>4. p < full
  BY <1>2, <1>3
<1> QED
  BY <1>1, <1>2, <1>4 DEF p

Part(amount, max) == IF amount >= max THEN Full ELSE (amount * Full) \div max

LEMMA PartFacts ==
  ASSUME NEW a \in Nat, NEW max \in Nat \ {0}
  PROVE  /\ Part(a, max) \in 0 .. Full
         /\ Part(a, max) = Full <=> a >= max
         /\ \A b \in Nat : a <= b => Part(a, max) <= Part(b, max)
<1>1. \A b \in Nat : b < max => (b * Full) \div max \in Nat /\ (b * Full) \div max < Full
  BY PartOfLimit
<1>2. \A b \in Nat : Part(b, max) \in 0 .. Full /\ (Part(b, max) = Full <=> b >= max)
  BY <1>1, FullFacts DEF Part
<1>3. ASSUME NEW b \in Nat, a <= b PROVE Part(a, max) <= Part(b, max)
  <2>1. CASE b >= max
    BY <1>2, <2>1
  <2>2. CASE b < max
    <3>1. a * Full \in Nat /\ b * Full \in Nat /\ a * Full <= b * Full
      <4>1. PICK d \in Nat : b = a + d
        <5>1. b - a \in Nat /\ b = a + (b - a)
          BY <1>3
        <5> QED
          BY <5>1
      <4>2. PICK full \in Nat : full = Full
        BY FullFacts
      <4>3. b * full = a * full + d * full /\ d * full \in Nat /\ a * full \in Nat
        BY <4>1
      <4> QED
        BY <4>2, <4>3
    <3>2. (a * Full) \div max <= (b * Full) \div max
      BY <3>1, QuotientMonotone
    <3>3. a < max
      BY <1>3, <2>2
    <3>4. Part(a, max) = (a * Full) \div max /\ Part(b, max) = (b * Full) \div max
      BY <2>2, <3>3 DEF Part
    <3> QED
      BY <3>2, <3>4
  <2> QED
    BY <2>1, <2>2
<1> QED
  BY <1>2, <1>3

LEMMA PercentageFacts ==
  ASSUME NEW th \in Throttles, NEW T \in Throttle[th], NEW l \in Limiters[th]
  PROVE  /\ Percentage(th, T, l) \in 0 .. Full
         /\ Percentage(th, T, l) = Full <=> AmountUsed(th, T, l) >= l.maximum
<1>1. Percentage(th, T, l) = Part(AmountUsed(th, T, l), l.maximum)
  BY DEF Percentage, Part
<1>2. PICK a \in Nat : a = AmountUsed(th, T, l)
  BY AmountTyped
<1>3. PICK max \in Nat \ {0} : max = l.maximum
  BY LimiterFacts
<1>4. Part(a, max) \in 0 .. Full /\ (Part(a, max) = Full <=> a >= max)
  BY PartFacts
<1> QED
  BY <1>1, <1>2, <1>3, <1>4

(* A throttle with limiters judges by the one that is used most.           *)
Used(th, T) == Max({0} \cup {Percentage(th, T, l) : l \in Limiters[th]})

LEMMA UsedFacts ==
  ASSUME NEW th \in Throttles, NEW T \in Throttle[th]
  PROVE  /\ Used(th, T) \in 0 .. Full
         /\ \A l \in Limiters[th] : Percentage(th, T, l) <= Used(th, T)
         /\ \/ Used(th, T) = 0
            \/ \E l \in Limiters[th] : Used(th, T) = Percentage(th, T, l)
<1> DEFINE f == [l \in Limiters[th] |-> Percentage(th, T, l)]
           S == {0} \cup {Percentage(th, T, l) : l \in Limiters[th]}
<1>1. \A l \in Limiters[th] : Percentage(th, T, l) \in 0 .. Full
  BY PercentageFacts
<1>2. IsFiniteSet(S)
  <2>1. IsFiniteSet(Limiters[th])
    BY ThrottleAssumption
  <2>2. IsFiniteSet({f[l] : l \in Limiters[th]})
    <3> HIDE DEF f
    <3> QED
      BY <2>1, ImageFinite
  <2>3. S = {f[l] : l \in Limiters[th]} \cup {0}
    OBVIOUS
  <2> QED
    BY <2>2, <2>3, FS_AddElement
<1>3. S \subseteq 0 .. Full /\ S \subseteq Int /\ S # {}
      /\ \A l \in Limiters[th] : Percentage(th, T, l) \in S
  BY <1>1, FullFacts
<1>4. \A x \in S : x = 0 \/ \E l \in Limiters[th] : x = Percentage(th, T, l)
  OBVIOUS
<1>5. Used(th, T) = Max(S)
  BY DEF Used
<1> HIDE DEF S
<1>6. Max(S) \in S /\ \A y \in S : Max(S) >= y
  BY <1>2, <1>3, MaxOfSet
<1>7. PICK max \in S : max = Used(th, T) /\ \A y \in S : max >= y
  BY <1>5, <1>6
<1>8. max \in 0 .. Full /\ \A l \in Limiters[th] : max >= Percentage(th, T, l)
  BY <1>3, <1>7
<1>9. \A l \in Limiters[th] : Percentage(th, T, l) <= max
  BY <1>1, <1>8
<1>10. max = 0 \/ \E l \in Limiters[th] : max = Percentage(th, T, l)
  BY <1>4, <1>7
<1> QED
  BY <1>7, <1>8, <1>9, <1>10

LEMMA FreshIs ==
  ASSUME NEW th \in Throttles, NEW T
  PROVE  /\ Limiters[th] = {} =>
              /\ ~ FreshScore(th, T).throttled
              /\ FreshScore(th, T).throttled \in BOOLEAN
              /\ FreshScore(th, T).capacity_used = 0
         /\ Limiters[th] # {} =>
              /\ FreshScore(th, T).throttled = (Used(th, T) >= Full)
              /\ FreshScore(th, T).capacity_used = Used(th, T)
              /\ FreshScore(th, T).score = Used(th, T) + ScoreModifier
<1>1. CASE Limiters[th] = {}
  <2>1. \E x : FreshScore(th, T) = [score |-> x, throttled |-> FALSE, capacity_used |-> 0]
    BY <1>1 DEF FreshScore
  <2> QED
    BY <1>1, <2>1
<1>2. CASE Limiters[th] # {}
  <2>1. FreshScore(th, T) = [score |-> Used(th, T) + ScoreModifier,
                             throttled |-> Used(th, T) >= Full, capacity_used |-> Used(th, T)]
    BY <1>2 DEF FreshScore, Used
  <2> QED
    BY <1>2, <2>1
<1> QED
  BY <1>1, <1>2

(* A throttle is throttled if one of its limits is reached.                *)
LEMMA FreshFacts ==
  ASSUME NEW th \in Throttles, NEW T \in Throttle[th]
  PROVE  /\ FreshScore(th, T).throttled \in BOOLEAN
         /\ FreshScore(th, T).throttled <=>
              \E l \in Limiters[th] : AmountUsed(th, T, l) >= l.maximum
         /\ FreshScore(th, T).capacity_used \in 0 .. Full
         /\ FreshScore(th, T).score \in Int
<1>1. Used(th, T) \in 0 .. Full /\ ScoreModifier \in Int
  BY UsedFacts, ThrottleAssumption
<1>2. CASE Limiters[th] = {}
  <2> DEFINE f == [i \in 0 .. ScoreWindows - 1 |->
                     Cell(th, T, i).requests + (Cell(th, T, i).data \div BytesPerPoint)]
  <2>1. FreshScore(th, T).score = ScoreModifier + SumFunction(f)
    BY <1>2 DEF FreshScore, OverWindows, Cell
  <2>2. ScoreWindows \in Nat /\ BytesPerPoint \in Nat \ {0}
    BY ThrottleAssumption
  <2>3. \A i \in 0 .. ScoreWindows - 1 : Cell(th, T, i).requests \in Nat /\ Cell(th, T, i).data \in Nat
    BY CellTyped DEF Window
  <2>4. \A i \in 0 .. ScoreWindows - 1 : Cell(th, T, i).data \div BytesPerPoint \in Nat
    BY <2>2, <2>3, Division
  <2>5. \A i \in 0 .. ScoreWindows - 1 : f[i] \in Int
    BY <2>3, <2>4
  <2>6. DOMAIN f = 0 .. ScoreWindows - 1
    OBVIOUS
  <2> HIDE DEF f
  <2>7. IsFiniteSet(0 .. ScoreWindows - 1)
    BY <2>2, FirstAreFinite
  <2>8. SumFunction(f) \in Int
    BY <2>5, <2>6, <2>7, SumStep DEF SumFunction
  <2> QED
    BY <1>1, <1>2, <2>1, <2>8, FreshIs, FullFacts
<1>3. CASE Limiters[th] # {}
  <2>1. \A l \in Limiters[th] : /\ Percentage(th, T, l) \in 0 .. Full
                                /\ Percentage(th, T, l) = Full <=> AmountUsed(th, T, l) >= l.maximum
    BY PercentageFacts
  <2>2. (Used(th, T) >= Full) <=> \E l \in Limiters[th] : Percentage(th, T, l) = Full
    <3>1. ASSUME Used(th, T) >= Full PROVE \E l \in Limiters[th] : Percentage(th, T, l) = Full
      <4>1. Used(th, T) = Full /\ Full # 0
        BY <1>1, <3>1, FullFacts
      <4> QED
        BY <4>1, UsedFacts
    <3>2. ASSUME NEW l \in Limiters[th], Percentage(th, T, l) = Full PROVE Used(th, T) >= Full
      <4>1. Full <= Used(th, T)
        BY <3>2, UsedFacts
      <4> QED
        BY <1>1, <4>1
    <3> QED
      BY <3>1, <3>2
  <2>3. (Used(th, T) >= Full) <=> \E l \in Limiters[th] : AmountUsed(th, T, l) >= l.maximum
    BY <2>1, <2>2
  <2>4. (Used(th, T) >= Full) \in BOOLEAN
    OBVIOUS
  <2>5. FreshScore(th, T).throttled = (Used(th, T) >= Full)
    BY <1>3, FreshIs
  <2>6. /\ FreshScore(th, T).throttled \in BOOLEAN
        /\ FreshScore(th, T).throttled <=> \E l \in Limiters[th] : AmountUsed(th, T, l) >= l.maximum
    BY <2>3, <2>4, <2>5, Zenon
  <2>7. FreshScore(th, T).capacity_used \in 0 .. Full /\ FreshScore(th, T).score \in Int
    BY <1>1, <1>3, FreshIs
  <2> QED
    BY <2>6, <2>7
<1> QED
  BY <1>2, <1>3

(* When every limiter has more used, the verdict is no milder.             *)
LEMMA FreshMonotone ==
  ASSUME NEW th \in Throttles, NEW T \in Throttle[th], NEW R \in Throttle[th],
         \A l \in Limiters[th] : AmountUsed(th, T, l) <= AmountUsed(th, R, l)
  PROVE  /\ FreshScore(th, T).throttled => FreshScore(th, R).throttled
         /\ FreshScore(th, T).capacity_used <= FreshScore(th, R).capacity_used
<1>1. \A l \in Limiters[th] : /\ AmountUsed(th, T, l) \in Nat /\ AmountUsed(th, R, l) \in Nat
                              /\ l.maximum \in Nat \ {0}
  BY AmountTyped, LimiterFacts
<1>2. FreshScore(th, T).throttled => FreshScore(th, R).throttled
  BY <1>1, FreshFacts
<1>3. \A l \in Limiters[th] : Percentage(th, T, l) <= Percentage(th, R, l)
  <2> TAKE l \in Limiters[th]
  <2>1. /\ Percentage(th, T, l) = Part(AmountUsed(th, T, l), l.maximum)
        /\ Percentage(th, R, l) = Part(AmountUsed(th, R, l), l.maximum)
    BY DEF Percentage, Part
  <2> QED
    BY <1>1, <2>1, PartFacts
<1>4. Used(th, T) <= Used(th, R)
  <2>1. /\ Used(th, T) \in 0 .. Full /\ Used(th, R) \in 0 .. Full
        /\ \A l \in Limiters[th] : Percentage(th, R, l) <= Used(th, R)
        /\ Used(th, T) = 0 \/ \E l \in Limiters[th] : Used(th, T) = Percentage(th, T, l)
    BY UsedFacts
  <2>2. \A l \in Limiters[th] :
          Percentage(th, T, l) \in 0 .. Full /\ Percentage(th, R, l) \in 0 .. Full
    BY PercentageFacts
  <2> QED
    BY <1>3, <2>1, <2>2
<1> QED
  BY <1>2, <1>4, FreshIs

-----------------------------------------------------------------------------
(* What the methods of a throttle do                                       *)

LEMMA ThrottleFields ==
  ASSUME NEW th \in Throttles, NEW T
  PROVE  T \in Throttle[th] <=>
           /\ T = [stats_pos |-> T.stats_pos, stats |-> T.stats, score |-> T.score,
                   throttled |-> T.throttled, capacity_used |-> T.capacity_used]
           /\ T.stats_pos \in Windows(th) /\ T.stats \in [Windows(th) -> Window]
           /\ T.score \in Int /\ T.throttled \in BOOLEAN /\ T.capacity_used \in 0 .. Full
BY DEF Throttle

LEMMA WindowFields ==
  ASSUME NEW w
  PROVE  w \in Window <=>
           /\ w = [requests |-> w.requests, by_fn |-> w.by_fn, data |-> w.data]
           /\ w.requests \in Nat /\ w.by_fn \in [Methods -> Nat] /\ w.data \in Nat
BY DEF Window

(* What is used of a limit depends on the windows alone, and on what it    *)
(* limits.                                                                 *)
LEMMA SameWindows ==
  ASSUME NEW th, NEW T, NEW R, T.stats_pos = R.stats_pos, T.stats = R.stats
  PROVE  /\ \A l : AmountUsed(th, T, l) = AmountUsed(th, R, l)
         /\ FreshScore(th, T) = FreshScore(th, R)
         /\ \A i : Cell(th, T, i) = Cell(th, R, i)
<1>1. \A l : AmountUsed(th, T, l) = AmountUsed(th, R, l)
  BY DEF AmountUsed, OverWindows
<1>2. \A l : Percentage(th, T, l) = Percentage(th, R, l)
  BY <1>1 DEF Percentage
<1>3. FreshScore(th, T) = FreshScore(th, R)
  BY <1>2 DEF FreshScore, OverWindows
<1> QED
  BY <1>1, <1>3 DEF Cell

LEMMA SameRequests ==
  ASSUME NEW th \in Throttles, NEW T \in Throttle[th], NEW R \in Throttle[th],
         T.stats_pos = R.stats_pos,
         \A p \in Windows(th) : /\ T.stats[p].requests = R.stats[p].requests
                                /\ T.stats[p].by_fn = R.stats[p].by_fn,
         NEW l \in Limiters[th], l.t # "L_DATA_RECEIVED"
  PROVE  AmountUsed(th, T, l) = AmountUsed(th, R, l)
<1>1. PICK n \in Nat : n = l.in_time_windows
  BY LimiterFacts
<1>2. \A i \in 0 .. n - 1 : /\ Cell(th, T, i).requests = Cell(th, R, i).requests
                            /\ Cell(th, T, i).by_fn = Cell(th, R, i).by_fn
  BY CellTyped DEF Cell
<1>3. RequestsIn(th, T, n) = RequestsIn(th, R, n)
  BY <1>2 DEF RequestsIn
<1>4. \A m \in Methods : RequestsFor(th, T, n, m) = RequestsFor(th, R, n, m)
  BY <1>2 DEF RequestsFor
<1>5. {SumFunctionOnSet(RequestsFor(th, T, n, m), 0 .. n - 1) : m \in Methods} =
        {SumFunctionOnSet(RequestsFor(th, R, n, m), 0 .. n - 1) : m \in Methods}
  BY <1>4
<1>6. ASSUME l.t = "L_REQUESTS" PROVE AmountUsed(th, T, l) = AmountUsed(th, R, l)
  <2>1. \A Q, k : k = l.in_time_windows =>
          AmountUsed(th, Q, l) = SumFunctionOnSet(RequestsIn(th, Q, k), 0 .. k - 1)
    BY <1>6, AmountIsSum, ZenonT(60)
  <2> QED
    BY <1>1, <1>3, <2>1
<1>7. ASSUME l.t = "L_REQUESTS_PER_FN" PROVE AmountUsed(th, T, l) = AmountUsed(th, R, l)
  <2>1. \A Q, k : k = l.in_time_windows =>
          AmountUsed(th, Q, l) =
            Max({0} \cup {SumFunctionOnSet(RequestsFor(th, Q, k, m), 0 .. k - 1) : m \in Methods})
    BY <1>7, AmountIsSum
  <2>2. /\ AmountUsed(th, T, l) =
             Max({0} \cup {SumFunctionOnSet(RequestsFor(th, T, n, m), 0 .. n - 1) : m \in Methods})
        /\ AmountUsed(th, R, l) =
             Max({0} \cup {SumFunctionOnSet(RequestsFor(th, R, n, m), 0 .. n - 1) : m \in Methods})
    BY <1>1, <2>1
  <2> QED
    BY <1>5, <2>2
<1>8. l.t \in LimiterTypes
  BY LimiterFacts
<1> QED
  BY <1>6, <1>7, <1>8 DEF LimiterTypes

LEMMA MoreData ==
  ASSUME NEW th \in Throttles, NEW T \in Throttle[th], NEW R \in Throttle[th],
         T.stats_pos = R.stats_pos,
         \A p \in Windows(th) : T.stats[p].data <= R.stats[p].data,
         NEW l \in Limiters[th], l.t = "L_DATA_RECEIVED"
  PROVE  AmountUsed(th, T, l) <= AmountUsed(th, R, l)
<1>1. PICK n \in Nat : n = l.in_time_windows
  BY LimiterFacts
<1>2. \A i \in 0 .. n - 1 : Cell(th, T, i).data <= Cell(th, R, i).data
  BY CellTyped DEF Cell
<1>3. \A i \in 0 .. n - 1 : DataIn(th, T, n)[i] <= DataIn(th, R, n)[i]
  BY <1>2 DEF DataIn
<1>4. \A i \in 0 .. n - 1 : DataIn(th, T, n)[i] \in Int /\ DataIn(th, R, n)[i] \in Int
  BY TermsTyped
<1>5. IsFiniteSet(0 .. n - 1)
  BY FirstAreFinite
<1>6. SumFunctionOnSet(DataIn(th, T, n), 0 .. n - 1) <= SumFunctionOnSet(DataIn(th, R, n), 0 .. n - 1)
  BY <1>3, <1>4, <1>5, SumMonotone
<1>7. /\ AmountUsed(th, T, l) = SumFunctionOnSet(DataIn(th, T, n), 0 .. n - 1)
      /\ AmountUsed(th, R, l) = SumFunctionOnSet(DataIn(th, R, n), 0 .. n - 1)
  BY <1>1, DataAmount
<1> QED
  BY <1>6, <1>7

LEMMA UpdateStatusFacts ==
  ASSUME NEW th \in Throttles, NEW T \in Throttle[th], NEW R, R = UpdateStatus(th, T)
  PROVE  /\ R \in Throttle[th] /\ R.stats_pos = T.stats_pos /\ R.stats = T.stats
         /\ R.throttled = FreshScore(th, R).throttled
         /\ R.capacity_used = FreshScore(th, R).capacity_used
         /\ \A l : AmountUsed(th, R, l) = AmountUsed(th, T, l)
<1> DEFINE s == FreshScore(th, T)
<1>1. s.score \in Int /\ s.throttled \in BOOLEAN /\ s.capacity_used \in 0 .. Full
  BY FreshFacts
<1>2. R = [T EXCEPT !.score = s.score, !.throttled = s.throttled,
                    !.capacity_used = s.capacity_used]
  BY DEF UpdateStatus
<1> HIDE DEF s
<1>3. /\ T = [stats_pos |-> T.stats_pos, stats |-> T.stats, score |-> T.score,
              throttled |-> T.throttled, capacity_used |-> T.capacity_used]
      /\ T.stats_pos \in Windows(th) /\ T.stats \in [Windows(th) -> Window]
  BY ThrottleFields
<1>4. R = [stats_pos |-> T.stats_pos, stats |-> T.stats, score |-> s.score,
           throttled |-> s.throttled, capacity_used |-> s.capacity_used]
  BY <1>2, <1>3
<1>5. R \in Throttle[th]
  BY <1>1, <1>3, <1>4, ThrottleFields
<1>6. R.stats_pos = T.stats_pos /\ R.stats = T.stats
  BY <1>4
<1>7. FreshScore(th, R) = s /\ \A l : AmountUsed(th, R, l) = AmountUsed(th, T, l)
  BY <1>6, SameWindows DEF s
<1> QED
  BY <1>4, <1>5, <1>6, <1>7

LEMMA CountFacts ==
  ASSUME NEW th \in Throttles, NEW T \in Throttle[th], NEW m \in Methods, NEW R, R = Count(T, m)
  PROVE  /\ R \in Throttle[th] /\ R.stats_pos = T.stats_pos
         /\ \A p \in Windows(th) :
              /\ R.stats[p].data = T.stats[p].data
              /\ R.stats[p].requests = IF p = T.stats_pos THEN T.stats[p].requests + 1
                                                          ELSE T.stats[p].requests
              /\ \A k \in Methods :
                   R.stats[p].by_fn[k] = IF p = T.stats_pos /\ k = m THEN T.stats[p].by_fn[k] + 1
                                                                    ELSE T.stats[p].by_fn[k]
<1> DEFINE w == T.stats[T.stats_pos]
           v == [requests |-> w.requests + 1, by_fn |-> [w.by_fn EXCEPT ![m] = @ + 1], data |-> w.data]
<1>1. /\ T = [stats_pos |-> T.stats_pos, stats |-> T.stats, score |-> T.score,
              throttled |-> T.throttled, capacity_used |-> T.capacity_used]
      /\ T.stats_pos \in Windows(th) /\ T.stats \in [Windows(th) -> Window]
      /\ T.score \in Int /\ T.throttled \in BOOLEAN /\ T.capacity_used \in 0 .. Full
  BY ThrottleFields
<1>2. /\ w = [requests |-> w.requests, by_fn |-> w.by_fn, data |-> w.data]
      /\ w.requests \in Nat /\ w.by_fn \in [Methods -> Nat] /\ w.data \in Nat
  BY <1>1, WindowFields
<1> DEFINE u == [requests |-> w.requests + 1, by_fn |-> w.by_fn, data |-> w.data]
           A == [T EXCEPT !.stats[T.stats_pos].requests = @ + 1]
<1>3. [w EXCEPT !.requests = @ + 1] = u
  BY <1>2
<1>4. A = [T EXCEPT !.stats = [T.stats EXCEPT ![T.stats_pos] = u]]
  BY <1>1, <1>3
<1>5. R = [A EXCEPT !.stats[T.stats_pos].by_fn[m] = @ + 1]
  BY DEF Count
<1> HIDE DEF A
<1>6. A = [stats_pos |-> T.stats_pos, stats |-> [T.stats EXCEPT ![T.stats_pos] = u], score |-> T.score,
           throttled |-> T.throttled, capacity_used |-> T.capacity_used]
  BY <1>1, <1>4
<1>7. A.stats[T.stats_pos] = u
  BY <1>1, <1>6
<1>8. [u EXCEPT !.by_fn[m] = @ + 1] = v
  BY <1>2
<1>9. R = [A EXCEPT !.stats = [A.stats EXCEPT ![T.stats_pos] = v]]
  BY <1>5, <1>7, <1>8
<1>10. [A.stats EXCEPT ![T.stats_pos] = v] = [T.stats EXCEPT ![T.stats_pos] = v]
  BY <1>1, <1>6
<1>11. R = [T EXCEPT !.stats = [T.stats EXCEPT ![T.stats_pos] = v]]
  BY <1>1, <1>6, <1>9, <1>10
<1>12. v \in Window
  BY <1>2, WindowFields
<1> HIDE DEF v
<1>13. R = [stats_pos |-> T.stats_pos, stats |-> [T.stats EXCEPT ![T.stats_pos] = v],
           score |-> T.score, throttled |-> T.throttled, capacity_used |-> T.capacity_used]
  BY <1>1, <1>11
<1>14. [T.stats EXCEPT ![T.stats_pos] = v] \in [Windows(th) -> Window]
  BY <1>1, <1>12
<1>15. R \in Throttle[th]
  BY <1>1, <1>13, <1>14, ThrottleFields
<1>16. \A p \in Windows(th) : R.stats[p] = IF p = T.stats_pos THEN v ELSE T.stats[p]
  BY <1>1, <1>13
<1>17. /\ v.data = w.data /\ v.requests = w.requests + 1
       /\ \A k \in Methods : v.by_fn[k] = IF k = m THEN w.by_fn[k] + 1 ELSE w.by_fn[k]
  BY <1>2 DEF v
<1> QED
  BY <1>13, <1>15, <1>16, <1>17

LEMMA ReceiveFacts ==
  ASSUME NEW th \in Throttles, NEW T \in Throttle[th], NEW b \in Nat, NEW R, R = OnReceive(T, b)
  PROVE  /\ R \in Throttle[th] /\ R.stats_pos = T.stats_pos
         /\ R.throttled = T.throttled /\ R.capacity_used = T.capacity_used
         /\ \A p \in Windows(th) :
              /\ R.stats[p].requests = T.stats[p].requests
              /\ R.stats[p].by_fn = T.stats[p].by_fn
              /\ T.stats[p].data <= R.stats[p].data
<1> DEFINE w == T.stats[T.stats_pos]
           v == [requests |-> w.requests, by_fn |-> w.by_fn, data |-> w.data + b]
<1>1. /\ T = [stats_pos |-> T.stats_pos, stats |-> T.stats, score |-> T.score,
              throttled |-> T.throttled, capacity_used |-> T.capacity_used]
      /\ T.stats_pos \in Windows(th) /\ T.stats \in [Windows(th) -> Window]
      /\ T.score \in Int /\ T.throttled \in BOOLEAN /\ T.capacity_used \in 0 .. Full
  BY ThrottleFields
<1>2. /\ w = [requests |-> w.requests, by_fn |-> w.by_fn, data |-> w.data]
      /\ w.requests \in Nat /\ w.by_fn \in [Methods -> Nat] /\ w.data \in Nat
  BY <1>1, WindowFields
<1>3. [w EXCEPT !.data = @ + b] = v
  BY <1>2
<1>4. R = [T EXCEPT !.stats = [T.stats EXCEPT ![T.stats_pos] = v]]
  BY <1>1, <1>2, <1>3 DEF OnReceive
<1>5. v \in Window
  BY <1>2, WindowFields
<1> HIDE DEF v
<1>6. R = [stats_pos |-> T.stats_pos, stats |-> [T.stats EXCEPT ![T.stats_pos] = v],
           score |-> T.score, throttled |-> T.throttled, capacity_used |-> T.capacity_used]
  BY <1>1, <1>4
<1>7. [T.stats EXCEPT ![T.stats_pos] = v] \in [Windows(th) -> Window]
  BY <1>1, <1>5
<1>8. R \in Throttle[th]
  BY <1>1, <1>6, <1>7, ThrottleFields
<1>9. \A p \in Windows(th) : R.stats[p] = IF p = T.stats_pos THEN v ELSE T.stats[p]
  BY <1>1, <1>6
<1>10. v.data = w.data + b /\ v.requests = w.requests /\ v.by_fn = w.by_fn
  BY DEF v
<1>11. \A p \in Windows(th) : T.stats[p].data \in Nat
  BY <1>1, WindowFields
<1> QED
  BY <1>2, <1>6, <1>8, <1>9, <1>10, <1>11

LEMMA EmptyWindowTyped == EmptyWindow \in Window
BY DEF EmptyWindow, Window

LEMMA MaintenanceFacts ==
  ASSUME NEW th \in Throttles, NEW T \in Throttle[th], NEW ts \in Nat, NEW R,
         R = OnMaintenance(th, T, ts)
  PROVE  LET pos == WindowAt(th, ts) IN
         /\ R \in Throttle[th] /\ R.stats_pos = pos
         /\ pos = T.stats_pos => R = T
         /\ pos # T.stats_pos =>
              /\ \A p \in Windows(th) : R.stats[p] = IF p = pos THEN EmptyWindow ELSE T.stats[p]
              /\ R.throttled = FreshScore(th, R).throttled
              /\ R.capacity_used = FreshScore(th, R).capacity_used
<1> DEFINE pos == WindowAt(th, ts)
           M == [T EXCEPT !.stats_pos = pos, !.stats[pos] = EmptyWindow]
<1>1. /\ T = [stats_pos |-> T.stats_pos, stats |-> T.stats, score |-> T.score,
              throttled |-> T.throttled, capacity_used |-> T.capacity_used]
      /\ T.stats_pos \in Windows(th) /\ T.stats \in [Windows(th) -> Window]
      /\ T.score \in Int /\ T.throttled \in BOOLEAN /\ T.capacity_used \in 0 .. Full
  BY ThrottleFields
<1>2. pos \in Windows(th)
  <2>1. WindowCount[th] \in Nat \ {0} /\ WindowSeconds[th] \in Nat \ {0}
    BY ThrottleAssumption
  <2>2. ts \div WindowSeconds[th] \in Int
    BY <2>1, Division
  <2> QED
    BY <2>1, <2>2, PlaceExists DEF WindowAt, Windows
<1> HIDE DEF pos
<1> DEFINE A == [T EXCEPT !.stats_pos = pos]
<1>3. M = [A EXCEPT !.stats[pos] = EmptyWindow]
  OBVIOUS
<1>4. A = [stats_pos |-> pos, stats |-> T.stats, score |-> T.score,
           throttled |-> T.throttled, capacity_used |-> T.capacity_used]
  BY <1>1
<1> HIDE DEF A, M
<1>5. M = [A EXCEPT !.stats = [A.stats EXCEPT ![pos] = EmptyWindow]]
  BY <1>3
<1>6. A.stats = T.stats
  BY <1>4
<1>7. M = [stats_pos |-> pos, stats |-> [T.stats EXCEPT ![pos] = EmptyWindow],
           score |-> T.score, throttled |-> T.throttled, capacity_used |-> T.capacity_used]
  BY <1>4, <1>5, <1>6
<1>8. [T.stats EXCEPT ![pos] = EmptyWindow] \in [Windows(th) -> Window]
  BY <1>1, <1>2, EmptyWindowTyped
<1>9. R = IF pos = T.stats_pos THEN T ELSE UpdateStatus(th, M)
  BY DEF OnMaintenance, M, pos
<1>10. M \in Throttle[th]
  BY <1>1, <1>2, <1>7, <1>8, ThrottleFields
<1>11. \A p \in Windows(th) : M.stats[p] = IF p = pos THEN EmptyWindow ELSE T.stats[p]
  BY <1>1, <1>7
<1>12. CASE pos = T.stats_pos
  BY <1>9, <1>12 DEF pos
<1>13. CASE pos # T.stats_pos
  <2>1. R = UpdateStatus(th, M)
    BY <1>9, <1>13
  <2>2. /\ R \in Throttle[th] /\ R.stats_pos = pos /\ R.stats = M.stats
        /\ R.throttled = FreshScore(th, R).throttled
        /\ R.capacity_used = FreshScore(th, R).capacity_used
    BY <1>7, <1>10, <2>1, UpdateStatusFacts
  <2> QED
    BY <1>11, <1>13, <2>2 DEF pos
<1> QED
  BY <1>12, <1>13

-----------------------------------------------------------------------------
(* What each operation keeps of one throttle                               *)

LEMMA HorizonFacts ==
  ASSUME NEW th \in Throttles
  PROVE  /\ Horizon(th) \in Nat \ {0}
         /\ \A l \in Limiters[th] : l.in_time_windows <= Horizon(th)
<1> DEFINE f == [l \in Limiters[th] |-> l.in_time_windows]
           S == {1} \cup {l.in_time_windows : l \in Limiters[th]}
<1>1. IsFiniteSet(S)
  <2>1. IsFiniteSet(Limiters[th])
    BY ThrottleAssumption
  <2>2. S = {f[l] : l \in Limiters[th]} \cup {1}
    OBVIOUS
  <2> HIDE DEF f
  <2>3. IsFiniteSet({f[l] : l \in Limiters[th]})
    BY <2>1, ImageFinite
  <2> QED
    BY <2>2, <2>3, FS_AddElement
<1>2. \A l \in Limiters[th] : l.in_time_windows \in Nat /\ l.in_time_windows \in S
  BY LimiterFacts
<1>3. S \subseteq Nat /\ S \subseteq Int /\ 1 \in S
  BY <1>2
<1>4. Horizon(th) = Max(S)
  BY DEF Horizon
<1> HIDE DEF S
<1>5. Max(S) \in S /\ \A y \in S : Max(S) >= y
  BY <1>1, <1>3, MaxOfSet
<1>6. PICK h \in S : h = Horizon(th) /\ \A y \in S : h >= y
  BY <1>4, <1>5
<1>7. h \in Nat \ {0} /\ \A l \in Limiters[th] : l.in_time_windows <= h
  BY <1>2, <1>3, <1>6
<1> QED
  BY <1>6, <1>7

LEMMA AgesFacts ==
  ASSUME NEW th \in Throttles
  PROVE  /\ Ages(th) \subseteq 0 .. WindowCount[th] - 1
         /\ Ages(th) \subseteq 0 .. Horizon(th) - 1
         /\ 0 \in Ages(th)
         /\ \A l \in Limiters[th] : l.in_time_windows <= WindowCount[th] =>
              0 .. l.in_time_windows - 1 \subseteq Ages(th)
<1>1. WindowCount[th] \in Nat \ {0} /\ Horizon(th) \in Nat \ {0}
  BY ThrottleAssumption, HorizonFacts
<1>2. \A l \in Limiters[th] : l.in_time_windows \in Nat /\ l.in_time_windows <= Horizon(th)
  BY LimiterFacts, HorizonFacts
<1> QED
  BY <1>1, <1>2 DEF Ages

(* What is admitted, as sums.                                              *)
Admits(A, n) == [age \in 0 .. n - 1 |-> SumFunction(A[age])]
AdmitsOf(A, n, m) == [age \in 0 .. n - 1 |-> A[age][m]]

LEMMA AdmittedSums ==
  ASSUME NEW n, NEW A
  PROVE  /\ AdmittedIn(A, n) = SumFunctionOnSet(Admits(A, n), 0 .. n - 1)
         /\ \A m : AdmittedOf(A, n, m) = SumFunctionOnSet(AdmitsOf(A, n, m), 0 .. n - 1)
<1>1. DOMAIN Admits(A, n) = 0 .. n - 1 /\ \A m : DOMAIN AdmitsOf(A, n, m) = 0 .. n - 1
  BY DEF Admits, AdmitsOf
<1>2. /\ AdmittedIn(A, n) = SumFunction(Admits(A, n))
      /\ \A m : AdmittedOf(A, n, m) = SumFunction(AdmitsOf(A, n, m))
  BY DEF AdmittedIn, AdmittedOf, Admits, AdmitsOf
<1>3. SumFunction(Admits(A, n)) = SumFunctionOnSet(Admits(A, n), 0 .. n - 1)
  BY <1>1 DEF SumFunction
<1>4. \A m : SumFunction(AdmitsOf(A, n, m)) = SumFunctionOnSet(AdmitsOf(A, n, m), 0 .. n - 1)
  BY <1>1 DEF SumFunction
<1> QED
  BY <1>2, <1>3, <1>4

LEMMA CountedIn ==
  ASSUME NEW C \in [Methods -> Nat]
  PROVE  SumFunction(C) \in Nat /\ SumFunction(C) = SumFunctionOnSet(C, Methods)
<1>1. DOMAIN C = Methods /\ IsFiniteSet(Methods)
  BY ThrottleAssumption
<1>2. SumFunction(C) = SumFunctionOnSet(C, Methods)
  BY <1>1 DEF SumFunction
<1>3. \A m \in Methods : C[m] \in Nat
  OBVIOUS
<1>4. SumFunctionOnSet(C, Methods) \in Nat
  BY <1>1, <1>3, SumOfNaturals
<1> QED
  BY <1>2, <1>4

LEMMA AdmitsTyped ==
  ASSUME NEW th \in Throttles, NEW A \in Counted(th), NEW n \in Nat, n <= Horizon(th)
  PROVE  /\ \A age \in 0 .. n - 1 :
              /\ A[age] \in [Methods -> Nat]
              /\ Admits(A, n)[age] = SumFunction(A[age]) /\ Admits(A, n)[age] \in Nat
              /\ \A m \in Methods : AdmitsOf(A, n, m)[age] = A[age][m] /\ A[age][m] \in Nat
         /\ AdmittedIn(A, n) \in Nat
         /\ \A m \in Methods : AdmittedOf(A, n, m) \in Nat
<1>1. 0 .. n - 1 \subseteq 0 .. Horizon(th) - 1 /\ IsFiniteSet(0 .. n - 1)
  BY HorizonFacts, FirstAreFinite
<1>2. \A age \in 0 .. n - 1 : A[age] \in [Methods -> Nat]
  BY <1>1 DEF Counted
<1>3. \A age \in 0 .. n - 1 :
        /\ Admits(A, n)[age] = SumFunction(A[age]) /\ Admits(A, n)[age] \in Nat
        /\ \A m \in Methods : AdmitsOf(A, n, m)[age] = A[age][m] /\ A[age][m] \in Nat
  BY <1>2, CountedIn DEF Admits, AdmitsOf
<1>4. AdmittedIn(A, n) \in Nat
  BY <1>1, <1>3, AdmittedSums, SumOfNaturals
<1>5. \A m \in Methods : AdmittedOf(A, n, m) \in Nat
  BY <1>1, <1>3, AdmittedSums, SumOfNaturals
<1> QED
  BY <1>2, <1>3, <1>4, <1>5

(* No limiter charges less than what was admitted.                         *)
LEMMA ChargedEnough ==
  ASSUME NEW th \in Throttles, NEW T \in Throttle[th], NEW A \in Counted(th), ChargedIn(th, T, A),
         NEW l \in Limiters[th], NEW n \in Nat, n = l.in_time_windows, n <= WindowCount[th]
  PROVE  /\ AdmittedIn(A, n) \in Nat /\ \A m \in Methods : AdmittedOf(A, n, m) \in Nat
         /\ l.t = "L_REQUESTS" => AdmittedIn(A, n) <= AmountUsed(th, T, l)
         /\ l.t = "L_REQUESTS_PER_FN" =>
              \A m \in Methods : AdmittedOf(A, n, m) <= AmountUsed(th, T, l)
<1> DEFINE f == Admits(A, n)
           g(m) == AdmitsOf(A, n, m)
<1>1. 0 .. n - 1 \subseteq Ages(th) /\ IsFiniteSet(0 .. n - 1)
  BY AgesFacts, FirstAreFinite
<1>2. \A age \in 0 .. n - 1 : A[age] \in [Methods -> Nat]
  BY <1>1, AgesFacts DEF Counted
<1>3. \A age \in 0 .. n - 1 : f[age] \in Nat /\ f[age] <= RequestsIn(th, T, n)[age]
  BY <1>1, <1>2, CountedIn DEF ChargedIn, RequestsIn, Admits
<1>4. \A m \in Methods : \A age \in 0 .. n - 1 :
        g(m)[age] \in Nat /\ g(m)[age] <= RequestsFor(th, T, n, m)[age]
  BY <1>1, <1>2 DEF ChargedIn, RequestsFor, AdmitsOf
<1>5. AdmittedIn(A, n) = SumFunctionOnSet(f, 0 .. n - 1)
      /\ \A m : AdmittedOf(A, n, m) = SumFunctionOnSet(g(m), 0 .. n - 1)
  BY AdmittedSums
<1> HIDE DEF f, g
<1>6. /\ \A i \in 0 .. n - 1 : RequestsIn(th, T, n)[i] \in Nat
      /\ \A m \in Methods : \A i \in 0 .. n - 1 : RequestsFor(th, T, n, m)[i] \in Nat
  BY TermsTyped
<1>7. /\ SumFunctionOnSet(f, 0 .. n - 1) \in Nat
      /\ SumFunctionOnSet(f, 0 .. n - 1) <= SumFunctionOnSet(RequestsIn(th, T, n), 0 .. n - 1)
  BY <1>1, <1>3, <1>6, SumOfNaturals, SumMonotone
<1>8. ASSUME NEW m \in Methods
      PROVE  /\ SumFunctionOnSet(g(m), 0 .. n - 1) \in Nat
             /\ SumFunctionOnSet(g(m), 0 .. n - 1) <=
                  SumFunctionOnSet(RequestsFor(th, T, n, m), 0 .. n - 1)
  BY <1>1, <1>4, <1>6, SumOfNaturals, SumMonotone
<1>9. ASSUME l.t = "L_REQUESTS" PROVE AdmittedIn(A, n) <= AmountUsed(th, T, l)
  <2>1. AmountUsed(th, T, l) = SumFunctionOnSet(RequestsIn(th, T, n), 0 .. n - 1)
    BY <1>9, AmountIsSum, ZenonT(60)
  <2> QED
    BY <1>5, <1>7, <2>1
<1>10. ASSUME l.t = "L_REQUESTS_PER_FN", NEW m \in Methods
       PROVE  AdmittedOf(A, n, m) <= AmountUsed(th, T, l)
  <2>1. SumsFor(th, T, n)[m] <= AmountUsed(th, T, l) /\ AmountUsed(th, T, l) \in Nat
    BY <1>10, AmountFor
  <2>2. SumsFor(th, T, n)[m] = SumFunctionOnSet(RequestsFor(th, T, n, m), 0 .. n - 1)
    BY DEF SumsFor
  <2>3. SumsFor(th, T, n)[m] \in Nat
    BY SumsForTyped
  <2> QED
    BY <1>5, <1>8, <2>1, <2>2, <2>3
<1> QED
  BY <1>5, <1>7, <1>8, <1>9, <1>10

(* One more admission in the current window.                               *)
OneMore(A, m) == [A EXCEPT ![0][m] = @ + 1]

LEMMA OneMoreAdmitted ==
  ASSUME NEW th \in Throttles, NEW A \in Counted(th), NEW m \in Methods,
         NEW B, B = OneMore(A, m)
  PROVE  /\ B \in Counted(th)
         /\ \A age \in 0 .. Horizon(th) - 1 :
              /\ SumFunction(B[age]) = IF age = 0 THEN SumFunction(A[age]) + 1 ELSE SumFunction(A[age])
              /\ \A k \in Methods : B[age][k] = IF age = 0 /\ k = m THEN A[age][k] + 1 ELSE A[age][k]
<1>1. Horizon(th) \in Nat \ {0} /\ 0 \in 0 .. Horizon(th) - 1
  BY HorizonFacts
<1>2. B = [A EXCEPT ![0] = [A[0] EXCEPT ![m] = @ + 1]]
  BY <1>1 DEF Counted, OneMore
<1> DEFINE C == [A[0] EXCEPT ![m] = @ + 1]
<1>3. A[0] \in [Methods -> Nat] /\ C \in [Methods -> Nat]
  BY <1>1 DEF Counted
<1>4. \A k \in Methods : C[k] = IF k = m THEN A[0][k] + 1 ELSE A[0][k]
  BY <1>3
<1> HIDE DEF C
<1>5. SumFunction(C) = SumFunction(A[0]) + 1
  <2>1. \A k \in Methods : A[0][k] \in Int
    BY <1>3
  <2>2. IsFiniteSet(Methods) /\ 1 \in Int
    BY ThrottleAssumption
  <2>3. SumFunctionOnSet(C, Methods) = SumFunctionOnSet(A[0], Methods) + 1
    BY <1>4, <2>1, <2>2, SumOneMore
  <2> QED
    BY <1>3, <2>3, CountedIn
<1>6. B = [A EXCEPT ![0] = C]
  BY <1>2 DEF C
<1>7. B \in Counted(th)
  BY <1>3, <1>6 DEF Counted
<1>8. \A age \in 0 .. Horizon(th) - 1 : B[age] = IF age = 0 THEN C ELSE A[age]
  BY <1>6 DEF Counted
<1>9. B[0] = C /\ \A age \in 0 .. Horizon(th) - 1 : age # 0 => B[age] = A[age]
  BY <1>1, <1>8
<1>10. ASSUME NEW age \in 0 .. Horizon(th) - 1
       PROVE  /\ SumFunction(B[age]) = IF age = 0 THEN SumFunction(A[age]) + 1 ELSE SumFunction(A[age])
              /\ \A k \in Methods : B[age][k] = IF age = 0 /\ k = m THEN A[age][k] + 1 ELSE A[age][k]
  <2>1. CASE age = 0
    BY <1>4, <1>5, <1>9, <2>1
  <2>2. CASE age # 0
    BY <1>9, <2>2
  <2> QED
    BY <2>1, <2>2
<1> QED
  BY <1>7, <1>10

LEMMA OneMoreInSums ==
  ASSUME NEW th \in Throttles, NEW A \in Counted(th), NEW m \in Methods,
         NEW B, B = OneMore(A, m), NEW n \in Nat, n <= Horizon(th)
  PROVE  /\ AdmittedIn(B, n) <= AdmittedIn(A, n) + 1
         /\ \A k \in Methods : AdmittedOf(B, n, k) <= AdmittedOf(A, n, k) + 1
<1> DEFINE S == 0 .. n - 1
<1>1. B \in Counted(th)
  BY OneMoreAdmitted
<1>2. S \subseteq 0 .. Horizon(th) - 1 /\ IsFiniteSet(S)
  BY HorizonFacts, FirstAreFinite
<1>3. \A Q \in Counted(th) :
        /\ \A age \in S : /\ Admits(Q, n)[age] = SumFunction(Q[age]) /\ Admits(Q, n)[age] \in Int
                          /\ \A k \in Methods : AdmitsOf(Q, n, k)[age] = Q[age][k] /\ Q[age][k] \in Int
        /\ AdmittedIn(Q, n) \in Nat /\ \A k \in Methods : AdmittedOf(Q, n, k) \in Nat
  BY AdmitsTyped
<1>4. \A Q : /\ AdmittedIn(Q, n) = SumFunctionOnSet(Admits(Q, n), S)
             /\ \A k : AdmittedOf(Q, n, k) = SumFunctionOnSet(AdmitsOf(Q, n, k), S)
  BY AdmittedSums
<1>5. (n = 0 => S = {}) /\ (n # 0 => 0 \in S)
  OBVIOUS
<1>6. \A age \in S :
        /\ SumFunction(B[age]) = IF age = 0 THEN SumFunction(A[age]) + 1 ELSE SumFunction(A[age])
        /\ \A k \in Methods : B[age][k] = IF age = 0 /\ k = m THEN A[age][k] + 1 ELSE A[age][k]
  BY <1>2, OneMoreAdmitted
<1> HIDE DEF S
<1>7. IsFiniteSet(S)
  BY <1>2
<1>8. AdmittedIn(A, n) \in Nat /\ \A k \in Methods : AdmittedOf(A, n, k) \in Nat
  BY <1>3
<1>9. CASE n = 0
  <2>1. AdmittedIn(A, n) = 0 /\ AdmittedIn(B, n) = 0
    BY <1>4, <1>5, <1>9, SumOfNothing
  <2>2. \A k : AdmittedOf(A, n, k) = 0 /\ AdmittedOf(B, n, k) = 0
    BY <1>4, <1>5, <1>9, SumOfNothing
  <2> QED
    BY <2>1, <2>2
<1>10. CASE n # 0
  <2>1. PICK now \in S : now = 0
    BY <1>5, <1>10
  <2>2. AdmittedIn(B, n) = AdmittedIn(A, n) + 1
    <3>1. \A age \in S : Admits(B, n)[age] = IF age = now THEN Admits(A, n)[age] + 1 ELSE Admits(A, n)[age]
      BY <1>1, <1>3, <1>6, <2>1
    <3>2. \A age \in S : Admits(A, n)[age] \in Int
      BY <1>3
    <3>3. SumFunctionOnSet(Admits(B, n), S) = SumFunctionOnSet(Admits(A, n), S) + 1
      <4>1. PICK one \in Int : one = 1
        OBVIOUS
      <4>2. PICK f, g : f = Admits(A, n) /\ g = Admits(B, n)
        OBVIOUS
      <4>3. /\ \A age \in S : f[age] \in Int
            /\ \A age \in S : g[age] = IF age = now THEN f[age] + one ELSE f[age]
        BY <3>1, <3>2, <4>1, <4>2
      <4>4. SumFunctionOnSet(g, S) = SumFunctionOnSet(f, S) + one
        BY <1>7, <4>3, SumOneMore, SMTT(30)
      <4> QED
        BY <4>1, <4>4, <4>2
    <3> QED
      BY <1>4, <3>3
  <2>3. ASSUME NEW k \in Methods PROVE AdmittedOf(B, n, k) <= AdmittedOf(A, n, k) + 1
    <3>1. PICK d \in Int : d = (IF k = m THEN 1 ELSE 0) /\ d <= 1
      OBVIOUS
    <3>2. \A age \in S : AdmitsOf(B, n, k)[age] =
                           IF age = now THEN AdmitsOf(A, n, k)[age] + d ELSE AdmitsOf(A, n, k)[age]
      BY <1>1, <1>3, <1>6, <2>1, <3>1
    <3>3. \A age \in S : AdmitsOf(A, n, k)[age] \in Int
      BY <1>3
    <3>4. SumFunctionOnSet(AdmitsOf(B, n, k), S) = SumFunctionOnSet(AdmitsOf(A, n, k), S) + d
      <4>1. PICK f, g : f = AdmitsOf(A, n, k) /\ g = AdmitsOf(B, n, k)
        OBVIOUS
      <4>2. /\ \A age \in S : f[age] \in Int
            /\ \A age \in S : g[age] = IF age = now THEN f[age] + d ELSE f[age]
        BY <3>2, <3>3, <4>1
      <4>3. SumFunctionOnSet(g, S) = SumFunctionOnSet(f, S) + d
        BY <1>7, <4>2, SumOneMore, SMTT(30)
      <4> QED
        BY <4>1, <4>3
    <3>5. AdmittedOf(B, n, k) = AdmittedOf(A, n, k) + d
      BY <1>4, <3>4
    <3> QED
      BY <1>8, <3>1, <3>5
  <2>4. AdmittedIn(B, n) <= AdmittedIn(A, n) + 1
    BY <1>8, <2>2
  <2> QED
    BY <2>3, <2>4
<1> QED
  BY <1>9, <1>10

(* The window that counts is the one of age 0.                             *)
LEMMA CurrentCell ==
  ASSUME NEW th \in Throttles, NEW T \in Throttle[th], NEW age \in Ages(th)
  PROVE  /\ (T.stats_pos - age) % WindowCount[th] \in Windows(th)
         /\ (T.stats_pos - age) % WindowCount[th] = T.stats_pos <=> age = 0
<1>1. WindowCount[th] \in Nat \ {0}
  BY ThrottleAssumption
<1>2. PICK n \in Nat \ {0} : n = WindowCount[th]
  BY <1>1
<1>3. PICK pos \in 0 .. n - 1 : pos = T.stats_pos
  BY <1>2, ThrottleFields DEF Windows
<1>4. age \in 0 .. n - 1 /\ 0 \in 0 .. n - 1
  BY <1>2, AgesFacts
<1>5. (pos - 0) % n = pos
  BY <1>2, PlaceItself
<1>6. (pos - age) % n = (pos - 0) % n => age = 0
  BY <1>4, PlacesApart
<1>7. (pos - age) % n \in 0 .. n - 1
  <2>1. pos - age \in Int
    BY <1>4
  <2> QED
    BY <2>1, PlaceExists
<1> QED
  BY <1>2, <1>3, <1>5, <1>6, <1>7 DEF Windows

LEMMA RequestKeeps ==
  ASSUME NEW th \in Throttles, NEW T \in Throttle[th], NEW A \in Counted(th), NEW m \in Methods,
         ~ T.throttled, ChargedIn(th, T, A), RoomIn(th, T), KeptIn(th, A),
         NEW R, R = OnRequest(th, T, m), NEW B, B = OneMore(A, m)
  PROVE  /\ R \in Throttle[th] /\ R.stats_pos = T.stats_pos /\ B \in Counted(th)
         /\ ChargedIn(th, R, B) /\ RoomIn(th, R) /\ MildIn(th, R) /\ KeptIn(th, B)
         /\ DataExhausted(th, T) => R.throttled
<1> DEFINE N == Count(T, m)
<1>1. R = UpdateStatus(th, N)
  BY DEF OnRequest
<1>2. /\ N \in Throttle[th] /\ N.stats_pos = T.stats_pos
      /\ \A p \in Windows(th) :
           /\ N.stats[p].data = T.stats[p].data
           /\ N.stats[p].requests = IF p = T.stats_pos THEN T.stats[p].requests + 1
                                                       ELSE T.stats[p].requests
           /\ \A k \in Methods :
                N.stats[p].by_fn[k] = IF p = T.stats_pos /\ k = m THEN T.stats[p].by_fn[k] + 1
                                                                 ELSE T.stats[p].by_fn[k]
  BY CountFacts
<1> HIDE DEF N
<1>3. /\ R \in Throttle[th] /\ R.stats_pos = N.stats_pos /\ R.stats = N.stats
      /\ R.throttled = FreshScore(th, R).throttled
      /\ R.capacity_used = FreshScore(th, R).capacity_used
      /\ \A l : AmountUsed(th, R, l) = AmountUsed(th, N, l)
  BY <1>1, <1>2, UpdateStatusFacts
<1>4. /\ B \in Counted(th)
      /\ \A age \in 0 .. Horizon(th) - 1 :
           /\ SumFunction(B[age]) = IF age = 0 THEN SumFunction(A[age]) + 1 ELSE SumFunction(A[age])
           /\ \A k \in Methods : B[age][k] = IF age = 0 /\ k = m THEN A[age][k] + 1 ELSE A[age][k]
  BY OneMoreAdmitted
<1>5. ChargedIn(th, R, B)
  <2> SUFFICES ASSUME NEW age \in Ages(th)
               PROVE  /\ SumFunction(B[age]) <= Cell(th, R, age).requests
                      /\ \A k \in Methods : B[age][k] <= Cell(th, R, age).by_fn[k]
    BY DEF ChargedIn
  <2> DEFINE p == (T.stats_pos - age) % WindowCount[th]
  <2>1. p \in Windows(th) /\ (p = T.stats_pos <=> age = 0)
    BY CurrentCell
  <2>2. Cell(th, T, age) = T.stats[p] /\ Cell(th, R, age) = N.stats[p]
    BY <1>2, <1>3 DEF Cell
  <2> HIDE DEF p
  <2>3. /\ SumFunction(A[age]) <= T.stats[p].requests
        /\ \A k \in Methods : A[age][k] <= T.stats[p].by_fn[k]
    BY <2>2 DEF ChargedIn
  <2>4. T.stats[p] \in Window
    BY <2>1, ThrottleFields
  <2>5. T.stats[p].requests \in Nat /\ \A k \in Methods : T.stats[p].by_fn[k] \in Nat
    BY <2>4 DEF Window
  <2>6. age \in 0 .. Horizon(th) - 1
    BY AgesFacts
  <2>7. A[age] \in [Methods -> Nat]
    BY <2>6 DEF Counted
  <2>8. SumFunction(A[age]) \in Nat /\ \A k \in Methods : A[age][k] \in Nat
    BY <2>7, CountedIn
  <2>9. SumFunction(B[age]) <= N.stats[p].requests
    BY <1>2, <1>4, <2>1, <2>3, <2>5, <2>6, <2>8
  <2>10. \A k \in Methods : B[age][k] <= N.stats[p].by_fn[k]
    BY <1>2, <1>4, <2>1, <2>3, <2>5, <2>6, <2>8
  <2> QED
    BY <2>2, <2>9, <2>10
<1>6. \A l \in Limiters[th] : /\ AmountUsed(th, R, l) \in Nat /\ AmountUsed(th, T, l) \in Nat
                              /\ l.maximum \in Nat \ {0}
  BY <1>3, AmountTyped, LimiterFacts
<1>7. R.throttled <=> \E l \in Limiters[th] : AmountUsed(th, R, l) >= l.maximum
  BY <1>3, FreshFacts
<1>8. RoomIn(th, R)
  BY <1>6, <1>7 DEF RoomIn
<1>9. MildIn(th, R)
  BY <1>3, FreshFacts DEF MildIn
<1>10. KeptIn(th, B)
  <2> SUFFICES ASSUME NEW l \in Limiters[th], l.in_time_windows <= WindowCount[th]
               PROVE  /\ l.t = "L_REQUESTS" => AdmittedIn(B, l.in_time_windows) <= l.maximum
                      /\ l.t = "L_REQUESTS_PER_FN" =>
                           \A k \in Methods : AdmittedOf(B, l.in_time_windows, k) <= l.maximum
    BY DEF KeptIn
  <2>1. PICK n \in Nat : n = l.in_time_windows
    BY LimiterFacts
  <2>2. /\ AdmittedIn(A, n) \in Nat /\ \A k \in Methods : AdmittedOf(A, n, k) \in Nat
        /\ l.t = "L_REQUESTS" => AdmittedIn(A, n) <= AmountUsed(th, T, l)
        /\ l.t = "L_REQUESTS_PER_FN" => \A k \in Methods : AdmittedOf(A, n, k) <= AmountUsed(th, T, l)
    BY <2>1, ChargedEnough
  <2>3. n <= Horizon(th)
    BY <2>1, HorizonFacts
  <2>4. /\ AdmittedIn(B, n) <= AdmittedIn(A, n) + 1 /\ AdmittedIn(B, n) \in Nat
        /\ \A k \in Methods : /\ AdmittedOf(B, n, k) <= AdmittedOf(A, n, k) + 1
                               /\ AdmittedOf(B, n, k) \in Nat
    BY <1>4, <2>3, OneMoreInSums, AdmitsTyped
  <2>5. l.t # "L_DATA_RECEIVED" => AmountUsed(th, T, l) < l.maximum
    BY DEF RoomIn
  <2>6. AmountUsed(th, T, l) \in Nat /\ l.maximum \in Nat
    BY <1>6
  <2>7. ASSUME l.t = "L_REQUESTS" PROVE AdmittedIn(B, n) <= l.maximum
    BY <2>2, <2>4, <2>5, <2>6, <2>7
  <2>8. ASSUME l.t = "L_REQUESTS_PER_FN", NEW k \in Methods PROVE AdmittedOf(B, n, k) <= l.maximum
    BY <2>2, <2>4, <2>5, <2>6, <2>8
  <2> QED
    BY <2>1, <2>7, <2>8
<1>11. ASSUME DataExhausted(th, T) PROVE R.throttled
  <2>1. PICK l \in Limiters[th] : l.t = "L_DATA_RECEIVED" /\ AmountUsed(th, T, l) >= l.maximum
    BY <1>11 DEF DataExhausted
  <2>2. \A p \in Windows(th) : T.stats[p].data <= N.stats[p].data
    <3>1. \A p \in Windows(th) : T.stats[p].data \in Nat
      BY ThrottleFields, WindowFields
    <3> QED
      BY <1>2, <3>1
  <2>3. AmountUsed(th, T, l) <= AmountUsed(th, N, l)
    BY <1>2, <2>1, <2>2, MoreData
  <2> QED
    BY <1>3, <1>6, <1>7, <2>1, <2>3
<1> QED
  BY <1>2, <1>3, <1>4, <1>5, <1>8, <1>9, <1>10, <1>11

LEMMA ReceiveKeeps ==
  ASSUME NEW th \in Throttles, NEW T \in Throttle[th], NEW A \in Counted(th), NEW b \in Nat,
         ChargedIn(th, T, A), RoomIn(th, T), MildIn(th, T),
         NEW R, R = OnReceive(T, b)
  PROVE  /\ R \in Throttle[th] /\ R.stats_pos = T.stats_pos /\ R.throttled = T.throttled
         /\ ChargedIn(th, R, A) /\ RoomIn(th, R) /\ MildIn(th, R)
<1>1. /\ R \in Throttle[th] /\ R.stats_pos = T.stats_pos
      /\ R.throttled = T.throttled /\ R.capacity_used = T.capacity_used
      /\ \A p \in Windows(th) :
           /\ R.stats[p].requests = T.stats[p].requests
           /\ R.stats[p].by_fn = T.stats[p].by_fn
           /\ T.stats[p].data <= R.stats[p].data
  BY ReceiveFacts
<1>2. \A age \in Ages(th) : /\ Cell(th, R, age).requests = Cell(th, T, age).requests
                            /\ Cell(th, R, age).by_fn = Cell(th, T, age).by_fn
  BY <1>1, CurrentCell DEF Cell
<1>3. ChargedIn(th, R, A)
  BY <1>2 DEF ChargedIn
<1>4. \A l \in Limiters[th] :
        l.t # "L_DATA_RECEIVED" => AmountUsed(th, T, l) = AmountUsed(th, R, l)
  BY <1>1, SameRequests
<1>5. RoomIn(th, R)
  BY <1>1, <1>4 DEF RoomIn
<1>6. \A l \in Limiters[th] : AmountUsed(th, T, l) <= AmountUsed(th, R, l)
  <2> TAKE l \in Limiters[th]
  <2>1. AmountUsed(th, T, l) \in Nat /\ AmountUsed(th, R, l) \in Nat
    BY <1>1, AmountTyped
  <2>2. CASE l.t = "L_DATA_RECEIVED"
    BY <1>1, <2>2, MoreData
  <2>3. CASE l.t # "L_DATA_RECEIVED"
    BY <1>4, <2>1, <2>3
  <2> QED
    BY <2>2, <2>3
<1>7. /\ FreshScore(th, T).throttled => FreshScore(th, R).throttled
      /\ FreshScore(th, T).capacity_used <= FreshScore(th, R).capacity_used
  BY <1>1, <1>6, FreshMonotone
<1>8. /\ FreshScore(th, T).throttled \in BOOLEAN /\ FreshScore(th, T).capacity_used \in 0 .. Full
      /\ FreshScore(th, R).throttled \in BOOLEAN /\ FreshScore(th, R).capacity_used \in 0 .. Full
      /\ T.capacity_used \in 0 .. Full /\ T.throttled \in BOOLEAN
  BY <1>1, FreshFacts, ThrottleFields
<1>9. (\A l \in Limiters[th] : l.t # "L_DATA_RECEIVED") =>
        (FreshScore(th, R).throttled => FreshScore(th, T).throttled)
  <2>1. HAVE \A l \in Limiters[th] : l.t # "L_DATA_RECEIVED"
  <2>2. \A l \in Limiters[th] : AmountUsed(th, R, l) <= AmountUsed(th, T, l)
    <3> TAKE l \in Limiters[th]
    <3>1. AmountUsed(th, T, l) \in Nat /\ AmountUsed(th, T, l) = AmountUsed(th, R, l)
      BY <1>4, <2>1, AmountTyped
    <3> QED
      BY <3>1
  <2> QED
    BY <1>1, <2>2, FreshMonotone
<1>10. MildIn(th, R)
  <2>1. T.capacity_used <= FreshScore(th, T).capacity_used
    BY DEF MildIn
  <2>2. R.capacity_used <= FreshScore(th, R).capacity_used
    BY <1>1, <1>7, <1>8, <2>1, FullFacts
  <2>3. /\ T.throttled => FreshScore(th, T).throttled
        /\ (\A l \in Limiters[th] : l.t # "L_DATA_RECEIVED") =>
             T.throttled = FreshScore(th, T).throttled
    BY DEF MildIn
  <2>4. /\ R.throttled => FreshScore(th, R).throttled
        /\ (\A l \in Limiters[th] : l.t # "L_DATA_RECEIVED") =>
             R.throttled = FreshScore(th, R).throttled
    BY <1>1, <1>7, <1>8, <1>9, <2>3
  <2> QED
    BY <2>2, <2>4 DEF MildIn
<1> QED
  BY <1>1, <1>3, <1>5, <1>10

(* How far a ring turns: the position is that of the time, though the time *)
(* starts again at Cycle.                                                  *)
Turned(th, from, to) ==
  ((to \div WindowSeconds[th]) - (from \div WindowSeconds[th])) % (Cycle \div WindowSeconds[th])

LEMMA TurnFacts ==
  ASSUME NEW th \in Throttles, NEW from \in Seconds, NEW to \in Seconds,
         NEW k, k = Turned(th, from, to)
  PROVE  /\ k \in Nat
         /\ WindowAt(th, from) \in Windows(th) /\ WindowAt(th, to) \in Windows(th)
         /\ WindowAt(th, to) = (WindowAt(th, from) + k) % WindowCount[th]
<1>1. PICK n \in Nat \ {0}, ws \in Nat \ {0} : n = WindowCount[th] /\ ws = WindowSeconds[th]
  BY ThrottleAssumption
<1>2. PICK c \in Nat \ {0} : Cycle = c
  BY CycleAssumption
<1>3. from \in Nat /\ to \in Nat
  BY <1>2 DEF Seconds
<1>4. PICK a \in Nat, z \in Nat : a = from \div ws /\ z = to \div ws
  BY <1>3, Division
<1>5. PICK q \in Nat \ {0} : c \div ws = q * n
  <2>1. c % (n * ws) = 0
    BY <1>1, <1>2, GroupAssumption
  <2>2. PICK p \in Nat \ {0} : p = n * ws
    <3>1. n * ws \in Nat \ {0}
      OBVIOUS
    <3> QED
      BY <3>1
  <2>3. c \in Int
    OBVIOUS
  <2>4. PICK q \in Int : c = q * p + (c % p)
    BY <2>3, PlaceExists
  <2>5. c = q * p
    BY <2>1, <2>2, <2>4
  <2>6. q > 0
    <3>1. q <= 0 => q * p <= 0
      <4>1. HAVE q <= 0
      <4>2. PICK j \in Nat : j = -q
        <5>1. -q \in Nat
          BY <4>1
        <5> QED
          BY <5>1
      <4>3. j * p \in Nat
        OBVIOUS
      <4>4. q * p = -(j * p)
        BY <4>2
      <4> QED
        BY <4>3, <4>4
    <3> QED
      BY <2>5, <3>1
  <2>7. q \in Nat \ {0}
    BY <2>6
  <2>8. c = (q * n) * ws
    <3>1. q * (n * ws) = (q * n) * ws
      OBVIOUS
    <3> QED
      BY <2>2, <2>5, <3>1
  <2>9. c \div ws = q * n
    <3>1. PICK x \in Nat : x = q * n
      BY <2>7
    <3>2. c = x * ws
      BY <2>8, <3>1
    <3>3. (x * ws) \div ws = x
      OBVIOUS
    <3> QED
      BY <3>1, <3>2, <3>3
  <2> QED
    BY <2>7, <2>9
<1>6. PICK w \in Nat \ {0} : w = q * n
  <2>1. q * n \in Nat \ {0}
    OBVIOUS
  <2> QED
    BY <2>1
<1>7. k = (z - a) % w
  BY <1>1, <1>2, <1>4, <1>5, <1>6 DEF Turned
<1>8. z - a \in Int
  BY <1>4
<1>9. k \in 0 .. w - 1 /\ \E y \in Int : z - a = y * w + k
  BY <1>7, <1>8, PlaceExists
<1>10. PICK y \in Int : z - a = y * w + k
  BY <1>9
<1>11. k \in Nat
  BY <1>6, <1>9
<1>12. z = (a + k) + (y * q) * n
  <2>1. y * w = (y * q) * n
    BY <1>6
  <2>2. y * w \in Int
    OBVIOUS
  <2> QED
    BY <1>4, <1>10, <1>11, <2>1, <2>2
<1>13. z % n = (a + k) % n
  <2>1. a + k \in Int /\ y * q \in Int /\ z \in Int
    BY <1>4, <1>11
  <2>2. PICK t \in Int : t = y * q
    BY <2>1
  <2>3. z = (a + k) + t * n
    BY <1>12, <2>2
  <2> QED
    BY <2>1, <2>3, PlaceTurns
<1>14. ((a % n) + k) % n = (a + k) % n
  <2>1. a \in Int /\ k \in Int
    BY <1>11
  <2> QED
    BY <2>1, PlaceSteps
<1>15. a % n \in 0 .. n - 1 /\ z % n \in 0 .. n - 1
  <2>1. a \in Int /\ z \in Int
    OBVIOUS
  <2> QED
    BY <2>1, PlaceExists
<1>16. WindowAt(th, from) = a % n /\ WindowAt(th, to) = z % n
  BY <1>1, <1>4 DEF WindowAt
<1> QED
  BY <1>1, <1>11, <1>13, <1>14, <1>15, <1>16 DEF Windows

(* What the ghost of admissions becomes when k windows have passed.        *)
Aged(th, A, k) ==
  [age \in 0 .. Horizon(th) - 1 |-> IF age >= k THEN A[age - k] ELSE NothingAdmitted]

LEMMA AgedFacts ==
  ASSUME NEW th \in Throttles, NEW A \in Counted(th), NEW k \in Nat, NEW B, B = Aged(th, A, k)
  PROVE  /\ B \in Counted(th)
         /\ \A age \in 0 .. Horizon(th) - 1 :
              /\ age >= k => age - k \in 0 .. Horizon(th) - 1 /\ B[age] = A[age - k]
              /\ age < k => B[age] = NothingAdmitted
         /\ SumFunction(NothingAdmitted) = 0 /\ \A m \in Methods : NothingAdmitted[m] = 0
<1>1. Horizon(th) \in Nat \ {0}
  BY HorizonFacts
<1>2. NothingAdmitted \in [Methods -> Nat] /\ \A m \in Methods : NothingAdmitted[m] = 0
  BY DEF NothingAdmitted
<1>3. \A age \in 0 .. Horizon(th) - 1 : age >= k => age - k \in 0 .. Horizon(th) - 1
  BY <1>1
<1>4. \A age \in 0 .. Horizon(th) - 1 :
        B[age] = IF age >= k THEN A[age - k] ELSE NothingAdmitted
  BY DEF Aged
<1>5. \A age \in 0 .. Horizon(th) - 1 : B[age] \in [Methods -> Nat]
  <2> TAKE age \in 0 .. Horizon(th) - 1
  <2>1. CASE age >= k
    BY <1>3, <1>4, <2>1 DEF Counted
  <2>2. CASE ~ (age >= k)
    BY <1>2, <1>4, <2>2
  <2> QED
    BY <2>1, <2>2
<1>6. B \in Counted(th)
  <2>1. B = [age \in 0 .. Horizon(th) - 1 |-> B[age]]
    BY DEF Aged
  <2> QED
    BY <1>5, <2>1 DEF Counted
<1>7. SumFunction(NothingAdmitted) = 0
  <2>1. SumFunctionOnSet(NothingAdmitted, Methods) = 0
    BY <1>2, ThrottleAssumption, SumOfZeros
  <2> QED
    BY <1>2, <2>1, CountedIn
<1>8. \A age \in 0 .. Horizon(th) - 1 : age < k => ~ (age >= k)
  BY <1>1
<1> QED
  BY <1>2, <1>3, <1>4, <1>6, <1>7, <1>8

LEMMA AgedSums ==
  ASSUME NEW th \in Throttles, NEW A \in Counted(th), NEW k \in Nat, NEW B, B = Aged(th, A, k),
         NEW n \in Nat, n <= Horizon(th)
  PROVE  /\ AdmittedIn(B, n) <= AdmittedIn(A, n)
         /\ \A m \in Methods : AdmittedOf(B, n, m) <= AdmittedOf(A, n, m)
<1>1. /\ B \in Counted(th)
      /\ \A age \in 0 .. Horizon(th) - 1 :
           /\ age >= k => age - k \in 0 .. Horizon(th) - 1 /\ B[age] = A[age - k]
           /\ age < k => B[age] = NothingAdmitted
      /\ SumFunction(NothingAdmitted) = 0 /\ \A m \in Methods : NothingAdmitted[m] = 0
  BY AgedFacts
<1>2. \A Q \in Counted(th) :
        /\ \A age \in 0 .. n - 1 :
             /\ Admits(Q, n)[age] = SumFunction(Q[age]) /\ Admits(Q, n)[age] \in Nat
             /\ \A m \in Methods : AdmitsOf(Q, n, m)[age] = Q[age][m] /\ Q[age][m] \in Nat
  BY AdmitsTyped
<1>3. \A Q : /\ AdmittedIn(Q, n) = SumFunctionOnSet(Admits(Q, n), 0 .. n - 1)
             /\ \A m : AdmittedOf(Q, n, m) = SumFunctionOnSet(AdmitsOf(Q, n, m), 0 .. n - 1)
  BY AdmittedSums
<1>4. \A age \in 0 .. n - 1 : /\ age \in 0 .. Horizon(th) - 1
                              /\ age >= k => age - k \in 0 .. n - 1
                              /\ ~ (age >= k) => age < k
  BY HorizonFacts
<1>5. \A age \in 0 .. n - 1 :
        Admits(B, n)[age] = IF age >= k THEN Admits(A, n)[age - k] ELSE 0
  <2> TAKE age \in 0 .. n - 1
  <2>1. CASE age >= k
    BY <1>1, <1>2, <1>4, <2>1
  <2>2. CASE ~ (age >= k)
    BY <1>1, <1>2, <1>4, <2>2
  <2> QED
    BY <2>1, <2>2
<1>6. AdmittedIn(B, n) <= AdmittedIn(A, n)
  <2>1. \A age \in 0 .. n - 1 : Admits(A, n)[age] \in Nat
    BY <1>2
  <2>2. SumFunctionOnSet(Admits(B, n), 0 .. n - 1) <= SumFunctionOnSet(Admits(A, n), 0 .. n - 1)
    BY <1>5, <2>1, SumShifted
  <2> QED
    BY <1>3, <2>2
<1>7. ASSUME NEW m \in Methods PROVE AdmittedOf(B, n, m) <= AdmittedOf(A, n, m)
  <2>1. \A age \in 0 .. n - 1 :
          AdmitsOf(B, n, m)[age] = IF age >= k THEN AdmitsOf(A, n, m)[age - k] ELSE 0
    <3> TAKE age \in 0 .. n - 1
    <3>1. CASE age >= k
      BY <1>1, <1>2, <1>4, <3>1
    <3>2. CASE ~ (age >= k)
      BY <1>1, <1>2, <1>4, <3>2
    <3> QED
      BY <3>1, <3>2
  <2>2. \A age \in 0 .. n - 1 : AdmitsOf(A, n, m)[age] \in Nat
    BY <1>2
  <2>3. SumFunctionOnSet(AdmitsOf(B, n, m), 0 .. n - 1) <= SumFunctionOnSet(AdmitsOf(A, n, m), 0 .. n - 1)
    BY <2>1, <2>2, SumShifted
  <2> QED
    BY <1>3, <2>3
<1> QED
  BY <1>6, <1>7

(* A ring that was turned shows its windows at the ages they now have.     *)
LEMMA TurnedCell ==
  ASSUME NEW n \in Nat \ {0}, NEW pos \in 0 .. n - 1, NEW k \in Nat, NEW new,
         new = (pos + k) % n, NEW age \in Int
  PROVE  (new - age) % n = (pos - (age - k)) % n
<1>1. pos + k \in Int /\ -age \in Int
  OBVIOUS
<1>2. PICK x \in Int, y \in Int : x = pos + k /\ y = -age
  BY <1>1
<1>3. ((x % n) + y) % n = (x + y) % n
  BY PlaceSteps
<1>4. x + y = pos - (age - k)
  BY <1>2
<1>5. x % n \in Int
  BY PlaceExists
<1>6. (x % n) + y = new - age
  BY <1>2, <1>5
<1> QED
  BY <1>3, <1>4, <1>6

LEMMA MaintenanceKeeps ==
  ASSUME NEW th \in Throttles, NEW T \in Throttle[th], NEW A \in Counted(th),
         NEW from \in Seconds, NEW to \in Seconds, T.stats_pos = WindowAt(th, from),
         ChargedIn(th, T, A), RoomIn(th, T), MildIn(th, T), KeptIn(th, A),
         NEW R, R = OnMaintenance(th, T, to),
         NEW k, k = Turned(th, from, to), NEW B, B = Aged(th, A, k)
  PROVE  /\ R \in Throttle[th] /\ R.stats_pos = WindowAt(th, to) /\ B \in Counted(th)
         /\ ChargedIn(th, R, B) /\ RoomIn(th, R) /\ MildIn(th, R) /\ KeptIn(th, B)
         /\ k = 0 => R = T
<1> DEFINE pos == WindowAt(th, to)
<1>1. to \in Nat
  BY CycleAssumption DEF Seconds
<1>2. /\ R \in Throttle[th] /\ R.stats_pos = pos
      /\ pos = T.stats_pos => R = T
      /\ pos # T.stats_pos =>
           /\ \A p \in Windows(th) : R.stats[p] = IF p = pos THEN EmptyWindow ELSE T.stats[p]
           /\ R.throttled = FreshScore(th, R).throttled
           /\ R.capacity_used = FreshScore(th, R).capacity_used
  BY <1>1, MaintenanceFacts
<1>3. /\ k \in Nat /\ T.stats_pos \in Windows(th) /\ pos \in Windows(th)
      /\ pos = (T.stats_pos + k) % WindowCount[th]
  BY TurnFacts
<1> HIDE DEF pos
<1>4. PICK n \in Nat \ {0} : n = WindowCount[th]
  BY ThrottleAssumption
<1>5. T.stats_pos \in 0 .. n - 1 /\ pos \in 0 .. n - 1 /\ pos = (T.stats_pos + k) % n
  BY <1>3, <1>4 DEF Windows
<1>6. k = 0 => R = T
  <2>1. HAVE k = 0
  <2>2. pos = T.stats_pos
    BY <1>5, <2>1, PlaceItself
  <2> QED
    BY <1>2, <2>2
<1>7. /\ B \in Counted(th)
      /\ \A age \in 0 .. Horizon(th) - 1 :
           /\ age >= k => age - k \in 0 .. Horizon(th) - 1 /\ B[age] = A[age - k]
           /\ age < k => B[age] = NothingAdmitted
      /\ SumFunction(NothingAdmitted) = 0 /\ \A m \in Methods : NothingAdmitted[m] = 0
  BY <1>3, AgedFacts
<1>8. ChargedIn(th, R, B)
  <2> SUFFICES ASSUME NEW age \in Ages(th)
               PROVE  /\ SumFunction(B[age]) <= Cell(th, R, age).requests
                      /\ \A m \in Methods : B[age][m] <= Cell(th, R, age).by_fn[m]
    BY DEF ChargedIn
  <2>1. age \in 0 .. Horizon(th) - 1 /\ age \in 0 .. n - 1 /\ age \in Int
    BY <1>4, AgesFacts
  <2>2. Cell(th, R, age) \in Window
    BY <1>2, <2>1, CellTyped
  <2>3. Cell(th, R, age).requests \in Nat /\ \A m \in Methods : Cell(th, R, age).by_fn[m] \in Nat
    BY <2>2 DEF Window
  <2>4. CASE age < k
    BY <1>7, <2>1, <2>3, <2>4
  <2>5. CASE age >= k
    <3>1. B[age] = A[age - k]
      BY <1>7, <2>1, <2>5
    <3>2. age - k \in Ages(th)
      BY <1>3, <1>4, <1>7, <2>1, <2>5 DEF Ages
    <3>3. /\ SumFunction(A[age - k]) <= Cell(th, T, age - k).requests
          /\ \A m \in Methods : A[age - k][m] <= Cell(th, T, age - k).by_fn[m]
      BY <3>2 DEF ChargedIn
    <3>4. Cell(th, R, age) = Cell(th, T, age - k)
      <4>1. CASE k = 0
        BY <1>6, <2>1, <4>1
      <4>2. CASE k # 0
        <5>1. CASE pos = T.stats_pos
          <6>1. (T.stats_pos + k) % n = T.stats_pos
            BY <1>5, <5>1
          <6>2. (T.stats_pos - (age - k)) % n = (T.stats_pos - age) % n
            BY <1>3, <1>5, <2>1, <6>1, TurnedCell
          <6>3. (T.stats_pos - (age - k)) % WindowCount[th] = (T.stats_pos - age) % WindowCount[th]
            BY <1>4, <6>2
          <6> QED
            BY <1>2, <5>1, <6>3 DEF Cell
        <5>2. CASE pos # T.stats_pos
          <6>1. (pos - age) % n = (T.stats_pos - (age - k)) % n
            <7>1. PICK old \in 0 .. n - 1 : old = T.stats_pos
              BY <1>5
            <7>2. PICK new : new = pos /\ new = (old + k) % n
              BY <1>5, <7>1
            <7>3. age \in Int /\ k \in Nat
              BY <1>3, <2>1
            <7>4. (new - age) % n = (old - (age - k)) % n
              BY <7>3, <7>2, TurnedCell, ZenonT(90)
            <7> QED
              BY <7>1, <7>4, <7>2
          <6>2. (pos - age) % n # pos
            <7>1. (pos - 0) % n = pos
              BY <1>5, PlaceItself
            <7>2. 0 \in 0 .. n - 1 /\ pos \in Int
              BY <1>5
            <7>3. (pos - age) % n = (pos - 0) % n => age = 0
              BY <2>1, <7>2, PlacesApart
            <7>4. age # 0
              BY <1>3, <2>1, <2>5, <4>2
            <7> QED
              BY <7>1, <7>3, <7>4
          <6>3. (pos - age) % n \in Windows(th)
            <7>1. pos - age \in Int
              BY <1>5, <2>1
            <7> QED
              BY <1>4, <7>1, PlaceExists DEF Windows
          <6>4. R.stats[(pos - age) % n] = T.stats[(pos - age) % n]
            BY <1>2, <5>2, <6>2, <6>3
          <6>5. Cell(th, R, age) = R.stats[(pos - age) % n]
            BY <1>2, <1>4 DEF Cell
          <6>6. Cell(th, T, age - k) = T.stats[(T.stats_pos - (age - k)) % n]
            BY <1>4 DEF Cell
          <6> QED
            BY <6>1, <6>4, <6>5, <6>6
        <5> QED
          BY <5>1, <5>2
      <4> QED
        BY <4>1, <4>2
    <3> QED
      BY <3>1, <3>3, <3>4
  <2> QED
    BY <1>3, <2>1, <2>4, <2>5
<1>9. RoomIn(th, R) /\ MildIn(th, R)
  <2>1. CASE pos = T.stats_pos
    BY <1>2, <2>1
  <2>2. CASE pos # T.stats_pos
    <3>1. R.throttled = FreshScore(th, R).throttled /\ R.capacity_used = FreshScore(th, R).capacity_used
      BY <1>2, <2>2
    <3>2. R.throttled <=> \E l \in Limiters[th] : AmountUsed(th, R, l) >= l.maximum
      BY <1>2, <3>1, FreshFacts
    <3>3. \A l \in Limiters[th] : AmountUsed(th, R, l) \in Nat /\ l.maximum \in Nat \ {0}
      BY <1>2, AmountTyped, LimiterFacts
    <3>4. RoomIn(th, R)
      BY <3>2, <3>3 DEF RoomIn
    <3>5. FreshScore(th, R).capacity_used \in 0 .. Full
      BY <1>2, FreshFacts
    <3>6. MildIn(th, R)
      BY <3>1, <3>5 DEF MildIn
    <3> QED
      BY <3>4, <3>6
  <2> QED
    BY <2>1, <2>2
<1>10. KeptIn(th, B)
  <2> SUFFICES ASSUME NEW l \in Limiters[th], l.in_time_windows <= WindowCount[th]
               PROVE  /\ l.t = "L_REQUESTS" => AdmittedIn(B, l.in_time_windows) <= l.maximum
                      /\ l.t = "L_REQUESTS_PER_FN" =>
                           \A m \in Methods : AdmittedOf(B, l.in_time_windows, m) <= l.maximum
    BY DEF KeptIn
  <2>1. PICK w \in Nat : w = l.in_time_windows
    BY LimiterFacts
  <2>2. w <= Horizon(th) /\ l.maximum \in Nat
    BY <2>1, HorizonFacts, LimiterFacts
  <2>3. /\ AdmittedIn(B, w) <= AdmittedIn(A, w) /\ AdmittedIn(A, w) \in Nat /\ AdmittedIn(B, w) \in Nat
        /\ \A m \in Methods : /\ AdmittedOf(B, w, m) <= AdmittedOf(A, w, m)
                              /\ AdmittedOf(A, w, m) \in Nat /\ AdmittedOf(B, w, m) \in Nat
    BY <1>3, <1>7, <2>2, AgedSums, AdmitsTyped
  <2>4. /\ l.t = "L_REQUESTS" => AdmittedIn(A, w) <= l.maximum
        /\ l.t = "L_REQUESTS_PER_FN" => \A m \in Methods : AdmittedOf(A, w, m) <= l.maximum
    BY <2>1 DEF KeptIn
  <2>5. l.t = "L_REQUESTS" => AdmittedIn(B, w) <= l.maximum
    BY <2>2, <2>3, <2>4
  <2>6. ASSUME l.t = "L_REQUESTS_PER_FN", NEW m \in Methods PROVE AdmittedOf(B, w, m) <= l.maximum
    BY <2>2, <2>3, <2>4, <2>6
  <2> QED
    BY <2>1, <2>5, <2>6
<1> QED
  BY <1>2, <1>6, <1>7, <1>8, <1>9, <1>10 DEF pos

LEMMA StartFacts ==
  ASSUME NEW th \in Throttles, NEW now \in Seconds, NEW T, T = MakeCustom(th, now),
         NEW A, A = [age \in 0 .. Horizon(th) - 1 |-> NothingAdmitted]
  PROVE  /\ T \in Throttle[th] /\ T.stats_pos = WindowAt(th, now) /\ ~ T.throttled
         /\ A \in Counted(th)
         /\ ChargedIn(th, T, A) /\ RoomIn(th, T) /\ MildIn(th, T) /\ KeptIn(th, A)
<1>1. T = [stats_pos |-> WindowAt(th, now), stats |-> [p \in Windows(th) |-> EmptyWindow],
           score |-> 0, throttled |-> FALSE, capacity_used |-> 0]
  BY DEF MakeCustom, Windows
<1>2. WindowAt(th, now) \in Windows(th)
  BY TurnFacts
<1>3. /\ T.stats_pos \in Windows(th) /\ T.stats \in [Windows(th) -> Window]
      /\ T.score \in Int /\ T.throttled \in BOOLEAN /\ T.capacity_used \in 0 .. Full
      /\ T = [stats_pos |-> T.stats_pos, stats |-> T.stats, score |-> T.score,
              throttled |-> T.throttled, capacity_used |-> T.capacity_used]
  BY <1>1, <1>2, EmptyWindowTyped, FullFacts
<1>4. T \in Throttle[th]
  BY <1>3, ThrottleFields
<1>5. NothingAdmitted \in [Methods -> Nat] /\ \A m \in Methods : NothingAdmitted[m] = 0
  BY DEF NothingAdmitted
<1>6. A \in Counted(th) /\ \A age \in 0 .. Horizon(th) - 1 : A[age] = NothingAdmitted
  BY <1>5 DEF Counted
<1>7. SumFunction(NothingAdmitted) = 0
  <2>1. SumFunctionOnSet(NothingAdmitted, Methods) = 0
    BY <1>5, ThrottleAssumption, SumOfZeros
  <2> QED
    BY <1>5, <2>1, CountedIn
<1>8. \A i \in Int : Cell(th, T, i) = EmptyWindow
  <2> TAKE i \in Int
  <2>1. (T.stats_pos - i) % WindowCount[th] \in Windows(th)
    BY <1>4, CellTyped
  <2> QED
    BY <1>1, <2>1 DEF Cell
<1>9. /\ EmptyWindow.requests = 0 /\ EmptyWindow.data = 0
      /\ \A m \in Methods : EmptyWindow.by_fn[m] = 0
  BY DEF EmptyWindow
<1>10. ChargedIn(th, T, A)
  BY <1>5, <1>6, <1>7, <1>8, <1>9, AgesFacts DEF ChargedIn
<1>11. \A l \in Limiters[th] : AmountUsed(th, T, l) = 0
  <2> TAKE l \in Limiters[th]
  <2>1. PICK n \in Nat : n = l.in_time_windows
    BY LimiterFacts
  <2>2. IsFiniteSet(0 .. n - 1)
    BY FirstAreFinite
  <2>3. \A i \in 0 .. n - 1 : RequestsIn(th, T, n)[i] = 0 /\ DataIn(th, T, n)[i] = 0
    BY <1>8, <1>9 DEF RequestsIn, DataIn
  <2>4. \A m \in Methods : \A i \in 0 .. n - 1 : RequestsFor(th, T, n, m)[i] = 0
    BY <1>8, <1>9 DEF RequestsFor
  <2>5. /\ SumFunctionOnSet(RequestsIn(th, T, n), 0 .. n - 1) = 0
        /\ SumFunctionOnSet(DataIn(th, T, n), 0 .. n - 1) = 0
    BY <2>2, <2>3, SumOfZeros
  <2>6. \A m \in Methods : SumsFor(th, T, n)[m] = 0
    <3> TAKE m \in Methods
    <3>1. SumFunctionOnSet(RequestsFor(th, T, n, m), 0 .. n - 1) = 0
      BY <2>2, <2>4, SumOfZeros
    <3> QED
      BY <3>1 DEF SumsFor
  <2>7. ASSUME l.t = "L_REQUESTS" \/ l.t = "L_DATA_RECEIVED" PROVE AmountUsed(th, T, l) = 0
    <3>1. CASE l.t = "L_REQUESTS"
      <4>1. AmountUsed(th, T, l) = SumFunctionOnSet(RequestsIn(th, T, n), 0 .. n - 1)
        BY <2>1, <3>1, RequestAmount
      <4> QED
        BY <2>5, <4>1
    <3>2. CASE l.t = "L_DATA_RECEIVED"
      <4>1. AmountUsed(th, T, l) = SumFunctionOnSet(DataIn(th, T, n), 0 .. n - 1)
        BY <2>1, <3>2, DataAmount
      <4> QED
        BY <2>5, <4>1
    <3> QED
      BY <2>7, <3>1, <3>2
  <2>8. l.t = "L_REQUESTS_PER_FN" => AmountUsed(th, T, l) = 0
    BY <1>4, <2>1, <2>6, AmountFor
  <2>9. l.t \in LimiterTypes
    BY LimiterFacts
  <2> QED
    BY <2>7, <2>8, <2>9 DEF LimiterTypes
<1>12. \A l \in Limiters[th] : l.maximum \in Nat \ {0}
  BY LimiterFacts
<1>13. RoomIn(th, T)
  BY <1>11, <1>12 DEF RoomIn
<1>14. /\ FreshScore(th, T).throttled \in BOOLEAN /\ ~ FreshScore(th, T).throttled
       /\ FreshScore(th, T).capacity_used \in 0 .. Full
  BY <1>4, <1>11, <1>12, FreshFacts
<1>15. MildIn(th, T)
  <2>1. T.throttled = FALSE /\ T.capacity_used = 0
    BY <1>1
  <2>2. FreshScore(th, T).throttled = FALSE
    BY <1>14
  <2>3. T.capacity_used <= FreshScore(th, T).capacity_used
    BY <1>14, <2>1, FullFacts
  <2> QED
    BY <2>1, <2>2, <2>3 DEF MildIn
<1>16. KeptIn(th, A)
  <2> SUFFICES ASSUME NEW l \in Limiters[th]
               PROVE  /\ AdmittedIn(A, l.in_time_windows) <= l.maximum
                      /\ \A m \in Methods : AdmittedOf(A, l.in_time_windows, m) <= l.maximum
    BY DEF KeptIn
  <2>1. PICK n \in Nat : n = l.in_time_windows
    BY LimiterFacts
  <2>2. n <= Horizon(th) /\ Horizon(th) \in Nat /\ IsFiniteSet(0 .. n - 1)
    BY <2>1, HorizonFacts, FirstAreFinite
  <2>3. \A age \in 0 .. n - 1 : A[age] = NothingAdmitted
    BY <1>6, <2>2
  <2>4. \A age \in 0 .. n - 1 : Admits(A, n)[age] = 0
    BY <1>7, <2>3 DEF Admits
  <2>5. \A m \in Methods : \A age \in 0 .. n - 1 : AdmitsOf(A, n, m)[age] = 0
    BY <1>5, <2>3 DEF AdmitsOf
  <2>6. AdmittedIn(A, n) = 0
    BY <2>2, <2>4, AdmittedSums, SumOfZeros
  <2>7. ASSUME NEW m \in Methods PROVE AdmittedOf(A, n, m) = 0
    <3>1. SumFunctionOnSet(AdmitsOf(A, n, m), 0 .. n - 1) = 0
      BY <2>2, <2>5, SumOfZeros
    <3> QED
      BY <3>1, AdmittedSums
  <2>8. AdmittedIn(A, n) <= l.maximum /\ \A m \in Methods : AdmittedOf(A, n, m) <= l.maximum
    <3>1. 0 <= l.maximum
      BY <1>12
    <3> QED
      BY <2>6, <2>7, <3>1
  <2> QED
    BY <2>1, <2>8
<1> QED
  BY <1>1, <1>4, <1>6, <1>10, <1>13, <1>15, <1>16

-----------------------------------------------------------------------------
(* The invariant                                                           *)

LEMMA StartInv == Init => IInv
<1> SUFFICES ASSUME Init PROVE IInv
  OBVIOUS
<1>1. /\ LoopInit /\ in_flight = 0
      /\ \A th \in Throttles :
           /\ group[th] = MakeCustom(th, clock)
           /\ admitted[th] = [age \in 0 .. Horizon(th) - 1 |-> NothingAdmitted]
           /\ overdrawn[th] = 0
  BY DEF Init
<1>2. LoopTypeOK /\ clock \in Seconds /\ noticed = clock
  BY <1>1 DEF LoopInit, LoopTypeOK
<1>3. in_flight \in 0 .. MaxInFlight
  BY <1>1, GroupAssumption
<1>4. \A th \in Throttles :
        /\ ThrottleInv(th, group[th], admitted[th]) /\ RingNoticed(th) /\ ~ group[th].throttled
  BY <1>1, <1>2, StartFacts DEF ThrottleInv, RingNoticed
<1>5. \A th \in Throttles : OverdrawnThrottled(th)
  <2>1. \A th \in Throttles : overdrawn[th] = 0
    BY <1>1
  <2> QED
    BY <2>1 DEF OverdrawnThrottled
<1> QED
  BY <1>2, <1>3, <1>4, <1>5 DEF IInv

LEMMA LoopSteps == LoopTypeOK /\ (Tick \/ ReadNow \/ WakeIdle \/ Wake) => LoopTypeOK'
<1> SUFFICES ASSUME LoopTypeOK, Tick \/ ReadNow \/ WakeIdle \/ Wake PROVE LoopTypeOK'
  OBVIOUS
<1>1. CASE Tick
  <2>1. PICK c \in Nat \ {0} : c = Cycle
    BY CycleAssumption
  <2>2. clock + 1 \in Int
    BY <2>1 DEF LoopTypeOK, Seconds
  <2>3. (clock + 1) % c \in 0 .. c - 1
    BY <2>2, PlaceExists
  <2>4. clock' \in Seconds
    BY <1>1, <2>1, <2>3 DEF Tick, Seconds
  <2> QED
    BY <1>1, <2>4 DEF Tick, LoopTypeOK
<1>2. CASE ReadNow
  BY <1>2 DEF ReadNow, LoopTypeOK
<1>3. CASE WakeIdle
  BY <1>3 DEF WakeIdle, LoopTypeOK
<1>4. CASE Wake
  BY <1>4 DEF Wake, LoopTypeOK
<1> QED
  BY <1>1, <1>2, <1>3, <1>4

LEMMA RequestStep ==
  ASSUME IInv, NEW m \in Methods, Request(m)
  PROVE  IInv'
<1>1. \A th \in Throttles :
        /\ ThrottleInv(th, group[th], admitted[th]) /\ RingNoticed(th) /\ OverdrawnThrottled(th)
        /\ ~ group[th].throttled
  BY DEF IInv, Request, GroupThrottled
<1>2. \A th \in Throttles : /\ group'[th] = OnRequest(th, group[th], m)
                            /\ admitted'[th] = OneMore(admitted[th], m)
                            /\ overdrawn'[th] = IF DataExhausted(th, group[th])
                                                THEN overdrawn[th] + 1 ELSE overdrawn[th]
  BY DEF Request, GroupOnRequest, OneMore
<1>3. LoopTypeOK'
  BY DEF IInv, LoopTypeOK, Request, loopVars
<1>4. (in_flight \in 0 .. MaxInFlight)'
  BY GroupAssumption DEF IInv, Request
<1>5. \A th \in Throttles :
        /\ ThrottleInv(th, group'[th], admitted'[th]) /\ group'[th].stats_pos = group[th].stats_pos
        /\ DataExhausted(th, group[th]) => group'[th].throttled
  BY <1>1, <1>2, RequestKeeps DEF ThrottleInv
<1>6. \A th \in Throttles : RingNoticed(th)'
  <2>1. noticed' = noticed
    BY DEF Request, loopVars
  <2> QED
    BY <1>1, <1>5, <2>1 DEF RingNoticed
<1>7. \A th \in Throttles : OverdrawnThrottled(th)'
  <2> TAKE th \in Throttles
  <2>1. overdrawn[th] = 0
    BY <1>1 DEF OverdrawnThrottled
  <2> QED
    BY <1>2, <1>5, <2>1 DEF OverdrawnThrottled
<1> QED
  BY <1>3, <1>4, <1>5, <1>6, <1>7 DEF IInv

LEMMA ReceiveStep ==
  ASSUME IInv, NEW b \in Sizes, Receive(b)
  PROVE  IInv'
<1>1. \A th \in Throttles :
        /\ ThrottleInv(th, group[th], admitted[th]) /\ RingNoticed(th) /\ OverdrawnThrottled(th)
  BY DEF IInv
<1>2. /\ \A th \in Throttles : group'[th] = OnReceive(group[th], b)
      /\ admitted' = admitted /\ overdrawn' = overdrawn /\ noticed' = noticed
  BY DEF Receive, GroupOnReceive, loopVars
<1>3. b \in Nat
  BY GroupAssumption
<1>4. LoopTypeOK'
  BY DEF IInv, LoopTypeOK, Receive, loopVars
<1>5. (in_flight \in 0 .. MaxInFlight)'
  BY GroupAssumption DEF IInv, Receive
<1>6. \A th \in Throttles :
        /\ ThrottleInv(th, group'[th], admitted[th])
        /\ group'[th].stats_pos = group[th].stats_pos
        /\ group'[th].throttled = group[th].throttled
  BY <1>1, <1>2, <1>3, ReceiveKeeps DEF ThrottleInv
<1>7. \A th \in Throttles : RingNoticed(th)' /\ OverdrawnThrottled(th)'
  BY <1>1, <1>2, <1>6 DEF RingNoticed, OverdrawnThrottled
<1> QED
  BY <1>2, <1>4, <1>5, <1>6, <1>7 DEF IInv

LEMMA MaintainStep ==
  ASSUME IInv, Maintain
  PROVE  IInv'
<1>1. \A th \in Throttles :
        /\ ThrottleInv(th, group[th], admitted[th]) /\ RingNoticed(th) /\ OverdrawnThrottled(th)
  BY DEF IInv
<1>2. clock \in Seconds /\ noticed \in Seconds /\ noticed' = clock
  BY DEF IInv, LoopTypeOK, Maintain, Wake
<1>3. \A th \in Throttles : WindowsPassed(th) = Turned(th, noticed, clock)
  BY DEF WindowsPassed, Turned
<1>4. \A th \in Throttles :
        /\ group'[th] = OnMaintenance(th, group[th], clock)
        /\ admitted'[th] = Aged(th, admitted[th], Turned(th, noticed, clock))
        /\ overdrawn'[th] = IF Turned(th, noticed, clock) = 0 THEN overdrawn[th] ELSE 0
  BY <1>3 DEF Maintain, GroupOnMaintenance, Aged
<1>5. LoopTypeOK'
  <2>1. LoopTypeOK /\ Wake
    BY DEF IInv, Maintain
  <2> QED
    BY <2>1, LoopSteps
<1>6. (in_flight \in 0 .. MaxInFlight)'
  BY DEF IInv, Maintain
<1>7. ASSUME NEW th \in Throttles
      PROVE  /\ ThrottleInv(th, group'[th], admitted'[th])
             /\ group'[th].stats_pos = WindowAt(th, clock)
             /\ Turned(th, noticed, clock) = 0 => group'[th] = group[th]
  <2>1. /\ group[th] \in Throttle[th] /\ admitted[th] \in Counted(th)
        /\ ChargedIn(th, group[th], admitted[th]) /\ RoomIn(th, group[th]) /\ MildIn(th, group[th])
        /\ KeptIn(th, admitted[th]) /\ group[th].stats_pos = WindowAt(th, noticed)
    BY <1>1 DEF ThrottleInv, RingNoticed
  <2>2. PICK T, A, R, B, k :
          /\ T = group[th] /\ A = admitted[th] /\ R = group'[th] /\ B = admitted'[th]
          /\ k = Turned(th, noticed, clock)
    OBVIOUS
  <2>3. R = OnMaintenance(th, T, clock) /\ B = Aged(th, A, k)
    BY <1>4, <2>2
  <2>4. /\ R \in Throttle[th] /\ R.stats_pos = WindowAt(th, clock) /\ B \in Counted(th)
        /\ ChargedIn(th, R, B) /\ RoomIn(th, R) /\ MildIn(th, R) /\ KeptIn(th, B)
        /\ k = 0 => R = T
    BY <1>2, <2>1, <2>2, <2>3, MaintenanceKeeps
  <2> QED
    BY <2>2, <2>4 DEF ThrottleInv
<1>8. \A th \in Throttles : RingNoticed(th)'
  <2> TAKE th \in Throttles
  <2>1. WindowAt(th, noticed)' = WindowAt(th, clock)
    BY <1>2 DEF WindowAt
  <2> QED
    BY <1>7, <2>1 DEF RingNoticed
<1>9. \A th \in Throttles : OverdrawnThrottled(th)'
  <2> TAKE th \in Throttles
  <2>1. CASE Turned(th, noticed, clock) = 0
    BY <1>1, <1>4, <1>7, <2>1 DEF OverdrawnThrottled
  <2>2. CASE Turned(th, noticed, clock) # 0
    BY <1>4, <2>2 DEF OverdrawnThrottled
  <2> QED
    BY <2>1, <2>2
<1> QED
  BY <1>5, <1>6, <1>7, <1>8, <1>9 DEF IInv

LEMMA GroupUnchanged ==
  ASSUME IInv, group' = group, admitted' = admitted, overdrawn' = overdrawn, noticed' = noticed,
         LoopTypeOK', (in_flight \in 0 .. MaxInFlight)'
  PROVE  IInv'
<1>1. \A th \in Throttles :
        /\ ThrottleInv(th, group'[th], admitted'[th]) /\ RingNoticed(th)' /\ OverdrawnThrottled(th)'
  BY DEF IInv, RingNoticed, OverdrawnThrottled
<1> QED
  BY <1>1 DEF IInv

LEMMA StepInv == IInv /\ [Next]_vars => IInv'
<1> SUFFICES ASSUME IInv, [Next]_vars PROVE IInv'
  OBVIOUS
<1>1. CASE \E m \in Methods : Request(m)
  BY <1>1, RequestStep
<1>2. CASE \E b \in Sizes : Receive(b)
  BY <1>2, ReceiveStep
<1>3. CASE Fail
  <2>1. LoopTypeOK'
    BY <1>3 DEF IInv, LoopTypeOK, Fail, loopVars
  <2>2. (in_flight \in 0 .. MaxInFlight)'
    BY <1>3, GroupAssumption DEF IInv, Fail
  <2>3. group' = group /\ admitted' = admitted /\ overdrawn' = overdrawn /\ noticed' = noticed
    BY <1>3 DEF Fail, loopVars
  <2> QED
    BY <2>1, <2>2, <2>3, GroupUnchanged
<1>4. CASE Maintain
  BY <1>4, MaintainStep
<1>5. CASE OtherLoopStep
  <2>1. LoopTypeOK'
    BY <1>5, LoopSteps DEF IInv, OtherLoopStep
  <2>2. (in_flight \in 0 .. MaxInFlight)'
    BY <1>5 DEF IInv, OtherLoopStep
  <2>3. group' = group /\ admitted' = admitted /\ overdrawn' = overdrawn /\ noticed' = noticed
    BY <1>5 DEF OtherLoopStep, ReadNow, WakeIdle, Tick
  <2> QED
    BY <2>1, <2>2, <2>3, GroupUnchanged
<1>6. CASE UNCHANGED vars
  <2>1. LoopTypeOK' /\ (in_flight \in 0 .. MaxInFlight)'
    BY <1>6 DEF IInv, LoopTypeOK, vars, loopVars
  <2>2. group' = group /\ admitted' = admitted /\ overdrawn' = overdrawn /\ noticed' = noticed
    BY <1>6 DEF vars, loopVars
  <2> QED
    BY <2>1, <2>2, GroupUnchanged
<1> QED
  BY <1>1, <1>2, <1>3, <1>4, <1>5, <1>6 DEF Next

LEMMA Inductive == Spec => []IInv
<1> QED
  BY StartInv, StepInv, PTL DEF Spec

(* Every ring of every throttle is well formed, and its verdict a part of  *)
(* the limit between nothing and all of it, however seconds are missed     *)
(* (throttle.go:21-33).                                                    *)
THEOREM RingsWellFormed == Spec => []TypeOK
<1>1. IInv => TypeOK
  <2> SUFFICES ASSUME IInv PROVE TypeOK
    OBVIOUS
  <2>1. \A th \in Throttles : group[th] \in Throttle[th]
    BY DEF IInv, ThrottleInv
  <2>2. \A th \in Throttles : /\ group[th].stats_pos \in DOMAIN group[th].stats
                              /\ group[th].throttled \in BOOLEAN
                              /\ group[th].capacity_used \in 0 .. Full
                              /\ group[th].score \in Int
    BY <2>1, ThrottleFields
  <2> QED
    BY <2>2 DEF IInv, TypeOK
<1> QED
  BY <1>1, Inductive, PTL

(* Once the data limit of a throttle is exceeded at most one more request  *)
(* gets through before the node is throttled, however late the answers     *)
(* come (stats.go:26-29).                                                  *)
THEOREM DataLimitOverdrawnOnce == Spec => []OneRequestPastDataLimit
<1>1. IInv => OneRequestPastDataLimit
  BY DEF IInv, OverdrawnThrottled, OneRequestPastDataLimit
<1> QED
  BY <1>1, Inductive, PTL

(* The verdict kept since the last request or turn of the ring is never    *)
(* stricter than the windows justify (stats.go:20, 44): data that arrives  *)
(* in between makes it too mild, never too strict.                         *)
THEOREM VerdictLagsOneWay == Spec => []VerdictNeverTooStrict
<1>1. IInv => VerdictNeverTooStrict
  BY DEF IInv, ThrottleInv, MildIn, VerdictNeverTooStrict
<1> QED
  BY <1>1, Inductive, PTL

(* No limiter looks at more windows than its throttle's ring has.          *)
LimitersFit ==
  \A th \in Throttles : \A l \in Limiters[th] : l.in_time_windows <= WindowCount[th]

(* README.md:11, "Keep requests below allocated limits": whatever is       *)
(* requested, answered and missed, no more requests are admitted in the    *)
(* windows a limiter looks at than its maximum. A limiter that looks at    *)
(* more windows than the ring has counts some twice and others never; it   *)
(* keeps no such promise, and LimitsFit says when there is none.           *)
THEOREM RequestsStayBelowLimits == LimitersFit => (Spec => []RateLimit)
<1>1. LimitersFit /\ IInv => RateLimit
  <2> SUFFICES ASSUME LimitersFit, IInv PROVE RateLimit
    OBVIOUS
  <2>1. \A th \in Throttles : KeptIn(th, admitted[th])
    BY DEF IInv, ThrottleInv
  <2>2. \A th : \A l : Admitted(th, l) = AdmittedIn(admitted[th], l.in_time_windows)
    BY DEF Admitted, AdmittedIn
  <2>3. \A th : \A l : \A m :
          AdmittedFor(th, l, m) = AdmittedOf(admitted[th], l.in_time_windows, m)
    BY DEF AdmittedFor, AdmittedOf
  <2> QED
    BY <2>1, <2>2, <2>3 DEF LimitersFit, KeptIn, RateLimit
<1>2. SUFFICES ASSUME LimitersFit PROVE Spec => []RateLimit
  OBVIOUS
<1>3. IInv => RateLimit
  BY <1>1, <1>2
<1> QED
  BY <1>3, Inductive, PTL
-----------------------------------------------------------------------------
(* The windows chosen                                                      *)

RealSizes == Ring = 120 /\ Step = 10 /\ Longest = 1200 /\ SpareRing = 125

(* The loop that looks for a size that divides the time (read_config.go:   *)
(* 35-41) never finds one: a hundredth is not below two hundredths.        *)
THEOREM NoSlices == \A time \in Nat : Slices(time) = {}
<1> SUFFICES ASSUME NEW time \in Nat PROVE Slices(time) = {}
  OBVIOUS
<1>1. time \div 200 <= time \div 100 /\ time \div 100 \in Nat /\ time \div 200 \in Nat
  BY SMT
<1>2. \A i \in Int : ~(time \div 100 <= i /\ i <= (time \div 200) - 1)
  BY <1>1
<1> QED
  BY <1>1, <1>2 DEF Slices

(* The windows are of a size that is a number of seconds.                  *)
LEMMA WindowSize ==
  ASSUME RealSizes, NEW time \in Nat \ {0}
  PROVE  LET w == TimeWindow(time) IN
         /\ w.size \in Nat \ {0}
         /\ time <= 120 => w = [size |-> 1, count |-> 120]
         /\ time > 120 /\ time <= 1200 /\ time % 10 = 0 =>
              w = [size |-> 10, count |-> 120]
         /\ time > 1200 => w = [size |-> time \div 120, count |-> 125]
<1>1. Slices(time) = {}
  BY NoSlices
<1>2. time > 120 => time \div 120 \in Nat \ {0}
  BY SMT
<1> QED
  BY <1>1, <1>2 DEF TimeWindow, RealSizes

(* A limit looks back over its time, less than a window short of it        *)
(* (throttle.go:53-56).                                                    *)
THEOREM TimeCovered ==
  RealSizes => \A time \in Nat \ {0} : Covers(time)
<1> SUFFICES ASSUME RealSizes, NEW time \in Nat \ {0} PROVE Covers(time)
  OBVIOUS
<1> DEFINE s == TimeWindow(time).size
<1>1. s \in Nat \ {0}
  BY WindowSize
<1>2. (time \div s) * s <= time /\ time < (time \div s) * s + s
  <2> HIDE DEF s
  <2> QED
    BY <1>1, Division
<1> QED
  BY <1>2 DEF Covers, InTimeWindows

(* The windows a limit looks at are different ones, all of them in the     *)
(* ring, for times up to two minutes, times in tens of seconds up to       *)
(* twenty minutes, and all times from 48 minutes on (read_config.go:23-45).*)
THEOREM LimitsFit ==
  RealSizes => \A time \in Nat \ {0} :
    time <= 120 \/ (time <= 1200 /\ time % 10 = 0) \/ time >= 2880 => Fits(time)
<1> SUFFICES ASSUME RealSizes, NEW time \in Nat \ {0},
                    time <= 120 \/ (time <= 1200 /\ time % 10 = 0) \/ time >= 2880
             PROVE  Fits(time)
  OBVIOUS
<1>1. CASE time <= 120
  <2>1. TimeWindow(time) = [size |-> 1, count |-> 120]
    BY <1>1, WindowSize
  <2>2. time \div 1 <= 120
    BY <1>1, QuotientBound
  <2> QED
    BY <2>1, <2>2 DEF Fits, InTimeWindows
<1>2. CASE time > 120 /\ time <= 1200 /\ time % 10 = 0
  <2>1. TimeWindow(time) = [size |-> 10, count |-> 120]
    BY <1>2, WindowSize
  <2>2. time \div 10 <= 120
    BY <1>2
  <2> QED
    BY <2>1, <2>2 DEF Fits, InTimeWindows
<1>3. CASE time >= 2880
  <2>1. TimeWindow(time) = [size |-> time \div 120, count |-> 125]
    BY <1>3, WindowSize
  <2>2. time \div 120 \in Nat /\ time \div 120 >= 24
    BY <1>3
  <2>3. time < (time \div 120) * 120 + 120
    BY Division
  <2>4. time <= 125 * (time \div 120)
    BY <2>2, <2>3
  <2>5. time \div (time \div 120) <= 125
    BY <2>2, <2>4, QuotientBound
  <2> QED
    BY <2>1, <2>5 DEF Fits, InTimeWindows
<1> QED
  BY <1>1, <1>2, <1>3

(* Not for all in between, though a limit may be over "any time interval"  *)
(* (README.md:27): a limit over 239 seconds looks at 239 windows of 125    *)
(* and counts most of them twice.                                          *)
THEOREM SomeLimitsWrap == RealSizes => ~Fits(239)
<1> SUFFICES ASSUME RealSizes PROVE ~Fits(239)
  OBVIOUS
<1>1. Slices(239) = {}
  BY NoSlices
<1>2. TimeWindow(239) = [size |-> 1, count |-> 125]
  <2>1. 239 \div 120 = 1 /\ 239 % 10 = 9
    BY SMT
  <2> QED
    BY <1>1, <2>1 DEF TimeWindow, RealSizes
<1>3. 239 \div 1 = 239
  BY SMT
<1> QED
  BY <1>2, <1>3 DEF Fits, InTimeWindows

(* The times whose windows fit.                                            *)
Fitting(time) == time <= 120 \/ (time <= 1200 /\ time % 10 = 0) \/ time >= 2880

(* The throttles of a node as its configuration makes them                 *)
(* (sol_config_reader.go), where limits are over fitting times.            *)
ConfiguredBy(node) ==
  /\ Throttles = DOMAIN NodeThrottles(node)
  /\ Limiters = NodeThrottles(node)
  /\ WindowCount = [th \in Throttles |-> th.count]
  /\ node.throttle \notin {Unreadable, NoThrottle} =>
       \A i \in DOMAIN node.throttle :
         node.throttle[i].time \in Nat \ {0} /\ Fitting(node.throttle[i].time)

LEMMA ReadLimitersFit ==
  ASSUME RealSizes, NEW config, MakeFromConfig(config) # NoThrottle,
         \A i \in DOMAIN config : config[i].time \in Nat \ {0} /\ Fitting(config[i].time),
         NEW w \in DOMAIN MakeFromConfig(config), NEW l \in MakeFromConfig(config)[w]
  PROVE  l.in_time_windows <= w.count
<1>1. MakeFromConfig(config) =
        [v \in {TimeWindow(config[i].time) : i \in DOMAIN config} |->
           {AddLimiter(v.size, LimiterType(config[i].type), config[i].limit, config[i].time) :
              i \in {j \in DOMAIN config : TimeWindow(config[j].time) = v}}]
  BY DEF MakeFromConfig
<1>2. PICK i \in DOMAIN config :
        /\ TimeWindow(config[i].time) = w
        /\ l = AddLimiter(w.size, LimiterType(config[i].type), config[i].limit, config[i].time)
  BY <1>1
<1>3. PICK time \in Nat \ {0} : time = config[i].time /\ Fitting(time)
  BY <1>2
<1>4. l.in_time_windows = InTimeWindows(w.size, time)
  BY <1>2, <1>3 DEF AddLimiter
<1>5. Fits(time)
  BY <1>3, LimitsFit DEF Fitting
<1> QED
  BY <1>2, <1>3, <1>4, <1>5 DEF Fits

LEMMA ConfiguredLimitersFit ==
  ASSUME RealSizes, NEW node, ConfiguredBy(node)
  PROVE  LimitersFit
<1> SUFFICES ASSUME NEW th \in Throttles, NEW l \in Limiters[th]
             PROVE  l.in_time_windows <= th.count
  BY DEF LimitersFit, ConfiguredBy
<1> DEFINE bare == [w \in {Make} |-> {}]
<1>1. th \in DOMAIN NodeThrottles(node) /\ l \in NodeThrottles(node)[th]
  BY DEF ConfiguredBy
<1>2. \/ NodeThrottles(node) = bare
      \/ NodeThrottles(node) = MakeForPublic
      \/ /\ NodeThrottles(node) = MakeFromConfig(node.throttle)
         /\ MakeFromConfig(node.throttle) # NoThrottle
         /\ node.throttle \notin {Unreadable, NoThrottle}
  BY DEF NodeThrottles
<1>3. CASE NodeThrottles(node) = bare
  BY <1>1, <1>3
<1>4. CASE NodeThrottles(node) = MakeForPublic
  <2>1. th.count = 120
    BY <1>1, <1>4 DEF MakeForPublic, Make, RealSizes
  <2>2. \A t, max, time : AddLimiter(1, t, max, time).in_time_windows = time \div 1
    BY DEF AddLimiter, InTimeWindows
  <2>3. l.in_time_windows = 10 \div 1 \/ l.in_time_windows = 30 \div 1
    BY <1>1, <1>4, <2>2 DEF MakeForPublic
  <2> QED
    BY <2>1, <2>3
<1>5. CASE /\ NodeThrottles(node) = MakeFromConfig(node.throttle)
           /\ MakeFromConfig(node.throttle) # NoThrottle
           /\ node.throttle \notin {Unreadable, NoThrottle}
  BY <1>1, <1>5, ReadLimitersFit DEF ConfiguredBy
<1> QED
  BY <1>2, <1>3, <1>4, <1>5

(* A node keeps its requests below the limits of its configuration, with   *)
(* the ring sizes of the code (read_config.go:23-45), if these limits are  *)
(* over times up to two minutes, tens of seconds up to twenty, or at least *)
(* 48 minutes; and so does a public node that is configured without any.   *)
THEOREM ConfiguredLimitsKept ==
  ASSUME RealSizes, NEW node, ConfiguredBy(node)
  PROVE  Spec => []RateLimit
BY ConfiguredLimitersFit, RequestsStayBelowLimits

=============================================================================
