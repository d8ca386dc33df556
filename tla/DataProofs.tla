----------------------------- MODULE DataProofs -----------------------------
(***************************************************************************)
(* Facts about the data the components are made of that the library has    *)
(* not: induction over numbers and finite sets, greatest elements, sums,   *)
(* and what is done to sequences.                                          *)
(*                                                                         *)
(* Induction is stated for a set, the set of all that has the property:    *)
(* a set can be given to a lemma where a property cannot.                  *)
(***************************************************************************)
EXTENDS Integers, SequencesExt, FiniteSets, FiniteSetsExt, Functions,
        SequenceTheorems, FiniteSetTheorems, WellFoundedInduction, TLAPS

-----------------------------------------------------------------------------
(* Induction                                                               *)

(* Numbers have a least one among them.                                    *)
LEMMA LeastNumber ==
  ASSUME NEW T, T \subseteq Nat, T # {}
  PROVE  \E n \in T : \A k \in T : n <= k
<1>1. IsWellFoundedOn(OpToRel(<, Nat), Nat)
  BY NatLessThanWellFounded
<1>2. PICK n \in T : \A k \in T : <<k, n>> \notin OpToRel(<, Nat)
  BY <1>1, WFMin
<1>3. \A k \in T : ~ (k < n)
  BY <1>2 DEF OpToRel
<1> QED
  BY <1>3

LEMMA NumberInduction ==
  ASSUME NEW G, 0 \in G, \A n \in Nat : n \in G => n + 1 \in G
  PROVE  Nat \subseteq G
<1> SUFFICES ASSUME Nat \ G # {} PROVE FALSE
  OBVIOUS
<1>1. PICK n \in Nat \ G : \A k \in Nat \ G : n <= k
  BY LeastNumber
<1>2. n - 1 \in Nat /\ n - 1 \notin Nat \ G
  BY <1>1
<1> QED
  BY <1>1, <1>2

(* A set is reached from the empty one: it has the property if every set   *)
(* has it that has it when an element is taken away.                       *)
LEMMA SubsetInduction ==
  ASSUME NEW S, IsFiniteSet(S), NEW G, {} \in G,
         \A s \in SUBSET S : s # {} /\ (\A x \in s : s \ {x} \in G) => s \in G
  PROVE  \A s \in SUBSET S : s \in G
<1> DEFINE Bad == {n \in Nat : \E s \in SUBSET S : s \notin G /\ Cardinality(s) = n}
<1>1. \A s \in SUBSET S : IsFiniteSet(s) /\ Cardinality(s) \in Nat
  BY FS_Subset, FS_CardinalityType
<1>2. ASSUME Bad # {} PROVE FALSE
  <2>1. PICK n \in Bad : \A k \in Bad : n <= k
    <3> HIDE DEF Bad
    <3>1. Bad \subseteq Nat
      BY DEF Bad
    <3> QED
      BY <1>2, <3>1, LeastNumber
  <2>2. PICK s \in SUBSET S : s \notin G /\ Cardinality(s) = n
    BY <2>1
  <2>3. ASSUME NEW x \in s PROVE s \ {x} \in G
    <3>1. Cardinality(s \ {x}) = n - 1 /\ s \ {x} \in SUBSET S
      BY <1>1, <2>2, FS_RemoveElement
    <3>2. n - 1 \in Nat /\ ~ (n <= n - 1)
      BY <1>1, <3>1
    <3>3. n - 1 \notin Bad
      BY <2>1, <3>2
    <3> QED
      BY <3>1, <3>2, <3>3
  <2> QED
    BY <2>2, <2>3
<1> QED
  BY <1>1, <1>2

-----------------------------------------------------------------------------
(* Division                                                                *)

LEMMA Division ==
  ASSUME NEW a \in Nat, NEW b \in Nat \ {0}
  PROVE  /\ a \div b \in Nat
         /\ (a \div b) * b <= a
         /\ a < (a \div b) * b + b
BY SMT

(* What is divided into pieces larger than a bound has few of them.        *)
LEMMA QuotientBound ==
  ASSUME NEW a \in Nat, NEW b \in Nat \ {0}, NEW n \in Nat, a <= n * b
  PROVE  a \div b <= n
<1> DEFINE q == a \div b
<1>1. q \in Nat /\ q * b <= a
  BY Division
<1>2. ASSUME q >= n + 1 PROVE FALSE
  <2> HIDE DEF q
  <2>1. PICK k \in Nat : q = n + 1 + k
    <3>1. q - (n + 1) \in Nat
      BY <1>1, <1>2
    <3>2. q = n + 1 + (q - (n + 1))
      BY <1>1
    <3> QED
      BY <3>1, <3>2
  <2>2. q * b = n * b + b + k * b
    BY <2>1, SMT
  <2>3. k * b \in Nat /\ n * b \in Nat
    BY <2>1, SMT
  <2> QED
    BY <2>2, <2>3, <1>1
<1> HIDE DEF q
<1>3. q <= n
  BY <1>1, <1>2
<1> QED
  BY <1>3 DEF q

LEMMA QuotientMonotone ==
  ASSUME NEW a \in Nat, NEW c \in Nat, a <= c, NEW b \in Nat \ {0}
  PROVE  a \div b <= c \div b
<1> DEFINE q == c \div b
<1>1. q \in Nat /\ c < q * b + b
  BY Division
<1> HIDE DEF q
<1>2. q * b \in Nat
  BY <1>1
<1> DEFINE p == a \div b
<1>3. p \in Nat /\ p * b <= a
  BY Division
<1> HIDE DEF p
<1>4. ASSUME p >= q + 1 PROVE FALSE
  <2>1. PICK k \in Nat : p = q + 1 + k
    <3>1. p - (q + 1) \in Nat /\ p = q + 1 + (p - (q + 1))
      BY <1>1, <1>3, <1>4
    <3> QED
      BY <3>1
  <2>2. p * b = q * b + b + k * b /\ k * b \in Nat
    BY <1>1, <2>1
  <2> QED
    BY <1>1, <1>2, <1>3, <2>2
<1>5. p <= q
  BY <1>1, <1>3, <1>4
<1> QED
  BY <1>5 DEF p, q

-----------------------------------------------------------------------------
(* Places in a ring                                                        *)

LEMMA PlaceExists ==
  ASSUME NEW x \in Int, NEW n \in Nat \ {0}
  PROVE  /\ x % n \in 0 .. n - 1
         /\ \E z \in Int : x = z * n + (x % n)
<1>1. x % n \in 0 .. n - 1
  OBVIOUS
<1>2. x \div n \in Int /\ x = (x \div n) * n + (x % n)
  OBVIOUS
<1> QED
  BY <1>1, <1>2

LEMMA PlaceUnique ==
  ASSUME NEW n \in Nat \ {0}, NEW z \in Int, NEW w \in Int,
         NEW r \in 0 .. n - 1, NEW s \in 0 .. n - 1, z * n + r = w * n + s
  PROVE  r = s
<1>1. ASSUME NEW a \in Int, NEW b \in Int, NEW p \in 0 .. n - 1, NEW q \in 0 .. n - 1,
             a * n + p = b * n + q, a >= b + 1
      PROVE  FALSE
  <2>1. PICK k \in Nat : a = b + 1 + k
    <3>1. a - (b + 1) \in Nat /\ a = b + 1 + (a - (b + 1))
      BY <1>1
    <3> QED
      BY <3>1
  <2>2. a * n = b * n + n + k * n /\ k * n \in Nat /\ b * n \in Int
    BY <2>1
  <2> QED
    BY <1>1, <2>2
<1>2. ~(z >= w + 1) /\ ~(w >= z + 1)
  BY <1>1
<1>3. z = w
  BY <1>2
<1>4. z * n \in Int
  OBVIOUS
<1> QED
  BY <1>3, <1>4

(* Whole turns lead to the same place.                                     *)
LEMMA PlaceTurns ==
  ASSUME NEW n \in Nat \ {0}, NEW x \in Int, NEW y \in Int, NEW z \in Int,
         x = y + z * n
  PROVE  x % n = y % n
<1>1. PICK a \in Int : x = a * n + (x % n)
  BY PlaceExists
<1>2. PICK b \in Int : y = b * n + (y % n)
  BY PlaceExists
<1>3. x % n \in 0 .. n - 1 /\ y % n \in 0 .. n - 1
  BY PlaceExists
<1>4. (b + z) * n = b * n + z * n /\ b + z \in Int /\ b * n \in Int /\ z * n \in Int
  OBVIOUS
<1> DEFINE r == x % n
           s == y % n
<1>5. a * n + r = (b + z) * n + s
  BY <1>1, <1>2, <1>3, <1>4
<1>6. r \in 0 .. n - 1 /\ s \in 0 .. n - 1
  BY <1>3
<1> HIDE DEF r, s
<1>7. r = s
  BY <1>4, <1>5, <1>6, PlaceUnique
<1> QED
  BY <1>7 DEF r, s

LEMMA PlaceItself ==
  ASSUME NEW n \in Nat \ {0}, NEW x \in 0 .. n - 1
  PROVE  x % n = x
<1>0. x \in Int
  OBVIOUS
<1>1. PICK z \in Int : x = z * n + (x % n)
  BY <1>0, PlaceExists
<1>2. x % n \in 0 .. n - 1 /\ 0 * n = 0
  BY PlaceExists
<1> DEFINE r == x % n
<1>3. 0 * n + x = z * n + r /\ r \in 0 .. n - 1
  BY <1>1, <1>2
<1> HIDE DEF r
<1>4. x = r
  BY <1>3, PlaceUnique
<1> QED
  BY <1>4 DEF r

(* Steps may be taken one after another.                                   *)
LEMMA PlaceSteps ==
  ASSUME NEW n \in Nat \ {0}, NEW x \in Int, NEW y \in Int
  PROVE  ((x % n) + y) % n = (x + y) % n
<1>1. PICK z \in Int : x = z * n + (x % n)
  BY PlaceExists
<1>2. x % n \in Int
  BY PlaceExists
<1> DEFINE r == x % n
<1>3. x = z * n + r /\ r \in Int
  BY <1>1, <1>2
<1> HIDE DEF r
<1>4. x + y = (r + y) + z * n /\ r + y \in Int /\ x + y \in Int
  BY <1>3
<1>5. (x + y) % n = (r + y) % n
  BY <1>4, PlaceTurns
<1> QED
  BY <1>5 DEF r

(* Fewer steps than a turn has lead away, and different ones apart.        *)
LEMMA PlacesApart ==
  ASSUME NEW n \in Nat \ {0}, NEW x \in Int, NEW i \in 0 .. n - 1, NEW j \in 0 .. n - 1,
         (x - i) % n = (x - j) % n
  PROVE  i = j
<1>0. x - i \in Int /\ x - j \in Int
  OBVIOUS
<1> DEFINE r == (x - i) % n
<1>1. r \in 0 .. n - 1 /\ r \in Int
  BY PlaceExists
<1>2. PICK a \in Int : x - i = a * n + r
  BY <1>0, PlaceExists
<1>3. PICK b \in Int : x - j = b * n + r
  BY <1>0, PlaceExists
<1> HIDE DEF r
<1>4. a * n \in Int /\ b * n \in Int
  OBVIOUS
<1>5. a * n + i = b * n + j
  BY <1>1, <1>2, <1>3, <1>4
<1> QED
  BY <1>5, PlaceUnique

-----------------------------------------------------------------------------
(* Greatest elements                                                       *)

LEMMA GreatestExists ==
  ASSUME NEW S, S \subseteq Int, IsFiniteSet(S), S # {}
  PROVE  \E x \in S : \A y \in S : x >= y
<1> DEFINE G == {s \in SUBSET S : s = {} \/ \E x \in s : \A y \in s : x >= y}
<1>1. ASSUME NEW s \in SUBSET S, s # {}, \A x \in s : s \ {x} \in G
      PROVE  s \in G
  <2>1. PICK x \in s : TRUE
    BY <1>1
  <2>2. CASE s \ {x} = {}
    BY <2>1, <2>2
  <2>3. CASE s \ {x} # {}
    <3>1. PICK z \in s \ {x} : \A y \in s \ {x} : z >= y
      BY <1>1, <2>3
    <3>2. x \in Int /\ z \in Int /\ s \subseteq Int
      OBVIOUS
    <3>3. CASE x >= z
      <4>1. \A y \in s : x >= y
        BY <3>1, <3>2, <3>3
      <4> QED
        BY <4>1
    <3>4. CASE z >= x
      <4>1. \A y \in s : z >= y
        BY <3>1, <3>2, <3>4
      <4> QED
        BY <4>1, <3>1
    <3> QED
      BY <3>2, <3>3, <3>4
  <2> QED
    BY <2>2, <2>3
<1>2. {} \in G
  OBVIOUS
<1>3. S \in G
  <2> HIDE DEF G
  <2>1. \A s \in SUBSET S : s \in G
    BY <1>1, <1>2, SubsetInduction
  <2> QED
    BY <2>1
<1> QED
  BY <1>3

LEMMA MaxOfSet ==
  ASSUME NEW S, S \subseteq Int, IsFiniteSet(S), S # {}
  PROVE  Max(S) \in S /\ \A y \in S : Max(S) >= y
BY GreatestExists DEF Max

LEMMA ImageFinite ==
  ASSUME NEW S, IsFiniteSet(S), NEW f
  PROVE  IsFiniteSet({f[x] : x \in S})
<1> DEFINE T == {f[x] : x \in S}
           g == [x \in S |-> f[x]]
<1>1. g \in Surjection(S, T)
  BY DEF Surjection
<1> HIDE DEF g, T
<1>2. IsFiniteSet(T)
  BY <1>1, FS_Surjection
<1> QED
  BY <1>2 DEF T

-----------------------------------------------------------------------------
(* Sums                                                                    *)

Chosen(s) == CHOOSE x \in s : TRUE

(* The sums of f over the subsets of S, as the library computes them.      *)
SumOf(f, s, sums) ==
  IF s = {} THEN 0 ELSE f[Chosen(s)] + sums[s \ {Chosen(s)}]
IsSums(f, S, sums) == sums = [s \in SUBSET S |-> SumOf(f, s, sums)]

LEMMA SumIsChosen ==
  ASSUME NEW f, NEW S
  PROVE  SumFunctionOnSet(f, S) = (CHOOSE sums : IsSums(f, S, sums))[S]
BY Zenon DEF SumFunctionOnSet, FoldFunctionOnSet, MapThenFoldSet, IsSums, SumOf, Chosen

LEMMA ChosenIsIn == \A s : s # {} => Chosen(s) \in s
BY DEF Chosen

(* There are such sums: they can be computed for larger and larger sets.   *)
LEMMA SumsExist ==
  ASSUME NEW f, NEW S, IsFiniteSet(S)
  PROVE  \E sums : IsSums(f, S, sums)
<1> DEFINE UpTo(n, sums) == \A s \in SUBSET S :
                              Cardinality(s) <= n => sums[s] = SumOf(f, s, sums)
           G == {n \in Nat : \E sums : UpTo(n, sums)}
<1>1. \A s \in SUBSET S : IsFiniteSet(s) /\ Cardinality(s) \in Nat
  BY FS_Subset, FS_CardinalityType
<1>2. \A s \in SUBSET S : Cardinality(s) = 0 => s = {}
  BY <1>1, FS_EmptySet
<1>3. 0 \in G
  <2>1. UpTo(0, [s \in SUBSET S |-> 0])
    BY <1>1, <1>2 DEF SumOf
  <2> HIDE DEF UpTo
  <2> QED
    BY <2>1
<1>4. ASSUME NEW n \in Nat, n \in G PROVE n + 1 \in G
  <2>1. PICK old : UpTo(n, old)
    BY <1>4
  <2> DEFINE new == [s \in SUBSET S |-> SumOf(f, s, old)]
  <2>2. ASSUME NEW s \in SUBSET S, Cardinality(s) <= n + 1
        PROVE  new[s] = SumOf(f, s, new)
    <3>1. CASE s = {}
      BY <3>1 DEF SumOf
    <3>2. CASE s # {}
      <4> DEFINE rest == s \ {Chosen(s)}
      <4>1. rest \in SUBSET S /\ Cardinality(rest) = Cardinality(s) - 1
        BY <1>1, <3>2, ChosenIsIn, FS_RemoveElement
      <4>2. Cardinality(rest) <= n
        BY <1>1, <2>2, <4>1
      <4> HIDE DEF rest
      <4>3. old[rest] = SumOf(f, rest, old)
        BY <2>1, <4>1, <4>2
      <4>4. new[rest] = old[rest]
        BY <4>1, <4>3
      <4>5. new[s] = f[Chosen(s)] + old[rest]
        BY <3>2 DEF SumOf, rest
      <4>6. SumOf(f, s, new) = f[Chosen(s)] + new[rest]
        BY <3>2 DEF SumOf, rest
      <4> QED
        BY <4>4, <4>5, <4>6
    <3> QED
      BY <3>1, <3>2
  <2>3. UpTo(n + 1, new)
    BY <2>2
  <2> HIDE DEF UpTo, new
  <2> QED
    BY <2>3
<1>5. Cardinality(S) \in G
  <2> HIDE DEF G
  <2>1. Nat \subseteq G
    BY <1>3, <1>4, NumberInduction
  <2> QED
    BY <1>1, <2>1
<1>6. PICK old : UpTo(Cardinality(S), old)
  BY <1>5
<1>7. \A s \in SUBSET S : old[s] = SumOf(f, s, old)
  BY <1>1, <1>6, FS_Subset
<1> DEFINE sums == [s \in SUBSET S |-> old[s]]
<1>8. ASSUME NEW s \in SUBSET S PROVE SumOf(f, s, sums) = old[s]
  <2>1. s # {} => s \ {Chosen(s)} \in SUBSET S
    OBVIOUS
  <2>2. SumOf(f, s, sums) = SumOf(f, s, old)
    BY <2>1 DEF SumOf
  <2> QED
    BY <1>7, <2>2
<1>9. sums = [s \in SUBSET S |-> SumOf(f, s, sums)]
  <2>1. [s \in SUBSET S |-> SumOf(f, s, sums)] = [s \in SUBSET S |-> old[s]]
    BY <1>8
  <2> QED
    BY <2>1
<1> QED
  BY <1>9 DEF IsSums

(* They are determined: two tables of sums, over sets of which one holds   *)
(* the other, agree.                                                       *)
LEMMA SumsAgree ==
  ASSUME NEW f, NEW S, IsFiniteSet(S), NEW T \in SUBSET S,
         NEW a, NEW b, IsSums(f, S, a), IsSums(f, T, b)
  PROVE  a[T] = b[T]
<1> DEFINE G == {s \in SUBSET T : a[s] = b[s]}
<1>1. /\ \A s \in SUBSET T : a[s] = SumOf(f, s, a)
      /\ \A s \in SUBSET T : b[s] = SumOf(f, s, b)
  BY DEF IsSums
<1>2. {} \in G
  BY <1>1 DEF SumOf
<1>3. ASSUME NEW s \in SUBSET T, s # {}, \A x \in s : s \ {x} \in G
      PROVE  s \in G
  <2>1. Chosen(s) \in s
    BY <1>3, ChosenIsIn
  <2>2. a[s \ {Chosen(s)}] = b[s \ {Chosen(s)}]
    BY <1>3, <2>1
  <2> QED
    BY <1>1, <1>3, <2>2 DEF SumOf
<1>4. IsFiniteSet(T)
  BY FS_Subset
<1> HIDE DEF G
<1>5. \A s \in SUBSET T : s \in G
  BY <1>2, <1>3, <1>4, SubsetInduction
<1> QED
  BY <1>5 DEF G

(* What the sum over a part is, in the table of the whole.                 *)
LEMMA SumInTable ==
  ASSUME NEW f, NEW S, IsFiniteSet(S)
  PROVE  \E sums : /\ IsSums(f, S, sums)
                   /\ \A s \in SUBSET S : SumFunctionOnSet(f, s) = sums[s]
<1>1. PICK sums : IsSums(f, S, sums)
  BY SumsExist
<1>2. ASSUME NEW s \in SUBSET S PROVE SumFunctionOnSet(f, s) = sums[s]
  <2>1. IsFiniteSet(s)
    BY FS_Subset
  <2>2. \E x : IsSums(f, s, x)
    BY <2>1, SumsExist
  <2>3. PICK own : IsSums(f, s, own) /\ SumFunctionOnSet(f, s) = own[s]
    BY <2>2, SumIsChosen
  <2>4. sums[s] = own[s]
    BY <1>1, <2>3, SumsAgree
  <2> QED
    BY <2>3, <2>4
<1> QED
  BY <1>1, <1>2

(* Sums are numbers, and of equal terms they are equal.                    *)
LEMMA SumOfNothing == \A f : SumFunctionOnSet(f, {}) = 0
<1> SUFFICES ASSUME NEW f PROVE SumFunctionOnSet(f, {}) = 0
  OBVIOUS
<1>1. PICK sums : IsSums(f, {}, sums) /\ \A s \in SUBSET {} : SumFunctionOnSet(f, s) = sums[s]
  BY SumInTable, FS_EmptySet
<1>2. sums[{}] = SumOf(f, {}, sums)
  BY <1>1 DEF IsSums
<1> QED
  BY <1>1, <1>2 DEF SumOf

LEMMA SumEqual ==
  ASSUME NEW f, NEW g, NEW S, IsFiniteSet(S), \A x \in S : f[x] = g[x]
  PROVE  SumFunctionOnSet(f, S) = SumFunctionOnSet(g, S)
<1>1. PICK a : IsSums(f, S, a) /\ \A s \in SUBSET S : SumFunctionOnSet(f, s) = a[s]
  BY SumInTable
<1>2. PICK b : IsSums(g, S, b) /\ \A s \in SUBSET S : SumFunctionOnSet(g, s) = b[s]
  BY SumInTable
<1>3. IsSums(f, S, b)
  <2>1. \A s \in SUBSET S : SumOf(f, s, b) = SumOf(g, s, b)
    BY ChosenIsIn DEF SumOf
  <2>2. [s \in SUBSET S |-> SumOf(f, s, b)] = [s \in SUBSET S |-> SumOf(g, s, b)]
    BY <2>1
  <2> QED
    BY <1>2, <2>2 DEF IsSums
<1>4. a[S] = b[S]
  BY <1>1, <1>3, SumsAgree
<1> QED
  BY <1>1, <1>2, <1>4

(* The terms may be added in any order: any one can be the first.          *)
LEMMA SumStep ==
  ASSUME NEW f, NEW S, IsFiniteSet(S), \A x \in S : f[x] \in Int
  PROVE  /\ SumFunctionOnSet(f, S) \in Int
         /\ \A x \in S : SumFunctionOnSet(f, S) = f[x] + SumFunctionOnSet(f, S \ {x})
<1>1. PICK sums : IsSums(f, S, sums) /\ \A s \in SUBSET S : SumFunctionOnSet(f, s) = sums[s]
  BY SumInTable
<1>2. \A s \in SUBSET S : sums[s] = SumOf(f, s, sums)
  BY <1>1 DEF IsSums
<1>3. \A s \in SUBSET S : sums[s] \in Int
  <2> DEFINE G == {s \in SUBSET S : sums[s] \in Int}
  <2>1. {} \in G
    BY <1>2 DEF SumOf
  <2>2. ASSUME NEW s \in SUBSET S, s # {}, \A x \in s : s \ {x} \in G
        PROVE  s \in G
    <3>1. Chosen(s) \in s
      BY <2>2, ChosenIsIn
    <3>2. sums[s \ {Chosen(s)}] \in Int /\ f[Chosen(s)] \in Int
      BY <2>2, <3>1
    <3>3. sums[s] = f[Chosen(s)] + sums[s \ {Chosen(s)}]
      BY <1>2, <2>2 DEF SumOf
    <3> QED
      BY <3>2, <3>3
  <2> HIDE DEF G
  <2>3. \A s \in SUBSET S : s \in G
    BY <2>1, <2>2, SubsetInduction
  <2> QED
    BY <2>3 DEF G
<1> DEFINE G == {s \in SUBSET S : \A x \in s : sums[s] = f[x] + sums[s \ {x}]}
<1>4. {} \in G
  OBVIOUS
<1>5. ASSUME NEW s \in SUBSET S, s # {}, \A x \in s : s \ {x} \in G
      PROVE  s \in G
  <2> DEFINE c == Chosen(s)
  <2>1. c \in s /\ sums[s] = f[c] + sums[s \ {c}]
    BY <1>2, <1>5, ChosenIsIn DEF SumOf
  <2> HIDE DEF c
  <2>2. ASSUME NEW x \in s, x # c PROVE sums[s] = f[x] + sums[s \ {x}]
    <3> DEFINE rest == (s \ {c}) \ {x}
    <3>1. s \ {c} \in G /\ s \ {x} \in G /\ rest = (s \ {x}) \ {c}
      BY <1>5, <2>1
    <3>2. sums[s \ {c}] = f[x] + sums[rest]
      BY <2>2, <3>1
    <3>3. sums[s \ {x}] = f[c] + sums[rest]
      BY <2>1, <2>2, <3>1
    <3>4. sums[rest] \in Int /\ f[x] \in Int /\ f[c] \in Int
      BY <1>3, <2>1
    <3> HIDE DEF rest
    <3> QED
      BY <2>1, <3>2, <3>3, <3>4
  <2> QED
    BY <2>1, <2>2
<1> HIDE DEF G
<1>6. \A s \in SUBSET S : s \in G
  BY <1>4, <1>5, SubsetInduction
<1>7. S \in G /\ \A x \in S : S \ {x} \in SUBSET S
  BY <1>6
<1> QED
  BY <1>1, <1>3, <1>7 DEF G

(* What holds of sums by induction over the set summed over.               *)
LEMMA SumMonotone ==
  ASSUME NEW f, NEW g, NEW S, IsFiniteSet(S),
         \A x \in S : f[x] \in Int /\ g[x] \in Int /\ f[x] <= g[x]
  PROVE  SumFunctionOnSet(f, S) <= SumFunctionOnSet(g, S)
<1> DEFINE G == {s \in SUBSET S : SumFunctionOnSet(f, s) <= SumFunctionOnSet(g, s)}
<1>1. {} \in G
  BY SumOfNothing
<1>2. ASSUME NEW s \in SUBSET S, s # {}, \A x \in s : s \ {x} \in G
      PROVE  s \in G
  <2>1. PICK x \in s : TRUE
    BY <1>2
  <2>2. IsFiniteSet(s) /\ IsFiniteSet(s \ {x})
    BY FS_Subset
  <2>3. /\ SumFunctionOnSet(f, s) = f[x] + SumFunctionOnSet(f, s \ {x})
        /\ SumFunctionOnSet(g, s) = g[x] + SumFunctionOnSet(g, s \ {x})
        /\ SumFunctionOnSet(f, s \ {x}) \in Int
        /\ SumFunctionOnSet(g, s \ {x}) \in Int
    BY <2>2, SumStep
  <2>4. SumFunctionOnSet(f, s \ {x}) <= SumFunctionOnSet(g, s \ {x})
    BY <1>2
  <2>5. f[x] \in Int /\ g[x] \in Int /\ f[x] <= g[x]
    OBVIOUS
  <2>6. SumFunctionOnSet(f, s) <= SumFunctionOnSet(g, s)
    BY <2>3, <2>4, <2>5
  <2> QED
    BY <2>6
<1> HIDE DEF G
<1>3. \A s \in SUBSET S : s \in G
  BY <1>1, <1>2, SubsetInduction
<1>4. S \in G
  BY <1>3
<1> QED
  BY <1>4 DEF G

LEMMA SumOfZeros ==
  ASSUME NEW f, NEW S, IsFiniteSet(S), \A x \in S : f[x] = 0
  PROVE  SumFunctionOnSet(f, S) = 0
<1> DEFINE G == {s \in SUBSET S : SumFunctionOnSet(f, s) = 0}
<1>1. {} \in G
  BY SumOfNothing
<1>2. ASSUME NEW s \in SUBSET S, s # {}, \A x \in s : s \ {x} \in G
      PROVE  s \in G
  <2>1. PICK x \in s : TRUE
    BY <1>2
  <2>2. IsFiniteSet(s)
    BY FS_Subset
  <2>3. \A y \in s : f[y] \in Int
    OBVIOUS
  <2>4. SumFunctionOnSet(f, s) = f[x] + SumFunctionOnSet(f, s \ {x})
    BY <2>2, <2>3, SumStep
  <2>5. SumFunctionOnSet(f, s \ {x}) = 0 /\ f[x] = 0
    BY <1>2
  <2> QED
    BY <2>4, <2>5
<1> HIDE DEF G
<1>3. \A s \in SUBSET S : s \in G
  BY <1>1, <1>2, SubsetInduction
<1>4. S \in G
  BY <1>3
<1> QED
  BY <1>4 DEF G

LEMMA SumOfNaturals ==
  ASSUME NEW f, NEW S, IsFiniteSet(S), \A x \in S : f[x] \in Nat
  PROVE  SumFunctionOnSet(f, S) \in Nat
<1> DEFINE zeros == [x \in S |-> 0]
<1>1. \A x \in S : zeros[x] = 0 /\ f[x] \in Int /\ zeros[x] \in Int /\ zeros[x] <= f[x]
  OBVIOUS
<1> HIDE DEF zeros
<1>2. SumFunctionOnSet(zeros, S) = 0
  BY <1>1, SumOfZeros
<1>3. SumFunctionOnSet(zeros, S) <= SumFunctionOnSet(f, S)
  BY <1>1, SumMonotone
<1>4. SumFunctionOnSet(f, S) \in Int
  BY <1>1, SumStep
<1> QED
  BY <1>2, <1>3, <1>4

(* One term is more by d, the others are the same.                         *)
LEMMA SumOneMore ==
  ASSUME NEW f, NEW g, NEW S, IsFiniteSet(S), NEW c \in S, NEW d \in Int,
         \A x \in S : f[x] \in Int,
         \A x \in S : g[x] = IF x = c THEN f[x] + d ELSE f[x]
  PROVE  SumFunctionOnSet(g, S) = SumFunctionOnSet(f, S) + d
<1>1. \A x \in S : g[x] \in Int
  OBVIOUS
<1>2. IsFiniteSet(S \ {c})
  BY FS_RemoveElement
<1>3. \A x \in S \ {c} : g[x] = f[x]
  OBVIOUS
<1>4. SumFunctionOnSet(g, S \ {c}) = SumFunctionOnSet(f, S \ {c})
  BY <1>2, <1>3, SumEqual
<1>5. SumFunctionOnSet(f, S) = f[c] + SumFunctionOnSet(f, S \ {c})
  BY SumStep
<1>6. SumFunctionOnSet(g, S) = g[c] + SumFunctionOnSet(g, S \ {c})
  BY <1>1, SumStep
<1>7. SumFunctionOnSet(f, S \ {c}) \in Int /\ f[c] \in Int /\ g[c] = f[c] + d
  BY <1>2, SumStep
<1> QED
  BY <1>4, <1>5, <1>6, <1>7

(* A part of the terms, none of them negative, is no more than all.        *)
LEMMA SumOfPart ==
  ASSUME NEW f, NEW S, IsFiniteSet(S), NEW T \in SUBSET S,
         \A x \in S : f[x] \in Nat
  PROVE  SumFunctionOnSet(f, T) <= SumFunctionOnSet(f, S)
<1> DEFINE G == {s \in SUBSET S : T \subseteq s => SumFunctionOnSet(f, T) <= SumFunctionOnSet(f, s)}
<1>0. \A s \in SUBSET S : IsFiniteSet(s) /\ SumFunctionOnSet(f, s) \in Nat
  BY FS_Subset, SumOfNaturals
<1>1. {} \in G
  <2>1. T \subseteq {} => T = {}
    OBVIOUS
  <2> QED
    BY <1>0, <2>1
<1>2. ASSUME NEW s \in SUBSET S, s # {}, \A x \in s : s \ {x} \in G
      PROVE  s \in G
  <2> SUFFICES ASSUME T \subseteq s PROVE SumFunctionOnSet(f, T) <= SumFunctionOnSet(f, s)
    OBVIOUS
  <2>1. CASE T = s
    BY <1>0, <2>1
  <2>2. CASE T # s
    <3>1. PICK x \in s : x \notin T
      BY <2>2
    <3>2. SumFunctionOnSet(f, T) <= SumFunctionOnSet(f, s \ {x})
      BY <1>2, <3>1
    <3>3. \A y \in s : f[y] \in Int
      OBVIOUS
    <3>4. SumFunctionOnSet(f, s) = f[x] + SumFunctionOnSet(f, s \ {x})
      BY <1>0, <3>3, SumStep
    <3>5. /\ SumFunctionOnSet(f, s \ {x}) \in Nat /\ SumFunctionOnSet(f, T) \in Nat
          /\ f[x] \in Nat
      BY <1>0
    <3> QED
      BY <3>2, <3>4, <3>5
  <2> QED
    BY <2>1, <2>2
<1> HIDE DEF G
<1>3. \A s \in SUBSET S : s \in G
  BY <1>1, <1>2, SubsetInduction
<1>4. S \in G
  BY <1>3
<1> QED
  BY <1>4 DEF G

LEMMA FirstAreFinite == \A n \in Int : IsFiniteSet(0 .. n)
<1>1. 0 \in Int
  OBVIOUS
<1> QED
  BY <1>1, FS_Interval

LEMMA SumUpTo ==
  ASSUME NEW f, NEW n \in Nat, \A i \in 0 .. n : f[i] \in Int
  PROVE  /\ SumFunctionOnSet(f, 0 .. n) = f[n] + SumFunctionOnSet(f, 0 .. n - 1)
         /\ SumFunctionOnSet(f, 0 .. n - 1) \in Int
<1>1. n \in 0 .. n /\ (0 .. n) \ {n} = 0 .. n - 1 /\ n \in Int /\ n - 1 \in Int
  OBVIOUS
<1>2. IsFiniteSet(0 .. n) /\ IsFiniteSet(0 .. n - 1)
  BY <1>1, FirstAreFinite
<1>3. \A i \in 0 .. n - 1 : f[i] \in Int
  OBVIOUS
<1>4. SumFunctionOnSet(f, 0 .. n) = f[n] + SumFunctionOnSet(f, (0 .. n) \ {n})
  <2> DEFINE S == 0 .. n
  <2>1. n \in S /\ IsFiniteSet(S) /\ \A i \in S : f[i] \in Int
    BY <1>1, <1>2
  <2> HIDE DEF S
  <2>2. \A x \in S : SumFunctionOnSet(f, S) = f[x] + SumFunctionOnSet(f, S \ {x})
    BY <2>1, SumStep
  <2>3. SumFunctionOnSet(f, S) = f[n] + SumFunctionOnSet(f, S \ {n})
    BY <2>1, <2>2
  <2> QED
    BY <2>3 DEF S
<1>5. SumFunctionOnSet(f, 0 .. n - 1) \in Int
  BY <1>2, <1>3, SumStep
<1> QED
  BY <1>1, <1>4, <1>5

(* A sum over places that are all different may be taken over their numbers. *)
LEMMA SumOverPlaces ==
  ASSUME NEW f, NEW g, NEW P, NEW n \in Nat,
         \A i \in 0 .. n - 1 : f[P[i]] \in Int /\ g[i] = f[P[i]],
         \A i, j \in 0 .. n - 1 : P[i] = P[j] => i = j
  PROVE  SumFunctionOnSet(f, {P[i] : i \in 0 .. n - 1}) = SumFunctionOnSet(g, 0 .. n - 1)
<1> DEFINE Placed(j) == {P[i] : i \in 0 .. j - 1}
           G == {j \in Nat : j <= n =>
                   SumFunctionOnSet(f, Placed(j)) = SumFunctionOnSet(g, 0 .. j - 1)}
<1>1. 0 \in G
  <2>1. Placed(0) = {} /\ 0 .. 0 - 1 = {}
    OBVIOUS
  <2>2. SumFunctionOnSet(f, Placed(0)) = SumFunctionOnSet(g, 0 .. 0 - 1)
    BY <2>1, SumOfNothing
  <2> QED
    BY <2>2
<1>2. ASSUME NEW j \in Nat, j \in G PROVE j + 1 \in G
  <2> SUFFICES ASSUME j + 1 <= n
               PROVE  SumFunctionOnSet(f, Placed(j + 1)) = SumFunctionOnSet(g, 0 .. j)
    OBVIOUS
  <2> DEFINE S == Placed(j + 1)
  <2>1. P[j] \in S /\ S \ {P[j]} = Placed(j)
    OBVIOUS
  <2>2. IsFiniteSet(S)
    <3>1. IsFiniteSet(0 .. j)
      BY FirstAreFinite
    <3>2. S = {P[i] : i \in 0 .. j}
      OBVIOUS
    <3> QED
      BY <3>1, <3>2, ImageFinite
  <2>3. \A x \in S : f[x] \in Int
    OBVIOUS
  <2> HIDE DEF S
  <2>4. SumFunctionOnSet(f, S) = f[P[j]] + SumFunctionOnSet(f, S \ {P[j]})
    BY <2>1, <2>2, <2>3, SumStep
  <2>5. \A i \in 0 .. j : g[i] \in Int
    OBVIOUS
  <2>6. SumFunctionOnSet(g, 0 .. j) = g[j] + SumFunctionOnSet(g, 0 .. j - 1)
    BY <2>5, SumUpTo
  <2>7. SumFunctionOnSet(f, Placed(j)) = SumFunctionOnSet(g, 0 .. j - 1)
    BY <1>2
  <2>8. g[j] = f[P[j]]
    OBVIOUS
  <2> HIDE DEF Placed
  <2> QED
    BY <2>1, <2>4, <2>6, <2>7, <2>8 DEF S
<1>3. n \in G
  <2> HIDE DEF G
  <2>1. Nat \subseteq G
    BY <1>1, <1>2, NumberInduction
  <2> QED
    BY <2>1
<1> QED
  BY <1>3

(* Terms moved up by k places, the places they leave empty: a sum over the *)
(* first n places is no more than it was.                                  *)
LEMMA SumShifted ==
  ASSUME NEW f, NEW g, NEW n \in Nat, NEW k \in Nat,
         \A i \in 0 .. n - 1 : f[i] \in Nat,
         \A i \in 0 .. n - 1 : g[i] = IF i >= k THEN f[i - k] ELSE 0
  PROVE  SumFunctionOnSet(g, 0 .. n - 1) <= SumFunctionOnSet(f, 0 .. n - 1)
<1> DEFINE G == {j \in Nat : j <= n =>
                   SumFunctionOnSet(g, 0 .. j - 1) <= SumFunctionOnSet(f, 0 .. (IF j >= k THEN j - k ELSE 0) - 1)}
<1>0. \A i \in 0 .. n - 1 : g[i] \in Nat
  OBVIOUS
<1>1. 0 \in G
  BY SumOfNothing
<1>2. ASSUME NEW j \in Nat, j \in G PROVE j + 1 \in G
  <2> SUFFICES ASSUME j + 1 <= n
               PROVE SumFunctionOnSet(g, 0 .. j) <= SumFunctionOnSet(f, 0 .. (IF j + 1 >= k THEN j + 1 - k ELSE 0) - 1)
    OBVIOUS
  <2>1. \A i \in 0 .. j : g[i] \in Int
    BY <1>0
  <2>2. SumFunctionOnSet(g, 0 .. j) = g[j] + SumFunctionOnSet(g, 0 .. j - 1)
    BY <2>1, SumUpTo
  <2>3. SumFunctionOnSet(g, 0 .. j - 1) \in Int
    BY <2>1, SumUpTo
  <2>4. SumFunctionOnSet(g, 0 .. j - 1) <= SumFunctionOnSet(f, 0 .. (IF j >= k THEN j - k ELSE 0) - 1)
    BY <1>2
  <2>5. CASE j >= k
    <3> DEFINE i == j - k
    <3>1. /\ i \in 0 .. n - 1 /\ g[j] = f[i] /\ \A x \in 0 .. i : f[x] \in Int
          /\ j + 1 - k - 1 = i /\ i \in Nat /\ j + 1 >= k
      BY <2>5
    <3> HIDE DEF i
    <3>3. SumFunctionOnSet(f, 0 .. i) = f[i] + SumFunctionOnSet(f, 0 .. i - 1)
      BY <3>1, SumUpTo
    <3>4. SumFunctionOnSet(f, 0 .. i - 1) \in Int /\ f[i] \in Int
      BY <3>1, SumUpTo
    <3>5. SumFunctionOnSet(g, 0 .. j - 1) <= SumFunctionOnSet(f, 0 .. i - 1)
      BY <2>4, <2>5 DEF i
    <3>6. SumFunctionOnSet(g, 0 .. j) <= SumFunctionOnSet(f, 0 .. i)
      BY <2>2, <2>3, <3>1, <3>3, <3>4, <3>5
    <3> QED
      BY <3>1, <3>6
  <2>6. CASE j < k
    <3>1. g[j] = 0 /\ (IF j + 1 >= k THEN j + 1 - k ELSE 0) - 1 = -1 /\ ~(j >= k)
      BY <2>6
    <3> QED
      BY <2>2, <2>3, <2>4, <3>1
  <2> QED
    BY <2>5, <2>6
<1> HIDE DEF G
<1>3. n \in G
  <2>1. Nat \subseteq G
    BY <1>1, <1>2, NumberInduction
  <2> QED
    BY <2>1
<1> DEFINE p == (IF n >= k THEN n - k ELSE 0) - 1
<1>4. SumFunctionOnSet(g, 0 .. n - 1) <= SumFunctionOnSet(f, 0 .. p)
  BY <1>3 DEF G
<1>5. p \in Int /\ 0 .. p \in SUBSET (0 .. n - 1)
  OBVIOUS
<1> HIDE DEF p
<1>6. IsFiniteSet(0 .. n - 1)
  BY FirstAreFinite
<1>7. SumFunctionOnSet(f, 0 .. p) <= SumFunctionOnSet(f, 0 .. n - 1)
  BY <1>5, <1>6, SumOfPart
<1>8. /\ SumFunctionOnSet(g, 0 .. n - 1) \in Nat
      /\ SumFunctionOnSet(f, 0 .. n - 1) \in Nat
      /\ SumFunctionOnSet(f, 0 .. p) \in Nat
  <2>1. IsFiniteSet(0 .. p) /\ \A i \in 0 .. p : f[i] \in Nat
    BY <1>5, <1>6, FS_Subset
  <2> QED
    BY <1>0, <1>6, <2>1, SumOfNaturals
<1> QED
  BY <1>4, <1>7, <1>8

-----------------------------------------------------------------------------
(* Sequences                                                               *)

(* What appending does to the range of a sequence without duplicates.      *)
LEMMA AppendRange ==
  ASSUME NEW S, NEW s \in Seq(S), NEW e \in S
  PROVE  /\ Append(s, e) \in Seq(S)
         /\ Range(Append(s, e)) = Range(s) \cup {e}
         /\ IsInjective(s) /\ e \notin Range(s) => IsInjective(Append(s, e))
  <1>1. /\ Append(s, e) \in Seq(S) /\ Len(Append(s, e)) = Len(s) + 1
        /\ \A i \in 1 .. Len(s) : Append(s, e)[i] = s[i]
        /\ Append(s, e)[Len(s) + 1] = e
    BY AppendProperties
  <1>2. DOMAIN Append(s, e) = 1 .. Len(s) + 1 /\ DOMAIN s = 1 .. Len(s)
    BY <1>1
  <1>3. Range(Append(s, e)) = Range(s) \cup {e}
    BY <1>1, <1>2 DEF Range
  <1>4. IsInjective(s) /\ e \notin Range(s) => IsInjective(Append(s, e))
    BY <1>1, <1>2 DEF Range, IsInjective
  <1> QED
    BY <1>1, <1>3, <1>4

(* What removing an element leaves.                                        *)
LEMMA RemoveAtRange ==
  ASSUME NEW S, NEW s \in Seq(S), NEW i \in 1 .. Len(s)
  PROVE  /\ RemoveAt(s, i) \in Seq(S)
         /\ Range(RemoveAt(s, i)) \subseteq Range(s)
         /\ Range(s) \subseteq Range(RemoveAt(s, i)) \cup {s[i]}
         /\ IsInjective(s) => IsInjective(RemoveAt(s, i))
  <1> DEFINE a == SubSeq(s, 1, i - 1)
             b == SubSeq(s, i + 1, Len(s))
             r == a \o b
  <1>1. /\ a \in Seq(S) /\ Len(a) = i - 1
        /\ \A j \in 1 .. i - 1 : a[j] = s[j]
    BY SubSeqProperties
  <1>2. /\ b \in Seq(S) /\ Len(b) = Len(s) - i
        /\ \A j \in 1 .. Len(s) - i : b[j] = s[i + j]
    <2>1. \A j \in i + 1 .. Len(s) : s[j] \in S
      OBVIOUS
    <2>2. /\ b \in Seq(S)
          /\ Len(b) = IF i + 1 <= Len(s) THEN Len(s) - (i + 1) + 1 ELSE 0
          /\ \A j \in 1 .. Len(s) - (i + 1) + 1 : b[j] = s[i + 1 + j - 1]
      BY <2>1, SubSeqProperties
    <2> QED
      BY <2>2
  <1> HIDE DEF a, b
  <1>3. /\ r \in Seq(S) /\ Len(r) = Len(s) - 1
        /\ \A j \in 1 .. Len(s) - 1 :
             r[j] = IF j <= i - 1 THEN a[j] ELSE b[j - (i - 1)]
    <2>1. /\ r \in Seq(S) /\ Len(r) = Len(a) + Len(b)
          /\ \A j \in 1 .. Len(a) + Len(b) :
               r[j] = IF j <= Len(a) THEN a[j] ELSE b[j - Len(a)]
      BY <1>1, <1>2, ConcatProperties
    <2>2. Len(s) \in Nat /\ Len(a) + Len(b) = Len(s) - 1
      BY <1>1, <1>2
    <2> HIDE DEF r
    <2> QED
      BY <1>1, <2>1, <2>2
  <1> HIDE DEF r
  <1>4. ASSUME NEW j \in 1 .. Len(s) - 1
        PROVE  r[j] = IF j < i THEN s[j] ELSE s[j + 1]
    <2>1. CASE j < i
      BY <1>1, <1>3, <2>1
    <2>2. CASE ~ (j < i)
      <3>1. j - (i - 1) \in 1 .. Len(s) - i /\ i + (j - (i - 1)) = j + 1
        BY <2>2
      <3>2. b[j - (i - 1)] = s[i + (j - (i - 1))]
        BY <1>2, <3>1
      <3> QED
        BY <1>3, <2>2, <3>1, <3>2
    <2> QED
      BY <2>1, <2>2
  <1>5. DOMAIN r = 1 .. Len(s) - 1 /\ DOMAIN s = 1 .. Len(s) /\ Len(s) \in Nat
    BY <1>3
  <1>6. Range(r) \subseteq Range(s)
    BY <1>4, <1>5, SMTT(30) DEF Range
  <1>7. IsInjective(s) => IsInjective(r)
    <2> SUFFICES ASSUME IsInjective(s), NEW j \in DOMAIN r, NEW k \in DOMAIN r,
                        r[j] = r[k]
                 PROVE  j = k
      BY DEF IsInjective
    <2> DEFINE at(n) == IF n < i THEN n ELSE n + 1
    <2>1. at(j) \in DOMAIN s /\ at(k) \in DOMAIN s
      BY <1>5
    <2>2. s[at(j)] = s[at(k)]
      BY <1>4, <1>5
    <2>3. at(j) = at(k)
      BY <2>1, <2>2 DEF IsInjective
    <2> QED
      BY <1>5, <2>3
  <1>8. Range(s) \subseteq Range(r) \cup {s[i]}
    <2> SUFFICES ASSUME NEW k \in DOMAIN s, k # i PROVE s[k] \in Range(r)
      BY DEF Range
    <2>1. CASE k < i
      <3>1. k \in DOMAIN r /\ r[k] = s[k]
        BY <1>4, <1>5, <2>1
      <3> QED
        BY <3>1 DEF Range
    <2>2. CASE k > i
      <3>1. k - 1 \in 1 .. Len(s) - 1 /\ ~ (k - 1 < i) /\ (k - 1) + 1 = k
        BY <1>5, <2>2
      <3>2. k - 1 \in DOMAIN r /\ r[k - 1] = s[k]
        BY <1>4, <1>5, <3>1
      <3> QED
        BY <3>2 DEF Range
    <2> QED
      BY <1>5, <2>1, <2>2
  <1> QED
    BY <1>3, <1>6, <1>7, <1>8 DEF r, a, b, RemoveAt

-----------------------------------------------------------------------------
(* Parts of a sequence                                                     *)

LEMMA CutInTwo ==
  ASSUME NEW S, NEW s \in Seq(S), NEW n \in 0 .. Len(s)
  PROVE  /\ SubSeq(s, 1, n) \in Seq(S) /\ Len(SubSeq(s, 1, n)) = n
         /\ SubSeq(s, n + 1, Len(s)) \in Seq(S) /\ Len(SubSeq(s, n + 1, Len(s))) = Len(s) - n
         /\ SubSeq(s, 1, n) \o SubSeq(s, n + 1, Len(s)) = s
<1>1. Len(s) \in Nat /\ n \in Nat /\ \A i \in 1 .. Len(s) : s[i] \in S
  BY LenProperties, ElementOfSeq
<1>2. SubSeq(s, 1, n) \in Seq(S) /\ Len(SubSeq(s, 1, n)) = n
  <2>1. \A i \in 1 .. n : s[i] \in S
    BY <1>1
  <2>2. n = 0 \/ 1 <= n
    BY <1>1
  <2> QED
    BY <1>1, <2>1, <2>2, SubSeqProperties
<1>3. SubSeq(s, n + 1, Len(s)) \in Seq(S) /\ Len(SubSeq(s, n + 1, Len(s))) = Len(s) - n
  <2>1. \A i \in n + 1 .. Len(s) : s[i] \in S
    BY <1>1
  <2>2. PICK k \in Int : k = n + 1
    BY <1>1
  <2>3. /\ SubSeq(s, k, Len(s)) \in Seq(S)
        /\ Len(SubSeq(s, k, Len(s))) = IF k <= Len(s) THEN Len(s) - k + 1 ELSE 0
    BY <1>1, <2>1, <2>2, SubSeqProperties
  <2> QED
    BY <1>1, <2>2, <2>3
<1>4. SubSeq(s, 1, n) \o SubSeq(s, n + 1, Len(s)) = s
  <2>1. 1 \in 1 .. Len(s) + 1 /\ n \in 1 - 1 .. Len(s) /\ Len(s) \in n .. Len(s)
    BY <1>1
  <2>2. SubSeq(s, 1, n) \o SubSeq(s, n + 1, Len(s)) = SubSeq(s, 1, Len(s))
    BY <2>1, ConcatAdjacentSubSeq
  <2> QED
    BY <2>2, SubSeqFull
<1> QED
  BY <1>2, <1>3, <1>4

LEMMA Cancelled ==
  ASSUME NEW S, NEW a \in Seq(S), NEW b \in Seq(S), NEW c \in Seq(S),
         a \o b = a \o c
  PROVE  b = c
<1>1. /\ Len(a \o b) = Len(a) + Len(b)
      /\ \A i \in 1 .. Len(a) + Len(b) : (a \o b)[i] = IF i <= Len(a) THEN a[i] ELSE b[i - Len(a)]
  BY ConcatProperties
<1>2. /\ Len(a \o c) = Len(a) + Len(c)
      /\ \A i \in 1 .. Len(a) + Len(c) : (a \o c)[i] = IF i <= Len(a) THEN a[i] ELSE c[i - Len(a)]
  BY ConcatProperties
<1>3. Len(a) \in Nat /\ Len(b) \in Nat /\ Len(c) \in Nat
  BY LenProperties
<1>4. Len(b) = Len(c)
  BY <1>1, <1>2, <1>3
<1>5. ASSUME NEW i \in 1 .. Len(b) PROVE b[i] = c[i]
  <2>1. PICK k \in 1 .. Len(a) + Len(b) : k = Len(a) + i
    BY <1>3
  <2>2. ~(k <= Len(a)) /\ k - Len(a) = i
    BY <1>3, <2>1
  <2> QED
    BY <1>1, <1>2, <1>4, <2>2
<1> QED
  BY <1>4, <1>5, SeqEqual

LEMMA SameParts ==
  ASSUME NEW S, NEW a \in Seq(S), NEW b \in Seq(S), NEW c \in Seq(S),
         NEW d \in Seq(S), a \o b = c \o d, Len(a) = Len(c)
  PROVE  a = c /\ b = d
<1>1. a = c
  <2>1. ASSUME NEW k \in 1 .. Len(a) PROVE a[k] = c[k]
    <3>1. /\ k <= Len(a) /\ k \in 1 .. Len(a) + Len(b)
          /\ k <= Len(c) /\ k \in 1 .. Len(c) + Len(d)
      BY LenProperties
    <3>2. (a \o b)[k] = a[k]
      BY <3>1, ConcatProperties
    <3>3. (c \o d)[k] = c[k]
      BY <3>1, ConcatProperties
    <3> QED
      BY <3>2, <3>3
  <2> QED
    BY <2>1, SeqEqual
<1>2. a \o b = a \o d
  BY <1>1
<1> QED
  BY <1>1, <1>2, Cancelled

(* Three and four parts put together from the left (l) and from the right  *)
(* (r), with a name for every part on the way.                             *)
Regroups(S, a, b, c, ab, bc, l, r) ==
  /\ a \in Seq(S) /\ b \in Seq(S) /\ c \in Seq(S)
  /\ ab = a \o b /\ bc = b \o c /\ l = ab \o c /\ r = a \o bc

LEMMA ThreeParts ==
  ASSUME NEW S, NEW a, NEW b, NEW c, NEW ab, NEW bc, NEW l, NEW r,
         Regroups(S, a, b, c, ab, bc, l, r)
  PROVE  l = r
<1>1. a \in Seq(S) /\ b \in Seq(S) /\ c \in Seq(S)
  BY DEF Regroups
<1>2. (a \o b) \o c = a \o (b \o c)
  BY <1>1, ConcatAssociative, ConcatProperties
<1> QED
  BY <1>2 DEF Regroups

Regroups4(S, a, b, c, d, ab, abc, cd, bcd, l, r) ==
  /\ a \in Seq(S) /\ b \in Seq(S) /\ c \in Seq(S) /\ d \in Seq(S)
  /\ ab = a \o b /\ abc = ab \o c /\ l = abc \o d
  /\ cd = c \o d /\ bcd = b \o cd /\ r = a \o bcd

LEMMA FourParts ==
  ASSUME NEW S, NEW a, NEW b, NEW c, NEW d, NEW ab, NEW abc, NEW cd, NEW bcd,
         NEW l, NEW r, Regroups4(S, a, b, c, d, ab, abc, cd, bcd, l, r)
  PROVE  l = r
<1>1. ab \in Seq(S) /\ cd \in Seq(S)
  BY ConcatProperties DEF Regroups4
<1>2. PICK m : m = ab \o cd
  OBVIOUS
<1>3. Regroups(S, ab, c, d, abc, cd, l, m) /\ Regroups(S, a, b, cd, ab, bcd, m, r)
  BY <1>1, <1>2 DEF Regroups4, Regroups
<1>4. l = m /\ m = r
  BY <1>3, ThreeParts
<1> QED
  BY <1>4
-----------------------------------------------------------------------------
(* Sequences of sequences, one after another                               *)

(* What the library computes: all up to the i-th.                          *)
IsFlatten(s, f) ==
  f = [i \in 1 .. Len(s) |-> IF i = 1 THEN s[i] ELSE f[i - 1] \o s[i]]

LEMMA FlattenIsChosen ==
  ASSUME NEW s, Len(s) # 0
  PROVE  FlattenSeq(s) = (CHOOSE f : IsFlatten(s, f))[Len(s)]
BY Zenon DEF FlattenSeq, IsFlatten

LEMMA FlattenOfNone == FlattenSeq(<<>>) = <<>>
BY DEF FlattenSeq

(* The sequences up to each one, put together: f[i] is what i make.        *)
Grows(s, n, f) ==
  /\ f[0] = <<>>
  /\ \A i \in 1 .. n : f[i] = f[i - 1] \o s[i]
IsTable(S, s, n, f) == f \in [0 .. n -> Seq(S)] /\ Grows(s, n, f)

LEMMA TableExists ==
  ASSUME NEW S, NEW s \in Seq(Seq(S))
  PROVE  \E f : IsTable(S, s, Len(s), f)
<1> DEFINE G == {n \in Nat : n <= Len(s) => \E f : IsTable(S, s, n, f)}
<1>1. 0 \in G
  <2>1. IsTable(S, s, 0, [i \in 0 .. 0 |-> <<>>])
    BY DEF IsTable, Grows
  <2> QED
    BY <2>1
<1>2. ASSUME NEW n \in Nat, n \in G PROVE n + 1 \in G
  <2>1. SUFFICES ASSUME n + 1 <= Len(s) PROVE \E f : IsTable(S, s, n + 1, f)
    BY <1>2
  <2>2. PICK f : IsTable(S, s, n, f)
    <3>1. n <= Len(s)
      BY <2>1, LenProperties
    <3> QED
      BY <1>2, <3>1
  <2>3. s[n + 1] \in Seq(S)
    <3>1. n + 1 \in 1 .. Len(s)
      BY <2>1, LenProperties
    <3> QED
      BY <3>1, ElementOfSeq
  <2>4. f[n] \in Seq(S) /\ f[n] \o s[n + 1] \in Seq(S)
    <3>1. f[n] \in Seq(S)
      BY <2>2 DEF IsTable, Grows
    <3> QED
      BY <2>3, <3>1, ConcatProperties
  <2> DEFINE g == [i \in 0 .. n + 1 |-> IF i = n + 1 THEN f[n] \o s[n + 1] ELSE f[i]]
  <2>5. g \in [0 .. n + 1 -> Seq(S)] /\ g[0] = <<>>
    <3>1. f \in [0 .. n -> Seq(S)] /\ f[0] = <<>>
      BY <2>2 DEF IsTable, Grows
    <3>2. \A i \in 0 .. n + 1 : i = n + 1 \/ i \in 0 .. n
      OBVIOUS
    <3> QED
      BY <2>4, <3>1, <3>2
  <2>6. ASSUME NEW i \in 1 .. n + 1 PROVE g[i] = g[i - 1] \o s[i]
    <3>1. CASE i = n + 1
      <4>1. i - 1 = n /\ n # n + 1 /\ n \in 0 .. n + 1 /\ n + 1 \in 0 .. n + 1
        BY <3>1
      <4>2. g[n] = f[n] /\ g[n + 1] = f[n] \o s[n + 1]
        BY <4>1
      <4> HIDE DEF g
      <4> QED
        BY <3>1, <4>1, <4>2
    <3>2. CASE i # n + 1
      <4>1. i \in 1 .. n /\ i \in 0 .. n + 1 /\ i - 1 \in 0 .. n + 1 /\ i - 1 # n + 1
        BY <3>2
      <4>2. f[i] = f[i - 1] \o s[i]
        BY <2>2, <4>1 DEF IsTable, Grows
      <4> QED
        BY <3>2, <4>1, <4>2
    <3> QED
      BY <3>1, <3>2
  <2> HIDE DEF g
  <2>7. IsTable(S, s, n + 1, g)
    BY <2>5, <2>6 DEF IsTable, Grows
  <2> QED
    BY <2>7
<1>3. Len(s) \in G /\ Len(s) \in Nat
  <2> HIDE DEF G
  <2>1. Nat \subseteq G
    BY <1>1, <1>2, NumberInduction
  <2> QED
    BY <2>1, LenProperties
<1> QED
  BY <1>3

(* Tables agree as far as the sequences do.                                *)
LEMMA TablesAgree ==
  ASSUME NEW s, NEW n \in Nat, NEW f, NEW g, Grows(s, n, f), Grows(s, n, g)
  PROVE  f[n] = g[n]
<1> DEFINE G == {i \in Nat : i <= n => f[i] = g[i]}
<1>1. 0 \in G
  BY DEF Grows
<1>2. ASSUME NEW i \in Nat, i \in G PROVE i + 1 \in G
  <2>1. SUFFICES ASSUME i + 1 <= n PROVE f[i + 1] = g[i + 1]
    OBVIOUS
  <2>2. i + 1 \in 1 .. n /\ (i + 1) - 1 = i
    BY <2>1
  <2>3. f[i] = g[i]
    BY <1>2, <2>1
  <2>4. f[i + 1] = f[i] \o s[i + 1] /\ g[i + 1] = g[i] \o s[i + 1]
    BY <2>2 DEF Grows
  <2> QED
    BY <2>2, <2>3, <2>4
<1>3. n \in G
  <2> HIDE DEF G
  <2>1. Nat \subseteq G
    BY <1>1, <1>2, NumberInduction
  <2> QED
    BY <2>1
<1> QED
  BY <1>3

LEMMA FlattenInTable ==
  ASSUME NEW S, NEW s \in Seq(Seq(S)), NEW f, IsTable(S, s, Len(s), f)
  PROVE  FlattenSeq(s) = f[Len(s)] /\ FlattenSeq(s) \in Seq(S)
<1> DEFINE L == Len(s)
<1>0. L \in Nat
  BY LenProperties
<1>1. f \in [0 .. L -> Seq(S)] /\ f[0] = <<>> /\ \A i \in 1 .. L : f[i] = f[i - 1] \o s[i]
  BY DEF IsTable, Grows
<1>2. \A i \in 1 .. L : s[i] \in Seq(S)
  BY ElementOfSeq
<1>3. CASE L = 0
  <2>1. s = <<>>
    BY <1>3, EmptySeq
  <2> QED
    BY <1>1, <1>3, <2>1, FlattenOfNone
<1>4. CASE L # 0
  <2> DEFINE h == [i \in 1 .. L |-> f[i]]
  <2>1. IsFlatten(s, h)
    <3>1. ASSUME NEW i \in 1 .. L
          PROVE  h[i] = IF i = 1 THEN s[i] ELSE h[i - 1] \o s[i]
      <4>1. CASE i = 1
        <5>1. 1 \in 1 .. L /\ 1 - 1 = 0
          BY <1>0, <4>1
        <5>11. f[1] = f[1 - 1] \o s[1] /\ s[1] \in Seq(S)
          BY <1>1, <1>2, <5>1
        <5>12. f[1] = f[0] \o s[1] /\ s[1] \in Seq(S)
          BY <5>1, <5>11
        <5>2. f[1] = s[1]
          BY <1>1, <5>12, ConcatEmptySeq
        <5> QED
          BY <4>1, <5>1, <5>2
      <4>2. CASE i # 1
        <5>1. i - 1 \in 1 .. L
          BY <1>0, <4>2
        <5> QED
          BY <1>1, <4>2, <5>1
      <4> QED
        BY <4>1, <4>2
    <3>2. h = [i \in 1 .. L |-> h[i]]
      OBVIOUS
    <3> HIDE DEF h
    <3> QED
      BY <3>1, <3>2 DEF IsFlatten
  <2> DEFINE c == CHOOSE g : IsFlatten(s, g)
  <2>2. IsFlatten(s, c) /\ FlattenSeq(s) = c[L]
    BY <1>4, <2>1, FlattenIsChosen
  <2> HIDE DEF c
  <2> DEFINE g == [i \in 0 .. L |-> IF i = 0 THEN <<>> ELSE f[i]]
             G == {n \in Nat : n + 1 <= L => c[n + 1] = f[n + 1]}
  <2>3. \A i \in 1 .. L : c[i] = IF i = 1 THEN s[i] ELSE c[i - 1] \o s[i]
    BY <2>2 DEF IsFlatten
  <2>4. \A i \in 1 .. L : h[i] = IF i = 1 THEN s[i] ELSE h[i - 1] \o s[i]
    <3> HIDE DEF h
    <3> QED
      BY <2>1 DEF IsFlatten
  <2>5. 0 \in G
    <3>1. 1 \in 1 .. L /\ 0 + 1 = 1
      BY <1>0, <1>4
    <3>2. c[1] = s[1] /\ h[1] = s[1] /\ h[1] = f[1]
      BY <2>3, <2>4, <3>1
    <3> QED
      BY <3>1, <3>2
  <2>6. ASSUME NEW n \in Nat, n \in G PROVE n + 1 \in G
    <3>1. SUFFICES ASSUME n + 2 <= L PROVE c[n + 2] = f[n + 2]
      OBVIOUS
    <3>2. n + 1 \in 1 .. L /\ n + 2 \in 1 .. L /\ n + 2 # 1 /\ (n + 2) - 1 = n + 1
      BY <1>0, <3>1
    <3>3. c[n + 1] = f[n + 1]
      BY <2>6, <1>0, <3>1
    <3>4. c[n + 2] = c[n + 1] \o s[n + 2]
      BY <2>3, <3>2
    <3>5. f[n + 2] = f[n + 1] \o s[n + 2]
      BY <1>1, <3>2
    <3> QED
      BY <3>3, <3>4, <3>5
  <2>7. L - 1 \in G
    <3> HIDE DEF G
    <3>1. Nat \subseteq G
      BY <2>5, <2>6, NumberInduction
    <3> QED
      BY <1>0, <1>4, <3>1
  <2>8. c[L] = f[L]
    <3>1. L - 1 + 1 = L /\ L - 1 + 1 <= L
      BY <1>0
    <3> QED
      BY <2>7, <3>1
  <2> QED
    BY <1>0, <1>1, <2>2, <2>8
<1> QED
  BY <1>3, <1>4

LEMMA FlattenType ==
  ASSUME NEW S, NEW s \in Seq(Seq(S))
  PROVE  FlattenSeq(s) \in Seq(S)
BY TableExists, FlattenInTable

LEMMA FlattenAppend ==
  ASSUME NEW S, NEW s \in Seq(Seq(S)), NEW e \in Seq(S)
  PROVE  FlattenSeq(Append(s, e)) = FlattenSeq(s) \o e
<1> DEFINE t == Append(s, e)
           n == Len(s)
<1>1. /\ t \in Seq(Seq(S)) /\ Len(t) = n + 1 /\ n \in Nat
      /\ \A i \in 1 .. n : s[i] = t[i]
      /\ t[n + 1] = e
  BY AppendProperties, LenProperties
<1>2. PICK f : IsTable(S, s, n, f)
  BY TableExists
<1> HIDE DEF t
<1>3. PICK g : IsTable(S, t, Len(t), g)
  BY <1>1, TableExists
<1>4. FlattenSeq(s) = f[n]
  BY <1>2, FlattenInTable
<1>5. FlattenSeq(t) = g[n + 1]
  BY <1>1, <1>3, FlattenInTable
<1>6. f[n] = g[n]
  <2>1. Grows(s, n, f)
    BY <1>2 DEF IsTable
  <2>2. g[0] = <<>>
    BY <1>3 DEF IsTable, Grows
  <2>3. ASSUME NEW i \in 1 .. n PROVE g[i] = g[i - 1] \o s[i]
    <3>1. i \in 1 .. Len(t) /\ t[i] = s[i]
      BY <1>1
    <3>2. g[i] = g[i - 1] \o t[i]
      BY <1>3, <3>1 DEF IsTable, Grows
    <3> QED
      BY <3>1, <3>2
  <2>4. Grows(s, n, g) /\ n \in Nat
    BY <1>1, <2>2, <2>3 DEF Grows
  <2> HIDE DEF n
  <2> QED
    BY <2>1, <2>4, TablesAgree
<1>7. g[n + 1] = g[n] \o e
  <2>1. n + 1 \in 1 .. n + 1 /\ (n + 1) - 1 = n
    BY <1>1
  <2>2. \A i \in 1 .. n + 1 : g[i] = g[i - 1] \o t[i]
    BY <1>1, <1>3 DEF IsTable, Grows
  <2> QED
    BY <1>1, <2>1, <2>2
<1> QED
  BY <1>4, <1>5, <1>6, <1>7 DEF t

LEMMA FlattenOfOne ==
  ASSUME NEW S, NEW e \in Seq(S)
  PROVE  FlattenSeq(<<e>>) = e
<1>1. <<e>> = Append(<<>>, e) /\ <<>> \in Seq(Seq(S))
  BY EmptySeq
<1>2. FlattenSeq(<<e>>) = FlattenSeq(<<>>) \o e
  BY <1>1, FlattenAppend
<1> QED
  BY <1>2, FlattenOfNone, ConcatEmptySeq

LEMMA FlattenConcat ==
  ASSUME NEW S, NEW s \in Seq(Seq(S)), NEW t \in Seq(Seq(S))
  PROVE  FlattenSeq(s \o t) = FlattenSeq(s) \o FlattenSeq(t)
<1> DEFINE G == {n \in Nat : \A u \in Seq(Seq(S)) : Len(u) = n =>
                   FlattenSeq(s \o u) = FlattenSeq(s) \o FlattenSeq(u)}
<1>0. FlattenSeq(s) \in Seq(S)
  BY FlattenType
<1>1. 0 \in G
  <2>1. ASSUME NEW u \in Seq(Seq(S)), Len(u) = 0
        PROVE  FlattenSeq(s \o u) = FlattenSeq(s) \o FlattenSeq(u)
    <3>1. u = <<>>
      BY <2>1, EmptySeq
    <3> QED
      BY <1>0, <3>1, FlattenOfNone, ConcatEmptySeq
  <2> QED
    BY <2>1
<1>2. ASSUME NEW n \in Nat, n \in G PROVE n + 1 \in G
  <2>1. ASSUME NEW u \in Seq(Seq(S)), Len(u) = n + 1
        PROVE  FlattenSeq(s \o u) = FlattenSeq(s) \o FlattenSeq(u)
    <3>1. u # <<>>
      BY <2>1, EmptySeq
    <3>2. PICK v \in Seq(Seq(S)), e \in Seq(S) : u = Append(v, e)
      BY <3>1, SequenceEmptyOrAppend
    <3>3. Len(v) = n
      <4>1. Len(u) = Len(v) + 1 /\ Len(v) \in Nat
        BY <3>2, AppendProperties, LenProperties
      <4> QED
        BY <2>1, <4>1
    <3>4. FlattenSeq(s \o v) = FlattenSeq(s) \o FlattenSeq(v)
      BY <1>2, <3>3
    <3>5. s \o u = Append(s \o v, e) /\ s \o v \in Seq(Seq(S))
      <4>1. u = v \o <<e>> /\ <<e>> \in Seq(Seq(S))
        BY <3>2, AppendIsConcat
      <4>2. s \o v \in Seq(Seq(S))
        BY ConcatProperties
      <4>3. s \o u = (s \o v) \o <<e>>
        <5>1. PICK U, one, vo, sv, l, r :
                /\ U = Seq(S) /\ one = <<e>> /\ vo = v \o one /\ sv = s \o v
                /\ l = sv \o one /\ r = s \o vo
          OBVIOUS
        <5>2. s \in Seq(U) /\ v \in Seq(U) /\ one \in Seq(U)
          BY <4>1, <5>1
        <5>3. Regroups(U, s, v, one, sv, vo, l, r)
          BY <5>1, <5>2 DEF Regroups
        <5>4. l = r
          BY <5>3, ThreeParts
        <5> QED
          BY <4>1, <5>1, <5>4
      <4> QED
        BY <4>2, <4>3, AppendIsConcat
    <3>6. FlattenSeq(s \o u) = FlattenSeq(s \o v) \o e
      BY <3>5, FlattenAppend
    <3>7. FlattenSeq(u) = FlattenSeq(v) \o e /\ FlattenSeq(v) \in Seq(S)
      BY <3>2, FlattenAppend, FlattenType
    <3> QED
      <4>1. PICK a, b, ab, be, l, r :
              /\ a = FlattenSeq(s) /\ b = FlattenSeq(v) /\ ab = a \o b /\ be = b \o e
              /\ l = ab \o e /\ r = a \o be
        OBVIOUS
      <4>2. Regroups(S, a, b, e, ab, be, l, r)
        BY <1>0, <3>7, <4>1 DEF Regroups
      <4>3. l = r
        BY <4>2, ThreeParts
      <4> QED
        BY <3>4, <3>6, <3>7, <4>1, <4>3
  <2> QED
    BY <2>1
<1>3. Len(t) \in G
  <2> HIDE DEF G
  <2>1. Nat \subseteq G
    BY <1>1, <1>2, NumberInduction
  <2> QED
    BY <2>1, LenProperties
<1> QED
  BY <1>3

(* What is not among the first of several pieces put together begins with  *)
(* the next of them.                                                       *)
LEMMA NextPiece ==
  ASSUME NEW S, NEW p \in Seq(Seq(S)), NEW n \in 0 .. Len(p), NEW rest \in Seq(S),
         FlattenSeq(SubSeq(p, 1, n)) \o rest = FlattenSeq(p)
  PROVE  /\ n = Len(p) => rest = <<>>
         /\ n < Len(p) =>
              /\ \E x \in Seq(S) : rest = p[n + 1] \o x
              /\ FlattenSeq(SubSeq(p, 1, n + 1)) = FlattenSeq(SubSeq(p, 1, n)) \o p[n + 1]
<1> DEFINE a == SubSeq(p, 1, n)
           b == SubSeq(p, n + 1, Len(p))
<1>1. /\ a \in Seq(Seq(S)) /\ b \in Seq(Seq(S)) /\ a \o b = p
      /\ Len(a) = n /\ Len(b) = Len(p) - n /\ Len(p) \in Nat /\ n \in Nat
  <2>1. Len(p) \in Nat /\ n \in Nat
    BY LenProperties
  <2>2. /\ SubSeq(p, 1, n) \in Seq(Seq(S)) /\ Len(SubSeq(p, 1, n)) = n
        /\ SubSeq(p, n + 1, Len(p)) \in Seq(Seq(S))
        /\ Len(SubSeq(p, n + 1, Len(p))) = Len(p) - n
        /\ SubSeq(p, 1, n) \o SubSeq(p, n + 1, Len(p)) = p
    BY CutInTwo
  <2> QED
    BY <2>1, <2>2
<1> HIDE DEF a, b
<1>2. FlattenSeq(a) \in Seq(S) /\ FlattenSeq(b) \in Seq(S)
  BY <1>1, FlattenType
<1>3. rest = FlattenSeq(b)
  <2>1. FlattenSeq(p) = FlattenSeq(a) \o FlattenSeq(b)
    BY <1>1, FlattenConcat
  <2>2. FlattenSeq(a) \o rest = FlattenSeq(a) \o FlattenSeq(b)
    BY <2>1 DEF a
  <2> QED
    BY <1>2, <2>2, Cancelled
<1>4. ASSUME n = Len(p) PROVE rest = <<>>
  <2>1. b = <<>>
    BY <1>1, <1>4, EmptySeq
  <2> QED
    BY <1>3, <2>1, FlattenOfNone
<1>5. ASSUME n < Len(p)
      PROVE  /\ \E x \in Seq(S) : rest = p[n + 1] \o x
             /\ FlattenSeq(SubSeq(p, 1, n + 1)) = FlattenSeq(a) \o p[n + 1]
  <2>1. PICK k \in 1 .. Len(p) : k = n + 1
    BY <1>1, <1>5
  <2>2. PICK x \in Seq(S) : x = p[k]
    BY <2>1, ElementOfSeq
  <2> DEFINE d == SubSeq(p, k + 1, Len(p))
  <2>3. <<x>> \in Seq(Seq(S)) /\ d \in Seq(Seq(S)) /\ FlattenSeq(<<x>>) = x
    <3>1. k \in 0 .. Len(p)
      BY <1>1, <2>1
    <3> QED
      BY <2>2, <3>1, CutInTwo, FlattenOfOne
  <2>4. b = <<x>> \o d
    <3>1. Len(p) \in k .. Len(p)
      BY <1>1, <2>1
    <3>2. SubSeq(p, k, Len(p)) = <<p[k]>> \o SubSeq(p, k + 1, Len(p))
      BY <3>1, SubSeqRecursiveFirst
    <3> QED
      BY <2>1, <2>2, <3>2 DEF b
  <2>5. SubSeq(p, 1, k) = a \o <<x>>
    <3>1. 1 \in 1 .. Len(p) /\ k \in 1 .. Len(p) /\ k - 1 = n
      BY <1>1, <2>1
    <3>2. SubSeq(p, 1, k) = SubSeq(p, 1, k - 1) \o <<p[k]>>
      BY <3>1, SubSeqRecursiveSecond
    <3> QED
      BY <2>2, <3>1, <3>2 DEF a
  <2> HIDE DEF d
  <2>6. FlattenSeq(b) = x \o FlattenSeq(d) /\ FlattenSeq(d) \in Seq(S)
    BY <2>3, <2>4, FlattenConcat, FlattenType
  <2>7. FlattenSeq(SubSeq(p, 1, k)) = FlattenSeq(a) \o x
    <3>1. a \in Seq(Seq(S)) /\ <<x>> \in Seq(Seq(S))
      BY <1>1, <2>3
    <3>2. FlattenSeq(a \o <<x>>) = FlattenSeq(a) \o FlattenSeq(<<x>>)
      BY <3>1, FlattenConcat
    <3> QED
      BY <2>3, <2>5, <3>2
  <2> QED
    BY <1>3, <2>1, <2>2, <2>6, <2>7
<1> QED
  BY <1>4, <1>5 DEF a
=============================================================================
