----------------------------- MODULE SumsProofs -----------------------------
(***************************************************************************)
(* Facts about SumOver, cited by the ledger's proofs, and about least and  *)
(* highest elements, which replace induction in the other proofs.          *)
(***************************************************************************)
EXTENDS Sums, Functions, FiniteSetTheorems, WellFoundedInduction, TLAPS

(* A finite set of rows has finitely many units.                           *)
LEMMA UnitsFinite ==
  ASSUME NEW S, IsFiniteSet(S), NEW f, \A x \in S : f[x] \in Nat
  PROVE  IsFiniteSet(Units(S, f))
<1> DEFINE block == [x \in S |-> {x} \X (1..f[x])]
           blocks == {{x} \X (1..f[x]) : x \in S}
<1>1. block \in Surjection(S, blocks)
  BY DEF Surjection
<1>2. IsFiniteSet(blocks)
  BY <1>1, FS_Surjection
<1>3. ASSUME NEW b \in blocks PROVE IsFiniteSet(b)
  <2>1. PICK x \in S : b = {x} \X (1..f[x])
    OBVIOUS
  <2>2. IsFiniteSet({x})
    BY FS_Singleton
  <2>3. f[x] \in Int /\ 1 \in Int
    OBVIOUS
  <2>4. IsFiniteSet(1..f[x])
    BY <2>3, FS_Interval
  <2>5. QED
    BY <2>1, <2>2, <2>4, FS_Product
<1>4. QED
  BY <1>2, <1>3, FS_UNION DEF Units

(* The sum is a natural number.                                            *)
LEMMA SumType ==
  ASSUME NEW S, IsFiniteSet(S), NEW f, \A x \in S : f[x] \in Nat
  PROVE  SumOver(S, f) \in Nat
BY UnitsFinite, FS_CardinalityType DEF SumOver

(* Nothing sums to zero.                                                   *)
LEMMA SumEmpty == ASSUME NEW f PROVE SumOver({}, f) = 0
<1>1. Units({}, f) = {}
  BY DEF Units
<1>2. QED
  BY <1>1, FS_EmptySet DEF SumOver

(* One row sums to its value.                                              *)
LEMMA SumSingleton ==
  ASSUME NEW x, NEW f, f[x] \in Nat
  PROVE  SumOver({x}, f) = f[x]
<1>1. Units({x}, f) = {x} \X (1..f[x])
  BY DEF Units
<1>2. IsFiniteSet({x}) /\ Cardinality({x}) = 1
  BY FS_Singleton
<1>3. IsFiniteSet(1..f[x]) /\ Cardinality(1..f[x]) = f[x]
  <2>1. 1 \in Int /\ f[x] \in Int
    OBVIOUS
  <2>2. IsFiniteSet(1..f[x])
    BY <2>1, FS_Interval, Zenon
  <2>3. Cardinality(1..f[x]) = IF 1 > f[x] THEN 0 ELSE f[x] - 1 + 1
    BY <2>1, FS_Interval, Zenon
  <2>4. (IF 1 > f[x] THEN 0 ELSE f[x] - 1 + 1) = f[x]
    OBVIOUS
  <2>5. Cardinality(1..f[x]) = f[x]
    BY <2>3, <2>4
  <2>6. QED
    BY <2>2, <2>5
<1>4. Cardinality({x} \X (1..f[x])) = 1 * f[x]
  <2>1. Cardinality({x} \X (1..f[x])) = Cardinality({x}) * Cardinality(1..f[x])
    BY <1>2, <1>3, FS_Product, Zenon
  <2>2. QED
    BY <2>1, <1>2, <1>3, Zenon
<1>5. 1 * f[x] = f[x]
  OBVIOUS
<1>6. QED
  BY <1>1, <1>4, <1>5, Zenon DEF SumOver

(* Only the values on S matter.                                            *)
LEMMA SumAgree ==
  ASSUME NEW S, NEW f, NEW g, \A x \in S : f[x] = g[x]
  PROVE  SumOver(S, f) = SumOver(S, g)
<1>1. Units(S, f) = Units(S, g)
  BY DEF Units
<1>2. QED
  BY <1>1 DEF SumOver

(* Rows of value zero sum to zero.                                         *)
LEMMA SumZero ==
  ASSUME NEW S, NEW f, \A x \in S : f[x] = 0
  PROVE  SumOver(S, f) = 0
<1>1. Units(S, f) = {}
  BY DEF Units
<1>2. QED
  BY <1>1, FS_EmptySet DEF SumOver

(* Disjoint sets of rows add up.                                           *)
LEMMA SumDisjoint ==
  ASSUME NEW S, IsFiniteSet(S), NEW T, IsFiniteSet(T), S \cap T = {},
         NEW f, \A x \in S \cup T : f[x] \in Nat
  PROVE  SumOver(S \cup T, f) = SumOver(S, f) + SumOver(T, f)
<1>1. Units(S \cup T, f) = Units(S, f) \cup Units(T, f)
  BY DEF Units
<1>2. Units(S, f) \cap Units(T, f) = {}
  BY DEF Units
<1>3. IsFiniteSet(Units(S, f)) /\ IsFiniteSet(Units(T, f))
  BY UnitsFinite
<1>4. Cardinality(Units(S, f) \cap Units(T, f)) = 0
  BY <1>2, FS_EmptySet
<1>5. Cardinality(Units(S, f)) \in Nat /\ Cardinality(Units(T, f)) \in Nat
  BY <1>3, FS_CardinalityType
<1>6. Cardinality(Units(S, f) \cup Units(T, f))
        = Cardinality(Units(S, f)) + Cardinality(Units(T, f))
            - Cardinality(Units(S, f) \cap Units(T, f))
  BY <1>3, FS_Union
<1>7. Cardinality(Units(S, f) \cup Units(T, f))
        = Cardinality(Units(S, f)) + Cardinality(Units(T, f))
  BY <1>4, <1>5, <1>6
<1>8. QED
  BY <1>1, <1>7, Zenon DEF SumOver

(* Removing a subset of the rows subtracts its sum.                        *)
LEMMA SumRemove ==
  ASSUME NEW S, IsFiniteSet(S), NEW T, T \subseteq S,
         NEW f, \A x \in S : f[x] \in Nat
  PROVE  /\ SumOver(S, f) = SumOver(S \ T, f) + SumOver(T, f)
         /\ SumOver(T, f) <= SumOver(S, f)
<1>1. IsFiniteSet(T) /\ IsFiniteSet(S \ T)
  BY FS_Subset
<1>2. S = (S \ T) \cup T /\ (S \ T) \cap T = {}
  OBVIOUS
<1>3. SumOver((S \ T) \cup T, f) = SumOver(S \ T, f) + SumOver(T, f)
  BY <1>1, <1>2, SumDisjoint
<1>4. SumOver(S \ T, f) \in Nat /\ SumOver(T, f) \in Nat
  BY <1>1, SumType
<1>5. SumOver(S, f) = SumOver(S \ T, f) + SumOver(T, f)
  BY <1>2, <1>3, Zenon
<1>6. QED
  BY <1>4, <1>5

(* A smaller summand gives a smaller sum.                                  *)
LEMMA SumMonotone ==
  ASSUME NEW S, IsFiniteSet(S), NEW f, NEW g,
         \A x \in S : f[x] \in Nat /\ g[x] \in Nat /\ f[x] <= g[x]
  PROVE  SumOver(S, f) <= SumOver(S, g)
<1>1. Units(S, f) \subseteq Units(S, g)
  BY DEF Units
<1>2. IsFiniteSet(Units(S, g))
  BY UnitsFinite
<1>3. QED
  BY <1>1, <1>2, FS_Subset DEF SumOver

(* Charging the rows D of H, until then uncharged, adds their charges.       *)
LEMMA SumCharge ==
  ASSUME NEW H, NEW D, NEW c, NEW d, IsFiniteSet(H), D \subseteq H,
         \A h \in H : c[h] \in Nat /\ d[h] \in Nat,
         \A h \in D : c[h] = 0,
         \A h \in H : h \notin D => d[h] = c[h]
  PROVE  SumOver(H, d) = SumOver(H, c) + SumOver(D, d)
<1>1. IsFiniteSet(D) /\ IsFiniteSet(H \ D)
  BY FS_Subset
<1>2. SumOver(D, d) \in Nat /\ SumOver(H \ D, c) \in Nat
  <2>1. \A h \in D : d[h] \in Nat
    OBVIOUS
  <2>2. \A h \in H \ D : c[h] \in Nat
    OBVIOUS
  <2>3. QED
    BY <1>1, <2>1, <2>2, SumType
<1>3. SumOver(H, c) = SumOver(H \ D, c) + SumOver(D, c)
  <2>1. \A h \in H : c[h] \in Nat
    OBVIOUS
  <2>2. QED
    BY <2>1, SumRemove
<1>4. SumOver(H, d) = SumOver(H \ D, d) + SumOver(D, d)
  <2>1. \A h \in H : d[h] \in Nat
    OBVIOUS
  <2>2. QED
    BY <2>1, SumRemove
<1>5. SumOver(D, c) = 0
  <2>1. \A h \in D : c[h] = 0
    OBVIOUS
  <2>2. QED
    BY <2>1, SumZero
<1>6. SumOver(H \ D, d) = SumOver(H \ D, c)
  <2>1. \A h \in H \ D : d[h] = c[h]
    OBVIOUS
  <2>2. QED
    BY <2>1, SumAgree
<1>7. QED
  BY <1>2, <1>3, <1>4, <1>5, <1>6

(* A further open row adds its value.                                        *)
LEMMA SumOpen ==
  ASSUME NEW A, IsFiniteSet(A), NEW h, h \notin A, NEW f,
         \A x \in A \cup {h} : f[x] \in Nat
  PROVE  SumOver(A \cup {h}, f) = SumOver(A, f) + f[h]
<1>1. IsFiniteSet({h}) /\ A \cap {h} = {}
  BY FS_Singleton
<1>2. SumOver(A \cup {h}, f) = SumOver(A, f) + SumOver({h}, f)
  BY <1>1, SumDisjoint
<1>3. f[h] \in Nat
  OBVIOUS
<1>4. SumOver({h}, f) = f[h]
  BY <1>3, SumSingleton
<1>5. QED
  BY <1>2, <1>4

-----------------------------------------------------------------------------
(* A set of naturals that is not empty has a least element.                  *)
LEMMA LeastNat ==
  ASSUME NEW S \in SUBSET Nat, S # {}
  PROVE  \E m \in S : \A k \in S : m <= k
<1> DEFINE R == {ss \in Nat \X Nat : ss[1] < ss[2]}
<1>1. IsWellFoundedOn(R, Nat)
  BY NatLessThanWellFounded DEF OpToRel
<1> HIDE DEF R
<1>2. PICK x \in S : \A y \in S : ~ (<<y, x>> \in R)
  BY <1>1, WFMin
<1>3. ASSUME NEW y \in S PROVE ~(y < x)
  <2>1. <<y, x>> \in Nat \X Nat /\ <<y, x>>[1] = y /\ <<y, x>>[2] = x
    OBVIOUS
  <2>2. QED
    BY <1>2, <2>1 DEF R
<1>4. QED
  BY <1>3

(* In a finite set that is not empty some element has the highest value: the  *)
(* one with fewest above it.                                                 *)
LEMMA Highest ==
  ASSUME NEW S, NEW f, IsFiniteSet(S), S # {}, \A x \in S : f[x] \in Nat
  PROVE  \E x \in S : \A y \in S : f[y] <= f[x]
<1> DEFINE above == [x \in S |-> {y \in S : f[y] > f[x]}]
           sizes == {Cardinality(above[x]) : x \in S}
<1>1. \A x \in S : IsFiniteSet(above[x]) /\ Cardinality(above[x]) \in Nat
  <2>1. ASSUME NEW x \in S PROVE IsFiniteSet(above[x])
    <3>1. above[x] \subseteq S
      OBVIOUS
    <3>2. QED
      BY <3>1, FS_Subset
  <2>2. QED
    BY <2>1, FS_CardinalityType
<1>2. sizes \in SUBSET Nat /\ sizes # {}
  BY <1>1
<1>3. PICK m \in sizes : \A k \in sizes : m <= k
  BY <1>2, LeastNat
<1>4. PICK x \in S : m = Cardinality(above[x])
  OBVIOUS
<1>5. ASSUME NEW y \in S, f[y] > f[x] PROVE FALSE
  <2>1. y \in above[x] /\ above[y] \subseteq above[x] \ {y}
    BY <1>5
  <2>2. /\ IsFiniteSet(above[x] \ {y})
        /\ Cardinality(above[x] \ {y}) = Cardinality(above[x]) - 1
    BY <1>1, <2>1, FS_RemoveElement
  <2>3. Cardinality(above[y]) <= Cardinality(above[x] \ {y})
    BY <2>1, <2>2, FS_Subset
  <2>4. m <= Cardinality(above[y])
    BY <1>3
  <2>5. Cardinality(above[x]) \in Nat /\ Cardinality(above[y]) \in Nat
    BY <1>1
  <2> HIDE DEF above
  <2>6. QED
    BY <1>4, <2>2, <2>3, <2>4, <2>5
<1>6. \A y \in S : f[y] <= f[x]
  <2>1. \A y \in S : ~(f[y] > f[x])
    BY <1>5
  <2>2. QED
    BY <2>1
<1>7. QED
  BY <1>6

-----------------------------------------------------------------------------
(* Induction over an interval, with the set of the numbers of which the claim  *)
(* holds for its parameter.                                                  *)
LEMMA IntervalInduction ==
  ASSUME NEW lo \in Nat, NEW hi \in Nat, NEW S, lo \in S,
         \A i \in lo..hi : i + 1 \in lo..hi /\ i \in S => i + 1 \in S
  PROVE  lo..hi \subseteq S
<1>1. SUFFICES ASSUME (lo..hi) \ S # {} PROVE FALSE
  OBVIOUS
<1>2. (lo..hi) \ S \in SUBSET Nat
  OBVIOUS
<1>3. PICK m \in (lo..hi) \ S : \A k \in (lo..hi) \ S : m <= k
  BY <1>1, <1>2, LeastNat
<1>4. m - 1 \in lo..hi /\ m - 1 \in S /\ (m - 1) + 1 = m
  BY <1>3
<1>5. QED
  BY <1>3, <1>4

\* f is the function that starts with base and goes on by the steps.
Follows(f, lo, hi, base, step) ==
  f[lo] = base /\ \A i \in lo..hi : i # lo => f[i] = step[i][f[i - 1]]

(* A recursion along an interval defines a function into V when each of its   *)
(* steps takes V to V.                                                       *)
LEMMA Recursion ==
  ASSUME NEW lo \in Nat, NEW hi \in Nat, lo <= hi, NEW V, NEW base \in V,
         NEW step \in [lo..hi -> [V -> V]]
  PROVE  \E f \in [lo..hi -> V] : Follows(f, lo, hi, base, step)
<1> DEFINE Agrees(f, k) == \A i \in lo..k : f[i] = IF i = lo THEN base ELSE step[i][f[i - 1]]
           reached == {k \in lo..hi : \E f \in [lo..hi -> V] : Agrees(f, k)}
<1>1. lo \in reached
  <2> DEFINE g == [i \in lo..hi |-> base]
  <2>1. g \in [lo..hi -> V] /\ Agrees(g, lo)
    OBVIOUS
  <2>2. lo \in lo..hi
    OBVIOUS
  <2> HIDE DEF g
  <2>3. QED
    BY <2>1, <2>2
<1>2. ASSUME NEW k \in lo..hi, k + 1 \in lo..hi, k \in reached PROVE k + 1 \in reached
  <2>1. PICK f \in [lo..hi -> V] : Agrees(f, k)
    BY <1>2
  <2> DEFINE g == [f EXCEPT ![k + 1] = step[k + 1][f[k]]]
  <2>2. f[k] \in V /\ step[k + 1] \in [V -> V]
    BY <1>2
  <2>3. g \in [lo..hi -> V]
    BY <2>2
  <2>4. g[k + 1] = step[k + 1][f[k]] /\ \A i \in lo..k : g[i] = f[i]
    BY <1>2
  <2> HIDE DEF g
  <2>5. Agrees(g, k + 1)
    <3>1. SUFFICES ASSUME NEW i \in lo..(k + 1)
                   PROVE  g[i] = IF i = lo THEN base ELSE step[i][g[i - 1]]
      OBVIOUS
    <3>2. CASE i = k + 1
      <4>1. i # lo /\ i - 1 = k /\ k \in lo..k
        BY <3>2
      <4>2. g[k] = f[k]
        BY <2>4, <4>1
      <4>3. QED
        BY <2>4, <3>2, <4>1, <4>2
    <3>3. CASE i # k + 1
      <4>1. i \in lo..k /\ (i # lo => i - 1 \in lo..k)
        BY <3>3
      <4>2. f[i] = IF i = lo THEN base ELSE step[i][f[i - 1]]
        BY <2>1, <4>1
      <4>3. QED
        BY <2>4, <4>1, <4>2
    <3>4. QED
      BY <3>2, <3>3
  <2>6. QED
    BY <1>2, <2>3, <2>5
<1> HIDE DEF reached
<1>3. lo..hi \subseteq reached
  BY <1>1, <1>2, IntervalInduction
<1>4. hi \in reached
  BY <1>3
<1>5. PICK f \in [lo..hi -> V] : Agrees(f, hi)
  BY <1>4 DEF reached
<1>6. Follows(f, lo, hi, base, step)
  BY <1>5 DEF Follows
<1>7. QED
  BY <1>6

-----------------------------------------------------------------------------
(* A strict total order R of a finite set puts it in a row: each element in   *)
(* the place that the number of those before it says.                        *)
Ahead(S, R, m) == Cardinality({n \in S : <<n, m>> \in R})

LEMMA Ranking ==
  ASSUME NEW S, IsFiniteSet(S), NEW R,
         \A a \in S : <<a, a>> \notin R,
         \A a, b, c \in S : <<a, b>> \in R /\ <<b, c>> \in R => <<a, c>> \in R,
         \A a, b \in S : a = b \/ <<a, b>> \in R \/ <<b, a>> \in R,
         NEW place, place = [k \in 1..Cardinality(S) |-> place[k]],
         \A k \in 1..Cardinality(S) : \A m \in S :
           Ahead(S, R, m) = k - 1 => place[k] \in S /\ Ahead(S, R, place[k]) = k - 1
  PROVE  /\ place \in [1..Cardinality(S) -> S]
         /\ \A m \in S : \E k \in 1..Cardinality(S) : place[k] = m
         /\ \A i, j \in 1..Cardinality(S) : i < j => <<place[j], place[i]>> \notin R
<1> DEFINE size == Cardinality(S)
           before(m) == {n \in S : <<n, m>> \in R}
           ahead == [m \in S |-> Ahead(S, R, m)]
<1>1. size \in Nat
  BY FS_CardinalityType
<1>2. ASSUME NEW m \in S
      PROVE  /\ IsFiniteSet(before(m)) /\ Ahead(S, R, m) = Cardinality(before(m))
             /\ Ahead(S, R, m) \in 0..(size - 1)
  <2>1. before(m) \subseteq S \ {m}
    OBVIOUS
  <2>2. IsFiniteSet(S \ {m}) /\ Cardinality(S \ {m}) = size - 1
    BY FS_RemoveElement
  <2>3. IsFiniteSet(before(m)) /\ Cardinality(before(m)) <= Cardinality(S \ {m})
    BY <2>1, <2>2, FS_Subset
  <2>4. Cardinality(before(m)) \in Nat
    BY <2>3, FS_CardinalityType
  <2>5. Ahead(S, R, m) = Cardinality(before(m))
    BY DEF Ahead
  <2>6. QED
    BY <1>1, <2>2, <2>3, <2>4, <2>5
<1>int. \A m \in S : Ahead(S, R, m) \in Int
  <2>1. \A n \in 0..(size - 1) : n \in Int
    OBVIOUS
  <2> HIDE DEF size
  <2>2. QED
    BY <1>2, <2>1
<1>3. ASSUME NEW a \in S, NEW b \in S, <<a, b>> \in R
      PROVE  Ahead(S, R, a) < Ahead(S, R, b)
  <2>1. before(a) \subseteq before(b) \ {a} /\ a \in before(b)
    BY <1>3
  <2>2. IsFiniteSet(before(b)) /\ IsFiniteSet(before(a))
    BY <1>2
  <2>3. /\ IsFiniteSet(before(b) \ {a})
        /\ Cardinality(before(b) \ {a}) = Cardinality(before(b)) - 1
    BY <2>1, <2>2, FS_RemoveElement
  <2>4. Cardinality(before(a)) <= Cardinality(before(b) \ {a})
    BY <2>1, <2>3, FS_Subset
  <2>5. Cardinality(before(a)) = Ahead(S, R, a) /\ Cardinality(before(b)) = Ahead(S, R, b)
    BY <1>2
  <2>6. Ahead(S, R, a) \in Int /\ Ahead(S, R, b) \in Int
    BY <1>int
  <2> HIDE DEF before
  <2>7. QED
    BY <2>3, <2>4, <2>5, <2>6
<1>4. \A a, b \in S : Ahead(S, R, a) = Ahead(S, R, b) => a = b
  <2>1. SUFFICES ASSUME NEW a \in S, NEW b \in S, a # b
                 PROVE  Ahead(S, R, a) # Ahead(S, R, b)
    OBVIOUS
  <2>2. Ahead(S, R, a) < Ahead(S, R, b) \/ Ahead(S, R, b) < Ahead(S, R, a)
    BY <1>3, <2>1
  <2>3. Ahead(S, R, a) \in Int /\ Ahead(S, R, b) \in Int
    BY <1>int
  <2>4. QED
    BY <2>2, <2>3
<1>5. \A k \in 1..size : \E m \in S : Ahead(S, R, m) = k - 1
  <2>1. ahead \in [S -> 0..(size - 1)]
    BY <1>2
  <2>2. ahead \in Injection(S, 0..(size - 1))
    <3>1. \A a, b \in S : ahead[a] = ahead[b] => a = b
      BY <1>4
    <3>2. QED
      BY <2>1, <3>1 DEF Injection, IsInjective
  <2>3. IsFiniteSet(0..(size - 1)) /\ Cardinality(0..(size - 1)) = size
    <3>1. 0 \in Int /\ size - 1 \in Int
      BY <1>1
    <3>2. /\ IsFiniteSet(0..(size - 1))
          /\ Cardinality(0..(size - 1)) = IF 0 > size - 1 THEN 0 ELSE (size - 1) - 0 + 1
      BY <3>1, FS_Interval
    <3>3. QED
      BY <1>1, <3>2
  <2>4. ahead \in Surjection(S, 0..(size - 1))
    BY <2>2, <2>3, FS_Injection
  <2>5. ASSUME NEW k \in 1..size PROVE \E m \in S : Ahead(S, R, m) = k - 1
    <3>1. k - 1 \in 0..(size - 1)
      BY <1>1
    <3>2. PICK m \in S : ahead[m] = k - 1
      BY <2>4, <3>1 DEF Surjection
    <3>3. QED
      BY <3>2
  <2>6. QED
    BY <2>5
<1>6. \A k \in 1..size : place[k] \in S /\ Ahead(S, R, place[k]) = k - 1
  BY <1>5
<1>7. place \in [1..size -> S]
  BY <1>6
<1> HIDE DEF ahead, before
<1>8. ASSUME NEW m \in S PROVE \E k \in 1..size : place[k] = m
  <2>1. Ahead(S, R, m) + 1 \in 1..size /\ (Ahead(S, R, m) + 1) - 1 = Ahead(S, R, m)
    BY <1>1, <1>2
  <2>2. /\ place[Ahead(S, R, m) + 1] \in S
        /\ Ahead(S, R, place[Ahead(S, R, m) + 1]) = Ahead(S, R, m)
    BY <1>6, <2>1
  <2>3. QED
    BY <1>4, <2>1, <2>2
<1>9. ASSUME NEW i \in 1..size, NEW j \in 1..size, i < j, <<place[j], place[i]>> \in R
      PROVE  FALSE
  <2>1. Ahead(S, R, place[j]) < Ahead(S, R, place[i])
    BY <1>3, <1>6, <1>9
  <2>2. QED
    BY <1>6, <1>9, <2>1
<1>10. QED
  BY <1>7, <1>8, <1>9

-----------------------------------------------------------------------------
\* Each step computes a function's value at p from its values at less depth.
Descends(P, V, depth, step) ==
  /\ V # {}
  /\ depth \in [P -> Nat]
  /\ step \in [[P -> V] -> [P -> V]]
  /\ \A f, g \in [P -> V] : \A p \in P :
       (\A q \in P : depth[q] < depth[p] => f[q] = g[q]) => step[f][p] = step[g][p]

(* A recursion that descends defines a function.                              *)
LEMMA Descent ==
  ASSUME NEW P, NEW V, NEW depth, NEW step, Descends(P, V, depth, step)
  PROVE  \E f \in [P -> V] : f = step[f]
<1> USE DEF Descends
<1> DEFINE Good(f, n) == \A p \in P : depth[p] < n => f[p] = step[f][p]
<1>1. \A p \in P : depth[p] \in Nat
  OBVIOUS
<1>2. ASSUME NEW n \in Nat PROVE \E f \in [P -> V] : Good(f, n)
  <2> DEFINE reached == {k \in 0..n : \E f \in [P -> V] : Good(f, k)}
  <2>1. 0 \in reached
    <3> DEFINE some == CHOOSE v \in V : TRUE
    <3>1. [p \in P |-> some] \in [P -> V]
      OBVIOUS
    <3>2. Good([p \in P |-> some], 0)
      BY <1>1
    <3> HIDE DEF Good
    <3> QED BY <3>1, <3>2
  <2>2. ASSUME NEW k \in 0..n, k + 1 \in 0..n, k \in reached PROVE k + 1 \in reached
    <3>1. PICK f \in [P -> V] : Good(f, k)
      BY <2>2
    <3>2. step[f] \in [P -> V]
      OBVIOUS
    <3>3. ASSUME NEW p \in P, depth[p] < k + 1 PROVE step[f][p] = step[step[f]][p]
      <4>1. ASSUME NEW q \in P, depth[q] < depth[p] PROVE f[q] = step[f][q]
        <5>1. depth[q] < k
          BY <1>1, <3>3, <4>1
        <5> QED BY <3>1, <5>1
      <4> QED BY <3>2, <4>1
    <3>4. Good(step[f], k + 1)
      BY <3>3
    <3> HIDE DEF Good
    <3> QED BY <2>2, <3>2, <3>4
  <2> HIDE DEF reached
  <2>3. 0..n \subseteq reached
    BY <2>1, <2>2, IntervalInduction
  <2>4. n \in reached
    BY <2>3
  <2> QED BY <2>4 DEF reached
<1>3. ASSUME NEW n \in Nat, NEW f \in [P -> V], NEW g \in [P -> V], Good(f, n), Good(g, n)
      PROVE  \A p \in P : depth[p] < n => f[p] = g[p]
  <2> DEFINE agreed == {k \in 0..n : \A p \in P : depth[p] < k => f[p] = g[p]}
  <2>1. 0 \in agreed
    BY <1>1
  <2>2. ASSUME NEW k \in 0..n, k + 1 \in 0..n, k \in agreed PROVE k + 1 \in agreed
    <3>1. ASSUME NEW p \in P, depth[p] < k + 1 PROVE f[p] = g[p]
      <4>1. \A q \in P : depth[q] < depth[p] => f[q] = g[q]
        <5>1. \A q \in P : depth[q] < depth[p] => depth[q] < k
          BY <1>1, <3>1
        <5> QED BY <2>2, <5>1
      <4>2. step[f][p] = step[g][p]
        BY <4>1
      <4>3. depth[p] < n
        BY <1>1, <2>2, <3>1
      <4> QED BY <1>3, <4>2, <4>3
    <3> QED BY <2>2, <3>1
  <2> HIDE DEF agreed
  <2>3. 0..n \subseteq agreed
    BY <2>1, <2>2, IntervalInduction
  <2>4. n \in agreed
    BY <2>3
  <2> QED BY <2>4 DEF agreed
<1>4. ASSUME NEW n \in Nat, NEW m \in Nat, m <= n, NEW f, Good(f, n) PROVE Good(f, m)
  BY <1>1, <1>4
<1> DEFINE upTo(n) == CHOOSE f \in [P -> V] : Good(f, n)
           all == [p \in P |-> upTo(depth[p] + 1)[p]]
<1> HIDE DEF Good
<1>5. \A n \in Nat : upTo(n) \in [P -> V] /\ Good(upTo(n), n)
  BY <1>2
<1> HIDE DEF upTo
<1>6. all \in [P -> V]
  <2>1. \A p \in P : upTo(depth[p] + 1) \in [P -> V]
    BY <1>1, <1>5
  <2> QED BY <2>1
<1>7. ASSUME NEW p \in P PROVE all[p] = step[all][p]
  <2> DEFINE f == upTo(depth[p] + 1)
  <2>1. f \in [P -> V] /\ Good(f, depth[p] + 1)
    BY <1>1, <1>5
  <2>2. ASSUME NEW q \in P, depth[q] < depth[p] PROVE all[q] = f[q]
    <3>1. /\ depth[q] + 1 \in Nat /\ depth[p] + 1 \in Nat
          /\ depth[q] + 1 <= depth[p] + 1 /\ depth[q] < depth[q] + 1
      BY <1>1, <2>2
    <3>2. Good(f, depth[q] + 1)
      BY <1>4, <2>1, <3>1
    <3>3. upTo(depth[q] + 1) \in [P -> V] /\ Good(upTo(depth[q] + 1), depth[q] + 1)
      BY <1>5, <3>1
    <3> HIDE DEF f
    <3>4. upTo(depth[q] + 1)[q] = f[q]
      BY <1>3, <2>1, <3>1, <3>2, <3>3
    <3> QED BY <3>4
  <2>3. all[p] = f[p]
    OBVIOUS
  <2>4. f[p] = step[f][p]
    <3>1. depth[p] < depth[p] + 1
      BY <1>1
    <3> HIDE DEF f
    <3> QED BY <2>1, <3>1 DEF Good
  <2> HIDE DEF f, all
  <2>5. step[all][p] = step[f][p]
    BY <1>6, <2>1, <2>2
  <2> QED BY <2>3, <2>4, <2>5
<1>8. all = step[all]
  <2>1. step[all] \in [P -> V]
    BY <1>6
  <2> HIDE DEF all
  <2> QED BY <1>6, <1>7, <2>1
<1> HIDE DEF all
<1> QED BY <1>6, <1>8
=============================================================================
