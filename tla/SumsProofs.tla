------------------------------ MODULE SumsProofs ------------------------------
(***************************************************************************)
(* What a sum is, over any finite set: it is 0 over none, an element adds  *)
(* its value, and a change of one value changes the sum by as much.        *)
(***************************************************************************)
EXTENDS Sums, FiniteSetTheorems, FunctionTheorems, TLAPS

\* The units of one element.
LEMMA UnitsOfOneValue ==
  ASSUME NEW x, NEW n \in Nat
  PROVE  IsFiniteSet({x} \X (1..n)) /\ Cardinality({x} \X (1..n)) = n
<1>1. IsFiniteSet(1..n) /\ Cardinality(1..n) = n
  BY FS_Interval
<1>2. IsFiniteSet({x}) /\ Cardinality({x}) = 1
  BY FS_Singleton
<1>3. IsFiniteSet({x} \X (1..n)) /\ Cardinality({x} \X (1..n)) = 1 * n
  BY <1>1, <1>2, FS_Product
<1> QED BY <1>3

\* A finite family of finite sets.
LEMMA FamilyFinite ==
  ASSUME NEW S, IsFiniteSet(S), NEW F, \A x \in S : IsFiniteSet(F[x])
  PROVE  IsFiniteSet(UNION { F[x] : x \in S })
<1> DEFINE sets == [x \in S |-> F[x]]
           all  == { F[x] : x \in S }
<1>1. sets \in Surjection(S, all)
  BY DEF Surjection
<1>2. IsFiniteSet(all)
  BY <1>1, FS_Surjection
<1> QED BY <1>2, FS_UNION

\* A finite sum of natural numbers is one.
LEMMA SumType ==
  ASSUME NEW S, IsFiniteSet(S), NEW f, \A x \in S : f[x] \in Nat
  PROVE  IsFiniteSet(UnitsOver(f, S)) /\ SumOver(f, S) \in Nat
<1> DEFINE units == [x \in S |-> {x} \X (1..f[x])]
<1>1. \A x \in S : IsFiniteSet(units[x])
  BY UnitsOfOneValue
<1>2. UnitsOver(f, S) = UNION { units[x] : x \in S }
  BY DEF UnitsOver
<1> HIDE DEF units
<1>3. IsFiniteSet(UNION { units[x] : x \in S })
  BY <1>1, FamilyFinite
<1> QED BY <1>2, <1>3, FS_CardinalityType DEF SumOver

\* Over no element.
LEMMA SumEmpty == \A f : SumOver(f, {}) = 0
<1>1. \A f : UnitsOver(f, {}) = {}
  BY DEF UnitsOver
<1> QED BY <1>1, FS_EmptySet DEF SumOver

\* Over zeros.
LEMMA SumZero ==
  ASSUME NEW S, NEW f, \A x \in S : f[x] = 0
  PROVE  SumOver(f, S) = 0
<1>1. UnitsOver(f, S) = {}
  BY DEF UnitsOver
<1> QED BY <1>1, FS_EmptySet DEF SumOver

\* It depends on the values at the elements.
LEMMA SumSame ==
  ASSUME NEW S, NEW f, NEW g, \A x \in S : f[x] = g[x]
  PROVE  UnitsOver(f, S) = UnitsOver(g, S) /\ SumOver(f, S) = SumOver(g, S)
<1>1. UnitsOver(f, S) = UnitsOver(g, S)
  BY DEF UnitsOver
<1> QED BY <1>1 DEF SumOver

\* Over fewer elements it is no larger.
LEMMA SumSubset ==
  ASSUME NEW T, IsFiniteSet(T), NEW S, S \subseteq T, NEW f, \A x \in T : f[x] \in Nat
  PROVE  SumOver(f, S) \in Nat /\ SumOver(f, S) <= SumOver(f, T)
<1>1. UnitsOver(f, S) \subseteq UnitsOver(f, T)
  BY DEF UnitsOver
<1>2. IsFiniteSet(UnitsOver(f, T))
  BY SumType
<1> QED BY <1>1, <1>2, FS_Subset, FS_CardinalityType DEF SumOver

\* One element more.
LEMMA SumAdd ==
  ASSUME NEW S, IsFiniteSet(S), NEW f, \A y \in S : f[y] \in Nat,
         NEW x, x \notin S, f[x] \in Nat
  PROVE  SumOver(f, S \cup {x}) = SumOver(f, S) + f[x]
<1> DEFINE U == UnitsOver(f, S)
           W == {x} \X (1..f[x])
<1>1. UnitsOver(f, S \cup {x}) = U \cup W
  BY DEF UnitsOver
<1>2. U \cap W = {}
  BY DEF UnitsOver
<1>3. IsFiniteSet(U) /\ Cardinality(U) \in Nat
  BY SumType DEF SumOver
<1>4. IsFiniteSet(W) /\ Cardinality(W) = f[x]
  BY UnitsOfOneValue
<1>5. Cardinality(U \cup W) = Cardinality(U) + Cardinality(W) - Cardinality(U \cap W)
  BY <1>3, <1>4, FS_Union
<1>6. Cardinality(U \cap W) = 0
  BY <1>2, FS_EmptySet
<1>7. Cardinality(U \cup W) = Cardinality(U) + f[x]
  BY <1>3, <1>4, <1>5, <1>6
<1> QED BY <1>1, <1>7 DEF SumOver

\* One element less.
LEMMA SumRemove ==
  ASSUME NEW S, IsFiniteSet(S), NEW f, \A y \in S : f[y] \in Nat, NEW x \in S
  PROVE  SumOver(f, S) = SumOver(f, S \ {x}) + f[x]
<1>1. S = (S \ {x}) \cup {x} /\ x \notin S \ {x}
  OBVIOUS
<1>2. IsFiniteSet(S \ {x})
  BY FS_RemoveElement
<1>3. \A y \in S \ {x} : f[y] \in Nat
  OBVIOUS
<1>4. SumOver(f, (S \ {x}) \cup {x}) = SumOver(f, S \ {x}) + f[x]
  BY <1>2, <1>3, SumAdd
<1> QED BY <1>1, <1>4

\* Another value at one element.
LEMMA SumChange ==
  ASSUME NEW S, IsFiniteSet(S), NEW f, NEW g, NEW x \in S,
         \A y \in S : f[y] \in Nat /\ g[y] \in Nat,
         \A y \in S \ {x} : g[y] = f[y]
  PROVE  SumOver(g, S) = SumOver(f, S) - f[x] + g[x]
<1>1. SumOver(f, S) = SumOver(f, S \ {x}) + f[x]
  BY SumRemove
<1>2. SumOver(g, S) = SumOver(g, S \ {x}) + g[x]
  BY SumRemove
<1>3. SumOver(f, S \ {x}) = SumOver(g, S \ {x})
  BY SumSame
<1>4. SumOver(f, S \ {x}) \in Nat
  <2>1. IsFiniteSet(S \ {x}) /\ \A y \in S \ {x} : f[y] \in Nat
    BY FS_RemoveElement
  <2> QED BY <2>1, SumType
<1> QED BY <1>1, <1>2, <1>3, <1>4
=============================================================================
