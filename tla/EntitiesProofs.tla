--------------------------- MODULE EntitiesProofs ---------------------------
(***************************************************************************)
(* Lemmas that several proofs rest on: sums over finite sets and over      *)
(* sequences, what entities consist of, and ancestry.  Induction is over a *)
(* set of counterexamples, which has a least element.                      *)
(***************************************************************************)
EXTENDS Entities, FiniteSetTheorems, WellFoundedInduction, TLAPS

\* A non-empty set of naturals has a least element.
LEMMA LeastNatural ==
  ASSUME NEW T, T \subseteq Nat, T # {}
  PROVE  \E m \in T : \A n \in T : m <= n
<1> DEFINE Less == {p \in Nat \X Nat : p[1] < p[2]}
<1>1. IsWellFoundedOn(Less, Nat)  BY NatLessThanWellFounded DEF OpToRel
<1> HIDE DEF Less
<1>2. PICK x \in T : \A y \in T : <<y, x>> \notin Less  BY <1>1, WFMin
<1>3. ASSUME NEW n \in T  PROVE x <= n
  <2>1. ~(n < x)  BY <1>2 DEF Less
  <2> QED  BY <2>1
<1> QED  BY <1>3

\* A non-empty set of finite sets has one that contains no other.
LEMMA MinimalSet ==
  ASSUME NEW F, F # {}, \A T \in F : IsFiniteSet(T)
  PROVE  \E M \in F : \A T \in F : T \subseteq M => T = M
<1> DEFINE S == UNION F
           G == FiniteSubsetsOf(S)
<1>1. F \subseteq G  BY DEF FiniteSubsetsOf
<1>2. IsWellFoundedOn(StrictSubsetOrdering(S), G)  BY FS_StrictSubsetOrderingWellFounded
<1> HIDE DEF G, S
<1>3. PICK M \in F : \A T \in F : <<T, M>> \notin StrictSubsetOrdering(S)
  BY <1>1, <1>2, WFMin
<1>4. F \subseteq SUBSET S  BY DEF S
<1>5. ASSUME NEW T \in F, T \subseteq M, T # M  PROVE FALSE
  <2>1. <<T, M>> \in StrictSubsetOrdering(S)  BY <1>4, <1>5 DEF StrictSubsetOrdering
  <2> QED  BY <1>3, <2>1
<1> QED  BY <1>3, <1>5

\* Induction over a finite set, one element at a time: Good is the set of the subsets that
\* have the property.
LEMMA SetInduction ==
  ASSUME NEW S, IsFiniteSet(S), NEW Good, {} \in Good,
         \A U \in SUBSET S : \A x \in S \ U : U \in Good => U \cup {x} \in Good
  PROVE  S \in Good
<1> DEFINE Bad == (SUBSET S) \ Good
<1> SUFFICES ASSUME Bad # {}  PROVE FALSE  OBVIOUS
<1>1. \A U \in Bad : IsFiniteSet(U)  BY FS_Subset
<1> HIDE DEF Bad
<1>2. PICK M \in Bad : \A U \in Bad : U \subseteq M => U = M  BY <1>1, MinimalSet
<1> USE DEF Bad
<1>3. PICK x \in M : TRUE  OBVIOUS
<1>4. M \ {x} \in Good  BY <1>2, <1>3
<1>5. (M \ {x}) \cup {x} \in Good  BY <1>3, <1>4
<1>6. (M \ {x}) \cup {x} = M  BY <1>3
<1> QED  BY <1>5, <1>6

\* The recursion behind the community modules' folds: c takes an element of a set, and op
\* adds it to what the others give.
Foldable(S, A, base, c, op) ==
    /\ IsFiniteSet(S) /\ base \in A
    /\ \A T \in SUBSET S : T # {} => c[T] \in T
    /\ \A x \in S : \A a \in A : op[x][a] \in A

FoldedBy(iter, S, A, base, c, op) ==
    /\ iter \in [SUBSET S -> A]
    /\ iter[{}] = base
    /\ \A T \in SUBSET S : T # {} => iter[T] = op[c[T]][iter[T \ {c[T]}]]

\* The recursion has a solution.
LEMMA FoldExists ==
  ASSUME NEW S, NEW A, NEW base, NEW c, NEW op, Foldable(S, A, base, c, op)
  PROVE  \E iter : FoldedBy(iter, S, A, base, c, op)
<1> USE DEF Foldable
<1> DEFINE Solves(g, T) == g[T] = IF T = {} THEN base ELSE op[c[T]][g[T \ {c[T]}]]
           Upto(n) == {T \in SUBSET S : Cardinality(T) <= n}
           Good(n) == \E g \in [SUBSET S -> A] : \A T \in Upto(n) : Solves(g, T)
           Bad == {n \in Nat : ~Good(n)}
<1>0. \A T \in SUBSET S : IsFiniteSet(T) /\ Cardinality(T) \in Nat
  BY FS_Subset, FS_CardinalityType
<1>1. Good(0)
  <2> DEFINE g == [T \in SUBSET S |-> base]
  <2>1. g \in [SUBSET S -> A]  OBVIOUS
  <2>2. ASSUME NEW T \in Upto(0)  PROVE T = {}
    <3>1. IsFiniteSet(T) /\ Cardinality(T) = 0  BY <1>0
    <3> QED  BY <3>1, FS_EmptySet
  <2>3. \A T \in Upto(0) : Solves(g, T)  BY <2>2
  <2> QED  BY <2>1, <2>3
<1>2. ASSUME NEW n \in Nat, Good(n)  PROVE Good(n + 1)
  <2>1. PICK g \in [SUBSET S -> A] : \A T \in Upto(n) : Solves(g, T)  BY <1>2
  <2> DEFINE h == [T \in SUBSET S |->
                     IF Cardinality(T) <= n \/ T = {} THEN g[T]
                     ELSE op[c[T]][g[T \ {c[T]}]]]
  <2>2. h \in [SUBSET S -> A]
    <3>1. \A T \in SUBSET S : T # {} => op[c[T]][g[T \ {c[T]}]] \in A  BY <2>1
    <3> QED  BY <2>1, <3>1
  <2>3. ASSUME NEW T \in Upto(n + 1)  PROVE Solves(h, T)
    <3>1. CASE T = {}
      <4>1. Cardinality(T) = 0  BY <3>1, FS_EmptySet
      <4>2. T \in Upto(n)  BY <3>1, <4>1
      <4> QED  BY <2>1, <3>1, <4>2
    <3>2. CASE T # {}
      <4> DEFINE U == T \ {c[T]}
      <4>1. U \in SUBSET S /\ Cardinality(U) = Cardinality(T) - 1
        BY <3>2, <1>0, FS_RemoveElement
      <4>a. Cardinality(T) \in Nat /\ Cardinality(T) <= n + 1  BY <1>0
      <4>2. Cardinality(U) <= n  BY <4>1, <4>a
      <4>3. h[U] = g[U]  BY <4>1, <4>2
      <4>4. h[T] = op[c[T]][g[U]]
        <5>1. CASE Cardinality(T) <= n
          <6>1. h[T] = g[T]  BY <5>1
          <6>2. Solves(g, T)  BY <2>1, <5>1
          <6> QED  BY <3>2, <6>1, <6>2
        <5>2. CASE ~(Cardinality(T) <= n)  BY <5>2, <3>2
        <5> QED  BY <5>1, <5>2
      <4> QED  BY <3>2, <4>3, <4>4
    <3> QED  BY <3>1, <3>2
  <2> QED  BY <2>2, <2>3
<1> HIDE DEF Good
<1>3. Bad = {}
  <2> SUFFICES ASSUME Bad # {}  PROVE FALSE  OBVIOUS
  <2>1. PICK m \in Bad : \A n \in Bad : m <= n  BY LeastNatural
  <2>2. m \in Nat /\ ~Good(m)  OBVIOUS
  <2>3. m # 0  BY <1>1, <2>2
  <2>4. m - 1 \in Nat /\ ~(m <= m - 1)  BY <2>2, <2>3
  <2>5. Good(m - 1)  BY <2>1, <2>4
  <2>6. Good((m - 1) + 1)  BY <1>2, <2>4, <2>5
  <2>7. (m - 1) + 1 = m  BY <2>2
  <2> QED  BY <2>2, <2>6, <2>7
<1>4. Good(Cardinality(S))  BY <1>0, <1>3
<1>5. \A T \in SUBSET S : T \in Upto(Cardinality(S))  BY <1>0, FS_Subset
<1>6. PICK g \in [SUBSET S -> A] : \A T \in SUBSET S : Solves(g, T)
  BY <1>4, <1>5 DEF Good
<1> QED  BY <1>6 DEF FoldedBy

-----------------------------------------------------------------------------
(* Sums over finite sets *)

\* One element after the other, in the order of CHOOSE.
SummedBy(iter, f, T) ==
    /\ iter \in [SUBSET T -> Nat]
    /\ iter[{}] = 0
    /\ \A U \in SUBSET T : U # {} =>
          iter[U] = f[CHOOSE x \in U : TRUE] + iter[U \ {CHOOSE x \in U : TRUE}]

\* It is what the community modules' sum computes.
LEMMA SumBy ==
  ASSUME NEW T, IsFiniteSet(T), NEW f, \A x \in T : f[x] \in Nat
  PROVE  \E iter : SummedBy(iter, f, T) /\ SumFunctionOnSet(f, T) = iter[T]
<1> DEFINE c == [U \in SUBSET T |-> CHOOSE x \in U : TRUE]
           op == [x \in T |-> [n \in Nat |-> f[x] + n]]
           R(iter) == [U \in SUBSET T |->
                         IF U = {} THEN 0
                         ELSE f[CHOOSE x \in U : TRUE] + iter[U \ {CHOOSE x \in U : TRUE}]]
           it == CHOOSE iter : iter = R(iter)
<1>1. Foldable(T, Nat, 0, c, op)
  <2>1. \A U \in SUBSET T : U # {} => c[U] \in U  OBVIOUS
  <2>2. \A x \in T : \A n \in Nat : op[x][n] \in Nat  OBVIOUS
  <2> QED  BY <2>1, <2>2 DEF Foldable
<1>2. \A U \in SUBSET T : U # {} => c[U] \in U  OBVIOUS
<1>3. PICK g \in [SUBSET T -> Nat] :
         g[{}] = 0 /\ \A U \in SUBSET T : U # {} => g[U] = op[c[U]][g[U \ {c[U]}]]
  <2>1. PICK g : FoldedBy(g, T, Nat, 0, c, op)
    <3> HIDE DEF c, op
    <3> QED  BY <1>1, FoldExists
  <2> QED  BY <2>1 DEF FoldedBy
<1>4. ASSUME NEW U \in SUBSET T
      PROVE  g[U] = IF U = {} THEN 0
                    ELSE f[CHOOSE x \in U : TRUE] + g[U \ {CHOOSE x \in U : TRUE}]
  <2>1. CASE U = {}  BY <2>1, <1>3
  <2>2. CASE U # {}
    <3>1. c[U] \in T /\ c[U] = CHOOSE x \in U : TRUE  BY <1>2, <2>2
    <3>2. g[U \ {c[U]}] \in Nat  OBVIOUS
    <3>3. g[U] = op[c[U]][g[U \ {c[U]}]]  BY <1>3, <2>2
    <3> QED  BY <2>2, <3>1, <3>2, <3>3
  <2> QED  BY <2>1, <2>2
<1>5. g = R(g)
  <2>1. g = [U \in SUBSET T |-> g[U]]  OBVIOUS
  <2> QED  BY <1>4, <2>1
<1> HIDE DEF R
<1>6. it = R(it)  BY <1>5
<1> USE DEF R
<1>7. SumFunctionOnSet(f, T) = it[T]
  BY DEF SumFunctionOnSet, FoldFunctionOnSet, MapThenFoldSet
<1> HIDE DEF it
<1>8. DOMAIN it = SUBSET T /\ it = [U \in SUBSET T |-> it[U]]  BY <1>6
<1>9. \A U \in SUBSET T :
         it[U] = IF U = {} THEN 0
                 ELSE f[CHOOSE x \in U : TRUE] + it[U \ {CHOOSE x \in U : TRUE}]
  BY <1>6
<1>10. \A U \in SUBSET T : it[U] = g[U]
  <2> DEFINE Diff == {U \in SUBSET T : it[U] # g[U]}
  <2> SUFFICES ASSUME Diff # {}  PROVE FALSE  OBVIOUS
  <2>1. \A U \in Diff : IsFiniteSet(U)  BY FS_Subset
  <2> HIDE DEF Diff
  <2>2. PICK M \in Diff : \A U \in Diff : U \subseteq M => U = M  BY <2>1, MinimalSet
  <2> USE DEF Diff
  <2>3. M # {}  BY <1>4, <1>9
  <2> DEFINE x == CHOOSE x \in M : TRUE
  <2>4. x \in M /\ M \ {x} \in SUBSET T /\ M \ {x} # M  BY <2>3
  <2>5. it[M \ {x}] = g[M \ {x}]  BY <2>2, <2>4
  <2> QED  BY <1>4, <1>9, <2>3, <2>5
<1>11. it = g  BY <1>8, <1>10
<1>12. SummedBy(g, f, T)  BY <1>4 DEF SummedBy
<1> QED  BY <1>7, <1>11, <1>12

\* Two sums agree on a set on which their summands agree.
LEMMA SumsAgree ==
  ASSUME NEW S, NEW T, NEW f, NEW g, NEW i, NEW j, SummedBy(i, f, S), SummedBy(j, g, T),
         NEW U, U \subseteq S, U \subseteq T, IsFiniteSet(U), \A x \in U : f[x] = g[x]
  PROVE  i[U] = j[U]
<1> DEFINE Diff == {V \in SUBSET U : i[V] # j[V]}
<1> SUFFICES ASSUME Diff # {}  PROVE FALSE  OBVIOUS
<1>1. \A V \in Diff : IsFiniteSet(V)  BY FS_Subset
<1> HIDE DEF Diff
<1>2. PICK M \in Diff : \A V \in Diff : V \subseteq M => V = M  BY <1>1, MinimalSet
<1> USE DEF Diff
<1>3. M # {}  BY DEF SummedBy
<1> DEFINE x == CHOOSE x \in M : TRUE
<1>4. x \in M /\ M \ {x} \in SUBSET U /\ M \ {x} # M  BY <1>3
<1>5. i[M \ {x}] = j[M \ {x}]  BY <1>2, <1>4
<1>6. i[M] = f[x] + i[M \ {x}]  BY <1>3 DEF SummedBy
<1>7. j[M] = g[x] + j[M \ {x}]  BY <1>3 DEF SummedBy
<1> QED  BY <1>4, <1>5, <1>6, <1>7

\* A sum of naturals is one, and depends on the set and the summands only.
LEMMA SumNat ==
  ASSUME NEW T, IsFiniteSet(T), NEW f, \A x \in T : f[x] \in Nat
  PROVE  SumFunctionOnSet(f, T) \in Nat
<1>1. PICK i : SummedBy(i, f, T) /\ SumFunctionOnSet(f, T) = i[T]  BY SumBy
<1> QED  BY <1>1 DEF SummedBy

LEMMA SumSame ==
  ASSUME NEW T, IsFiniteSet(T), NEW f, NEW g,
         \A x \in T : f[x] \in Nat /\ f[x] = g[x]
  PROVE  SumFunctionOnSet(f, T) = SumFunctionOnSet(g, T)
<1>1. PICK i : SummedBy(i, f, T) /\ SumFunctionOnSet(f, T) = i[T]  BY SumBy
<1>2. PICK j : SummedBy(j, g, T) /\ SumFunctionOnSet(g, T) = j[T]  BY SumBy
<1> QED  BY <1>1, <1>2, SumsAgree

LEMMA SumEmpty == \A f : SumFunctionOnSet(f, {}) = 0
<1> TAKE f
<1>1. PICK i : SummedBy(i, f, {}) /\ SumFunctionOnSet(f, {}) = i[{}]  BY SumBy, FS_EmptySet
<1> QED  BY <1>1 DEF SummedBy

\* The element that CHOOSE takes first.
LEMMA SumFirst ==
  ASSUME NEW T, IsFiniteSet(T), T # {}, NEW f, \A x \in T : f[x] \in Nat
  PROVE  SumFunctionOnSet(f, T) =
            f[CHOOSE x \in T : TRUE] + SumFunctionOnSet(f, T \ {CHOOSE x \in T : TRUE})
<1> DEFINE x == CHOOSE x \in T : TRUE
           V == T \ {x}
<1>1. IsFiniteSet(V) /\ V \subseteq T  BY FS_Subset
<1>2. PICK i : SummedBy(i, f, T) /\ SumFunctionOnSet(f, T) = i[T]  BY SumBy
<1>3. PICK j : SummedBy(j, f, V) /\ SumFunctionOnSet(f, V) = j[V]
  <2> HIDE DEF V
  <2> QED  BY <1>1, SumBy
<1>4. i[V] = j[V]
  <2> HIDE DEF V
  <2> QED  BY <1>1, <1>2, <1>3, SumsAgree
<1>5. i[T] = f[x] + i[V]  BY <1>2 DEF SummedBy
<1> QED  BY <1>2, <1>3, <1>4, <1>5

\* Any element may be taken first.
LEMMA SumStep ==
  ASSUME NEW T, IsFiniteSet(T), NEW f, \A x \in T : f[x] \in Nat, NEW y \in T
  PROVE  SumFunctionOnSet(f, T) = f[y] + SumFunctionOnSet(f, T \ {y})
<1> DEFINE Sum(U) == SumFunctionOnSet(f, U)
           Bad == {U \in SUBSET T : \E z \in U : Sum(U) # f[z] + Sum(U \ {z})}
<1>1. \A U \in SUBSET T : IsFiniteSet(U) /\ Sum(U) \in Nat  BY FS_Subset, SumNat
<1>2. Bad = {}
  <2> SUFFICES ASSUME Bad # {}  PROVE FALSE  OBVIOUS
  <2>1. \A U \in Bad : IsFiniteSet(U)  BY <1>1
  <2> HIDE DEF Bad
  <2>2. PICK M \in Bad : \A U \in Bad : U \subseteq M => U = M  BY <2>1, MinimalSet
  <2> USE DEF Bad
  <2> HIDE DEF Sum
  <2>3. PICK z \in M : Sum(M) # f[z] + Sum(M \ {z})  OBVIOUS
  <2> DEFINE x == CHOOSE x \in M : TRUE
  <2>4. x \in M /\ M \in SUBSET T  OBVIOUS
  <2>5. Sum(M) = f[x] + Sum(M \ {x})  BY <2>3, <2>4, <1>1, SumFirst DEF Sum
  <2> HIDE DEF x
  <2>6. x # z  BY <2>3, <2>5
  <2>7. Sum(M \ {x}) = f[z] + Sum((M \ {x}) \ {z})
    <3>1. M \ {x} \notin Bad  BY <2>2, <2>4
    <3>2. z \in M \ {x} /\ M \ {x} \in SUBSET T  BY <2>3, <2>4, <2>6
    <3> QED  BY <3>1, <3>2
  <2>8. Sum(M \ {z}) = f[x] + Sum((M \ {z}) \ {x})
    <3>1. M \ {z} \notin Bad  BY <2>2, <2>3
    <3>2. x \in M \ {z} /\ M \ {z} \in SUBSET T  BY <2>3, <2>4, <2>6
    <3> QED  BY <3>1, <3>2
  <2>9. (M \ {x}) \ {z} = (M \ {z}) \ {x}  OBVIOUS
  <2>10. Sum((M \ {x}) \ {z}) \in Nat  BY <1>1, <2>4
  <2>11. f[x] \in Nat /\ f[z] \in Nat  BY <2>3, <2>4
  <2> DEFINE n == Sum((M \ {x}) \ {z})
  <2>12. n \in Nat /\ Sum(M) = f[x] + (f[z] + n)  BY <2>5, <2>7, <2>10
  <2>13. Sum(M \ {z}) = f[x] + n  BY <2>8, <2>9
  <2> HIDE DEF n
  <2>14. f[x] + (f[z] + n) = f[z] + (f[x] + n)  BY <2>11, <2>12
  <2> QED  BY <2>3, <2>12, <2>13, <2>14
<1> QED  BY <1>2

LEMMA SumAdd ==
  ASSUME NEW T, IsFiniteSet(T), NEW f, \A x \in T : f[x] \in Nat,
         NEW y, y \notin T, f[y] \in Nat
  PROVE  SumFunctionOnSet(f, T \cup {y}) = f[y] + SumFunctionOnSet(f, T)
<1>1. IsFiniteSet(T \cup {y})  BY FS_AddElement
<1>2. (T \cup {y}) \ {y} = T  OBVIOUS
<1> QED  BY <1>1, <1>2, SumStep

\* Disjoint sets.
LEMMA SumUnion ==
  ASSUME NEW S, NEW T, IsFiniteSet(S), IsFiniteSet(T), S \cap T = {},
         NEW f, \A x \in S \cup T : f[x] \in Nat
  PROVE  SumFunctionOnSet(f, S \cup T) = SumFunctionOnSet(f, S) + SumFunctionOnSet(f, T)
<1> DEFINE Sum(U) == SumFunctionOnSet(f, U)
           Bad == {U \in SUBSET T : Sum(S \cup U) # Sum(S) + Sum(U)}
<1>1. ASSUME NEW U \in SUBSET T  PROVE IsFiniteSet(U) /\ IsFiniteSet(S \cup U)
  BY FS_Subset, FS_Union
<1>2. Bad = {}
  <2> SUFFICES ASSUME Bad # {}  PROVE FALSE  OBVIOUS
  <2>1. \A U \in Bad : IsFiniteSet(U)  BY <1>1
  <2> HIDE DEF Bad
  <2>2. PICK M \in Bad : \A U \in Bad : U \subseteq M => U = M  BY <2>1, MinimalSet
  <2> USE DEF Bad
  <2> HIDE DEF Sum
  <2>3. M \in SUBSET T /\ Sum(S \cup M) # Sum(S) + Sum(M)  OBVIOUS
  <2>4. Sum(S) \in Nat  BY SumNat DEF Sum
  <2>5. M # {}
    <3>1. Sum({}) = 0 /\ S \cup {} = S  BY SumEmpty DEF Sum
    <3> QED  BY <2>3, <2>4, <3>1
  <2>6. PICK x \in M : TRUE  BY <2>5
  <2> DEFINE V == M \ {x}
  <2>7. V \in SUBSET T /\ V # M /\ V \subseteq M /\ x \notin V  BY <2>3
  <2>8. Sum(S \cup V) = Sum(S) + Sum(V)  BY <2>2, <2>7
  <2>9. (S \cup V) \cup {x} = S \cup M /\ V \cup {x} = M /\ x \notin S \cup V  BY <2>3, <2>7
  <2> HIDE DEF V
  <2>10. Sum(M) = f[x] + Sum(V)
    <3>1. IsFiniteSet(V)  BY <1>1, <2>7
    <3>2. SumFunctionOnSet(f, V \cup {x}) = f[x] + SumFunctionOnSet(f, V)
      BY <2>7, <2>3, <3>1, SumAdd
    <3> QED  BY <2>9, <3>2 DEF Sum
  <2>11. Sum(S \cup M) = f[x] + Sum(S \cup V)
    <3> DEFINE W == S \cup V
    <3>1. IsFiniteSet(W) /\ x \notin W  BY <1>1, <2>7, <2>9
    <3>2. \A y \in W : f[y] \in Nat  BY <2>7
    <3>3. f[x] \in Nat  BY <2>3
    <3> HIDE DEF W
    <3>4. SumFunctionOnSet(f, W \cup {x}) = f[x] + SumFunctionOnSet(f, W)
      BY <3>1, <3>2, <3>3, SumAdd
    <3> QED  BY <2>9, <3>4 DEF Sum, W
  <2>12. Sum(V) \in Nat
    <3>1. IsFiniteSet(V)  BY <1>1, <2>7
    <3> QED  BY <2>7, <3>1, SumNat DEF Sum
  <2>13. f[x] \in Nat  BY <2>3
  <2> QED  BY <2>3, <2>4, <2>8, <2>10, <2>11, <2>12, <2>13
<1>3. T \notin Bad  BY <1>2
<1> QED  BY <1>3

LEMMA SumSubset ==
  ASSUME NEW T, IsFiniteSet(T), NEW S \in SUBSET T, NEW f, \A x \in T : f[x] \in Nat
  PROVE  SumFunctionOnSet(f, S) <= SumFunctionOnSet(f, T)
<1> DEFINE V == T \ S
<1>1. IsFiniteSet(S) /\ IsFiniteSet(V)  BY FS_Subset
<1>2. S \cup V = T /\ S \cap V = {}  OBVIOUS
<1>3. \A x \in S : f[x] \in Nat  OBVIOUS
<1>4. \A x \in V : f[x] \in Nat  OBVIOUS
<1> HIDE DEF V
<1>5. SumFunctionOnSet(f, S) \in Nat /\ SumFunctionOnSet(f, V) \in Nat
  BY <1>1, <1>3, <1>4, SumNat
<1>6. SumFunctionOnSet(f, S \cup V) = SumFunctionOnSet(f, S) + SumFunctionOnSet(f, V)
  BY <1>1, <1>2, SumUnion
<1>7. SumFunctionOnSet(f, T) = SumFunctionOnSet(f, S) + SumFunctionOnSet(f, V)
  BY <1>2, <1>6
<1> QED  BY <1>5, <1>7

\* A sum over the images of an injective function is one over what it is applied to.
LEMMA SumImage ==
  ASSUME NEW S, IsFiniteSet(S), NEW h, \A x, y \in S : h[x] = h[y] => x = y,
         NEW f, NEW g, \A x \in S : g[x] \in Nat /\ g[x] = f[h[x]]
  PROVE  /\ IsFiniteSet({h[x] : x \in S})
         /\ SumFunctionOnSet(f, {h[x] : x \in S}) = SumFunctionOnSet(g, S)
<1> DEFINE I(U) == {h[x] : x \in U}
           Same(U) == SumFunctionOnSet(f, I(U)) = SumFunctionOnSet(g, U)
           Bad == {U \in SUBSET S : ~(IsFiniteSet(I(U)) /\ Same(U))}
<1>1. Bad = {}
  <2> SUFFICES ASSUME Bad # {}  PROVE FALSE  OBVIOUS
  <2>1. \A U \in Bad : IsFiniteSet(U)  BY FS_Subset
  <2> HIDE DEF Bad
  <2>2. PICK M \in Bad : \A U \in Bad : U \subseteq M => U = M  BY <2>1, MinimalSet
  <2> USE DEF Bad
  <2> HIDE DEF Same
  <2>3. M \in SUBSET S /\ ~(IsFiniteSet(I(M)) /\ Same(M))  OBVIOUS
  <2>4. M # {}
    <3>1. ASSUME M = {}  PROVE FALSE
      <4>1. I(M) = {}  BY <3>1
      <4>2. Same(M)  BY <3>1, <4>1, SumEmpty DEF Same
      <4> QED  BY <2>3, <4>1, <4>2, FS_EmptySet
    <3> QED  BY <3>1
  <2>5. PICK x \in M : TRUE  BY <2>4
  <2> DEFINE V == M \ {x}
  <2>6. V \in SUBSET S /\ V # M /\ V \subseteq M  BY <2>3
  <2>7. IsFiniteSet(I(V)) /\ Same(V)  BY <2>2, <2>6
  <2>8. I(M) = I(V) \cup {h[x]} /\ h[x] \notin I(V)  BY <2>3
  <2>9. IsFiniteSet(I(M))
    <3> HIDE DEF I, V
    <3> QED  BY <2>7, <2>8, FS_AddElement
  <2>10. \A z \in I(V) : f[z] \in Nat  BY <2>6
  <2>11. f[h[x]] = g[x] /\ g[x] \in Nat  BY <2>3
  <2>12. SumFunctionOnSet(f, I(M)) = f[h[x]] + SumFunctionOnSet(f, I(V))
    <3> DEFINE W == I(V)
               z == h[x]
    <3>1. IsFiniteSet(W) /\ z \notin W /\ I(M) = W \cup {z}  BY <2>7, <2>8
    <3>2. \A y \in W : f[y] \in Nat  BY <2>10
    <3>3. f[z] \in Nat  BY <2>11
    <3> HIDE DEF W, z, I
    <3>4. SumFunctionOnSet(f, W \cup {z}) = f[z] + SumFunctionOnSet(f, W)
      BY <3>1, <3>2, <3>3, SumAdd
    <3> QED  BY <3>1, <3>4 DEF W, z
  <2>13. SumFunctionOnSet(g, M) = g[x] + SumFunctionOnSet(g, V)
    <3>1. IsFiniteSet(M)  BY <2>1
    <3>2. \A y \in M : g[y] \in Nat  BY <2>3
    <3> QED  BY <3>1, <3>2, SumStep
  <2>14. Same(M)  BY <2>7, <2>11, <2>12, <2>13 DEF Same
  <2> QED  BY <2>3, <2>9, <2>14
<1>2. S \notin Bad  BY <1>1
<1> QED  BY <1>2

\* A sum over the union of disjoint sets is the sum of the sums.
LEMMA SumPartition ==
  ASSUME NEW S, IsFiniteSet(S), NEW F, \A x \in S : IsFiniteSet(F[x]),
         \A x, y \in S : x # y => F[x] \cap F[y] = {},
         NEW f, \A x \in S : \A u \in F[x] : f[u] \in Nat,
         NEW g, \A x \in S : g[x] = SumFunctionOnSet(f, F[x]),
         NEW W, \A u : u \in W <=> \E x \in S : u \in F[x]
  PROVE  IsFiniteSet(W) /\ SumFunctionOnSet(f, W) = SumFunctionOnSet(g, S)
<1> DEFINE All(U) == UNION {F[x] : x \in U}
           Same(U) == SumFunctionOnSet(f, All(U)) = SumFunctionOnSet(g, U)
           Good == {U \in SUBSET S : IsFiniteSet(All(U)) /\ Same(U)}
<1>1. \A x \in S : g[x] \in Nat
  <2> TAKE x \in S
  <2> DEFINE P == F[x]
  <2>1. IsFiniteSet(P) /\ \A u \in P : f[u] \in Nat  OBVIOUS
  <2> HIDE DEF P
  <2>2. SumFunctionOnSet(f, P) \in Nat  BY <2>1, SumNat
  <2> QED  BY <2>2 DEF P
<1>2. {} \in Good
  <2>1. All({}) = {}  OBVIOUS
  <2>2. Same({})  BY <2>1, SumEmpty
  <2> QED  BY <2>1, <2>2, FS_EmptySet
<1>3. ASSUME NEW U \in SUBSET S, NEW x \in S \ U, U \in Good  PROVE U \cup {x} \in Good
  <2> DEFINE A == All(U)
             P == F[x]
             V == U \cup {x}
  <2>1. All(V) = A \cup P /\ A \cap P = {} /\ V \in SUBSET S  OBVIOUS
  <2>2. IsFiniteSet(A) /\ IsFiniteSet(P) /\ \A u \in A \cup P : f[u] \in Nat
    BY <1>3
  <2>3. SumFunctionOnSet(f, A) = SumFunctionOnSet(g, U)  BY <1>3
  <2>4. IsFiniteSet(U) /\ \A y \in U : g[y] \in Nat  BY <1>1, FS_Subset
  <2>5. g[x] \in Nat /\ g[x] = SumFunctionOnSet(f, P)  BY <1>1
  <2>6. x \notin U  OBVIOUS
  <2> HIDE DEF A, P, V, All
  <2>7. SumFunctionOnSet(f, A \cup P) = SumFunctionOnSet(f, A) + SumFunctionOnSet(f, P)
    BY <2>1, <2>2, SumUnion
  <2>8. SumFunctionOnSet(g, V) = g[x] + SumFunctionOnSet(g, U)
    BY <2>4, <2>5, <2>6, SumAdd DEF V
  <2>9. SumFunctionOnSet(g, U) \in Nat  BY <2>4, SumNat
  <2>10. IsFiniteSet(A \cup P)  BY <2>2, FS_Union
  <2>11. Same(V)  BY <2>1, <2>3, <2>5, <2>7, <2>8, <2>9
  <2>12. IsFiniteSet(All(V))  BY <2>1, <2>10
  <2> QED  BY <2>1, <2>11, <2>12 DEF V
<1> HIDE DEF Good
<1>4. S \in Good  BY <1>2, <1>3, SetInduction
<1>5. W = All(S)  OBVIOUS
<1> QED  BY <1>4, <1>5 DEF Good

\* Smaller summands make a smaller sum.
LEMMA SumLe ==
  ASSUME NEW S, IsFiniteSet(S), NEW f, NEW g,
         \A x \in S : f[x] \in Nat /\ g[x] \in Nat /\ f[x] <= g[x]
  PROVE  SumFunctionOnSet(f, S) <= SumFunctionOnSet(g, S)
<1> DEFINE Good == {U \in SUBSET S : SumFunctionOnSet(f, U) <= SumFunctionOnSet(g, U)}
<1>1. {} \in Good  BY SumEmpty
<1>2. ASSUME NEW U \in SUBSET S, NEW x \in S \ U, U \in Good  PROVE U \cup {x} \in Good
  <2>1. IsFiniteSet(U) /\ x \notin U  BY FS_Subset
  <2>2. \A y \in U : f[y] \in Nat /\ g[y] \in Nat  OBVIOUS
  <2>3. SumFunctionOnSet(f, U) \in Nat /\ SumFunctionOnSet(g, U) \in Nat
    BY <2>1, <2>2, SumNat
  <2>4. SumFunctionOnSet(f, U \cup {x}) = f[x] + SumFunctionOnSet(f, U)
    BY <2>1, <2>2, SumAdd
  <2>5. SumFunctionOnSet(g, U \cup {x}) = g[x] + SumFunctionOnSet(g, U)
    BY <2>1, <2>2, SumAdd
  <2> QED  BY <1>2, <2>3, <2>4, <2>5
<1> HIDE DEF Good
<1>3. S \in Good  BY <1>1, <1>2, SetInduction
<1> QED  BY <1>3 DEF Good

-----------------------------------------------------------------------------
(* Remainders *)

LEMMA ModFacts ==
  ASSUME NEW M \in Nat \ {0}, NEW a \in Nat
  PROVE  /\ a \div M \in Nat /\ a % M \in Nat /\ a % M < M
         /\ a = M * (a \div M) + (a % M)
OBVIOUS

LEMMA ModUnique ==
  ASSUME NEW M \in Nat \ {0}, NEW q \in Int, NEW r \in Nat, r < M
  PROVE  (M * q + r) % M = r
OBVIOUS

LEMMA Distributes ==
  ASSUME NEW a \in Int, NEW b \in Int, NEW c \in Int
  PROVE  a * (b + c) = a * b + a * c
OBVIOUS

LEMMA ModAdd ==
  ASSUME NEW M \in Nat \ {0}, NEW a \in Nat, NEW b \in Nat
  PROVE  ((a % M) + b) % M = (a + b) % M
<1> DEFINE r == a % M
           c == r + b
           s == c % M
           q == (a \div M) + (c \div M)
<1>1. r \in Nat /\ a = M * (a \div M) + r /\ a \div M \in Nat  BY ModFacts
<1> HIDE DEF r
<1>2. c \in Nat  BY <1>1
<1> HIDE DEF c
<1>3. s \in Nat /\ s < M /\ c = M * (c \div M) + s /\ c \div M \in Nat  BY <1>2, ModFacts
<1>4. q \in Int  BY <1>1, <1>3
<1> HIDE DEF s
<1>5. a + b = M * q + s
  <2>1. a + b = M * (a \div M) + c  BY <1>1 DEF c
  <2>2. M * (a \div M) \in Int /\ M * (c \div M) \in Int  BY <1>1, <1>3
  <2>3. M * q = M * (a \div M) + M * (c \div M)
    <3>1. a \div M \in Int /\ c \div M \in Int /\ M \in Int  BY <1>1, <1>3
    <3> QED  BY <3>1, Distributes
  <2> QED  BY <1>3, <2>1, <2>2, <2>3
<1> HIDE DEF q
<1>6. (a + b) % M = s  BY <1>3, <1>4, <1>5, ModUnique
<1> QED  BY <1>6 DEF s, c, r

\* Remainders may be summed instead of the summands.
LEMMA SumMod ==
  ASSUME NEW M \in Nat \ {0}, NEW S, IsFiniteSet(S), NEW f, NEW g,
         \A x \in S : f[x] \in Nat /\ g[x] = f[x] % M
  PROVE  SumFunctionOnSet(g, S) % M = SumFunctionOnSet(f, S) % M
<1> DEFINE Good == {U \in SUBSET S :
                      SumFunctionOnSet(g, U) % M = SumFunctionOnSet(f, U) % M}
<1>0. \A x \in S : g[x] \in Nat  BY ModFacts
<1>1. {} \in Good  BY SumEmpty
<1>2. ASSUME NEW U \in SUBSET S, NEW x \in S \ U, U \in Good  PROVE U \cup {x} \in Good
  <2> DEFINE F == SumFunctionOnSet(f, U)
             G == SumFunctionOnSet(g, U)
  <2>1. IsFiniteSet(U) /\ x \notin U  BY FS_Subset
  <2>2. \A y \in U : f[y] \in Nat /\ g[y] \in Nat  BY <1>0
  <2>3. F \in Nat /\ G \in Nat  BY <2>1, <2>2, SumNat
  <2>4. SumFunctionOnSet(f, U \cup {x}) = f[x] + F  BY <2>1, <2>2, SumAdd
  <2>5. SumFunctionOnSet(g, U \cup {x}) = g[x] + G  BY <1>0, <2>1, <2>2, SumAdd
  <2>6. G % M = F % M  BY <1>2
  <2>7. f[x] \in Nat /\ g[x] \in Nat /\ g[x] = f[x] % M  BY <1>0
  <2> HIDE DEF F, G
  <2>8. ((f[x] % M) + G) % M = (f[x] + G) % M  BY <2>3, <2>7, ModAdd
  <2>9. f[x] + G = G + f[x] /\ f[x] + F = F + f[x]  BY <2>3, <2>7
  <2>10. (G + f[x]) % M = (F + f[x]) % M
    <3>1. ((G % M) + f[x]) % M = (G + f[x]) % M  BY <2>3, <2>7, ModAdd
    <3>2. ((F % M) + f[x]) % M = (F + f[x]) % M  BY <2>3, <2>7, ModAdd
    <3> QED  BY <2>6, <3>1, <3>2
  <2>11. (g[x] + G) % M = (f[x] + F) % M  BY <2>7, <2>8, <2>9, <2>10
  <2> QED  BY <2>4, <2>5, <2>11
<1> HIDE DEF Good
<1>3. S \in Good  BY <1>1, <1>2, SetInduction
<1> QED  BY <1>3 DEF Good

-----------------------------------------------------------------------------
(* Sequences *)

\* The indices of a sequence are its positions, and its elements have its type.
LEMMA SeqElements ==
  ASSUME NEW S, NEW s \in Seq(S)
  PROVE  /\ Len(s) \in Nat /\ DOMAIN s = 1..Len(s)
         /\ \A i \in DOMAIN s : i \in Nat /\ s[i] \in S
OBVIOUS

LEMMA FiniteDomain ==
  ASSUME NEW S, NEW s \in Seq(S)
  PROVE  IsFiniteSet(DOMAIN s)
<1>1. DOMAIN s = 1..Len(s) /\ Len(s) \in Nat  BY SeqElements
<1> QED  BY <1>1, FS_Interval

\* What FoldLeft takes from the end of an initial segment.
LEMMA LastIndex ==
  ASSUME NEW n \in Nat, n # 0
  PROVE  Max(1..n) = n /\ (1..n) \ {n} = 1..(n - 1)
<1>1. n \in 1..n /\ \A y \in 1..n : n >= y  OBVIOUS
<1>2. \A m \in 1..n : (\A y \in 1..n : m >= y) => m = n  BY <1>1
<1> QED  BY <1>1, <1>2 DEF Max

LEMMA MaxOfIndices ==
  ASSUME NEW n \in Nat, NEW T \in SUBSET (1..n), T # {}
  PROVE  Max(T) \in T
<1> DEFINE D == {n - x : x \in T}
<1>a. \A x \in T : x \in Nat /\ n - x \in Nat  OBVIOUS
<1>1. D \subseteq Nat /\ D # {}  BY <1>a
<1> HIDE DEF D
<1>2. PICK d \in D : \A e \in D : d <= e  BY <1>1, LeastNatural
<1> USE DEF D
<1>3. PICK m \in T : d = n - m  OBVIOUS
<1>4. ASSUME NEW y \in T  PROVE m >= y
  <2>1. n - m <= n - y  BY <1>2, <1>3
  <2> QED  BY <2>1
<1> QED  BY <1>3, <1>4 DEF Max

\* A fold from left to right, step by step.
LEMMA FoldLeftSteps ==
  ASSUME NEW n \in Nat, NEW A, NEW base \in A, NEW op,
         \A i \in 1..n : \A a \in A : op[i][a] \in A
  PROVE  \E iter : FoldedBy(iter, 1..n, A, base, [T \in SUBSET (1..n) |-> Max(T)], op)
<1> DEFINE c == [T \in SUBSET (1..n) |-> Max(T)]
<1>1. IsFiniteSet(1..n)  BY FS_Interval
<1>2. \A T \in SUBSET (1..n) : T # {} => c[T] \in T  BY MaxOfIndices
<1>3. Foldable(1..n, A, base, c, op)  BY <1>1, <1>2 DEF Foldable
<1> HIDE DEF c
<1>4. \E iter : FoldedBy(iter, 1..n, A, base, c, op)  BY <1>3, FoldExists
<1> QED  BY <1>4 DEF c

\* A sum of uint64 values is the exact one modulo 2^64.
LEMMA Uint64SumIs ==
  ASSUME NEW s \in Seq(Nat)
  PROVE  Uint64Sum(s) = SumFunctionOnSet(s, DOMAIN s) % UintMod
<1> DEFINE n == Len(s)
           c == [T \in SUBSET (1..n) |-> Max(T)]
           op == [i \in 1..n |-> [a \in Nat |-> (a + s[i]) % UintMod]]
           R(iter) == [T \in SUBSET (1..n) |->
                         IF T = {} THEN 0 ELSE (iter[T \ {Max(T)}] + s[Max(T)]) % UintMod]
           it == CHOOSE iter : iter = R(iter)
           Sum(m) == SumFunctionOnSet(s, 1..m)
<1>1. n \in Nat /\ DOMAIN s = 1..n /\ UintMod \in Nat \ {0} /\ \A i \in 1..n : s[i] \in Nat
  BY EntitiesAssumption
<1>2. \A i \in 1..n : \A a \in Nat : op[i][a] \in Nat  BY <1>1, ModFacts
<1>3. PICK g : FoldedBy(g, 1..n, Nat, 0, c, op)
  <2> HIDE DEF op, n
  <2>1. 0 \in Nat  OBVIOUS
  <2> QED  BY <1>1, <1>2, <2>1, FoldLeftSteps
<1>4. ASSUME NEW T \in SUBSET (1..n)
      PROVE  g[T] = IF T = {} THEN 0 ELSE (g[T \ {Max(T)}] + s[Max(T)]) % UintMod
  <2>1. CASE T = {}  BY <1>3, <2>1 DEF FoldedBy
  <2>2. CASE T # {}
    <3>1. c[T] = Max(T) /\ Max(T) \in 1..n  BY <1>1, <2>2, MaxOfIndices
    <3>2. g[T \ {Max(T)}] \in Nat  BY <1>3 DEF FoldedBy
    <3>3. g[T] = op[Max(T)][g[T \ {Max(T)}]]  BY <1>3, <2>2, <3>1 DEF FoldedBy
    <3> QED  BY <2>2, <3>1, <3>2, <3>3
  <2> QED  BY <2>1, <2>2
<1>5. g = R(g)
  <2>1. g = [T \in SUBSET (1..n) |-> g[T]]  BY <1>3 DEF FoldedBy
  <2> QED  BY <1>4, <2>1
<1> HIDE DEF R
<1>6. it = R(it)  BY <1>5
<1> USE DEF R
<1>7. Uint64Sum(s) = it[1..n]
  BY <1>1 DEF Uint64Sum, FoldLeft, MapThenFoldSet
<1> HIDE DEF it
<1>8. \A T \in SUBSET (1..n) :
         it[T] = IF T = {} THEN 0 ELSE (it[T \ {Max(T)}] + s[Max(T)]) % UintMod
  BY <1>6
<1> DEFINE Bad == {m \in Nat : m <= n /\ it[1..m] # Sum(m) % UintMod}
<1>9. Bad = {}
  <2> SUFFICES ASSUME Bad # {}  PROVE FALSE  OBVIOUS
  <2>1. Bad \subseteq Nat  OBVIOUS
  <2> HIDE DEF Bad, n
  <2>2. PICK m \in Bad : \A k \in Bad : m <= k  BY <2>1, LeastNatural
  <2> USE DEF Bad
  <2>3. m \in Nat /\ m <= n /\ it[1..m] # Sum(m) % UintMod  OBVIOUS
  <2>4. ASSUME m = 0  PROVE FALSE
    <3>1. 1..m = {}  BY <2>4
    <3>2. Sum(m) = 0 /\ it[1..m] = 0  BY <1>8, <3>1, SumEmpty
    <3>3. 0 % UintMod = 0  BY <1>1
    <3> QED  BY <2>3, <3>2, <3>3
  <2> DEFINE j == m - 1
  <2>5. j \in Nat /\ j <= n /\ j < m  BY <1>1, <2>3, <2>4
  <2>6. it[1..j] = Sum(j) % UintMod
    <3>1. ~(m <= j)  BY <2>3
    <3> QED  BY <2>2, <2>5, <3>1
  <2>7. Max(1..m) = m /\ (1..m) \ {m} = 1..j /\ 1..m # {} /\ m \in 1..m
    <3>1. m # 0  BY <2>4
    <3>2. m \in 1..m  BY <2>3, <3>1
    <3>3. Max(1..m) = m /\ (1..m) \ {m} = 1..(m - 1)  BY <2>3, <3>1, LastIndex
    <3> QED  BY <3>2, <3>3
  <2>8. 1..m \subseteq 1..n /\ s[m] \in Nat  BY <1>1, <2>3, <2>4
  <2>9. it[1..m] = (it[1..j] + s[m]) % UintMod  BY <1>8, <2>7, <2>8
  <2>10. IsFiniteSet(1..m) /\ IsFiniteSet(1..j)
    <3>1. 1 \in Int /\ m \in Int /\ j \in Int  BY <2>3, <2>5
    <3> HIDE DEF j
    <3> QED  BY <3>1, FS_Interval
  <2>11. (\A x \in 1..m : s[x] \in Nat) /\ (\A x \in 1..j : s[x] \in Nat)
    BY <1>1, <2>7, <2>8
  <2>12. Sum(m) = s[m] + Sum(j)
    <3> DEFINE T == 1..m
    <3>1. IsFiniteSet(T) /\ (\A x \in T : s[x] \in Nat) /\ m \in T /\ T \ {m} = 1..j
      BY <2>7, <2>10, <2>11
    <3> HIDE DEF T, j
    <3>2. SumFunctionOnSet(s, T) = s[m] + SumFunctionOnSet(s, T \ {m})  BY <3>1, SumStep
    <3> QED  BY <3>1, <3>2 DEF T
  <2>13. Sum(j) \in Nat  BY <2>10, <2>11, SumNat
  <2> HIDE DEF Sum, j
  <2>14. ((Sum(j) % UintMod) + s[m]) % UintMod = (Sum(j) + s[m]) % UintMod
    BY <1>1, <2>8, <2>13, ModAdd
  <2>15. Sum(j) + s[m] = Sum(m)  BY <2>8, <2>12, <2>13
  <2> QED  BY <2>3, <2>6, <2>9, <2>14, <2>15
<1>10. it[1..n] = Sum(n) % UintMod  BY <1>1, <1>9
<1> QED  BY <1>1, <1>7, <1>10

-----------------------------------------------------------------------------
(* Entities *)

\* A block's parent is a block, and its txs are a sequence of txs.
LEMMA BlockFacts ==
  ASSUME NEW a \in Block \ {Zero}
  PROVE  /\ BlockOf[a].prev \in Block /\ BlockOf[a].merkleRoot \in Merkle
         /\ BlockTxs(a) \in Seq(Tx) /\ BlockOf[a].work \in Nat
<1>1. BlockOf[a] \in BlockRecord  BY EntitiesAssumption
<1>2. BlockOf[a].merkleRoot \in Merkle  BY <1>1 DEF BlockRecord
<1>3. BlockTxs(a) \in Seq(Tx)  BY <1>2, LeavesAssumption DEF BlockTxs
<1> QED  BY <1>1, <1>2, <1>3 DEF BlockRecord

\* What a tx creates and consumes are utxos, and the created ones carry its id.
LEMMA TxFacts ==
  ASSUME NEW t \in Tx
  PROVE  /\ Consumed(t) \subseteq Utxo /\ Created(t) \subseteq Utxo
         /\ \A u \in Created(t) : u.txId = t /\ Owner(u) \in Pkh
<1>1. TxOf[t] \in TxRecord  BY EntitiesAssumption
<1>2. Consumed(t) \subseteq Utxo
  <2>1. TxOf[t].inputs \in Seq([utxo : Utxo, pkh : Pkh])  BY <1>1 DEF TxRecord
  <2>2. \A i \in DOMAIN TxOf[t].inputs : TxOf[t].inputs[i] \in [utxo : Utxo, pkh : Pkh]
    BY <2>1, SeqElements
  <2> QED  BY <2>2 DEF Consumed
<1>3. \A i \in DOMAIN TxOf[t].outputs :
         i \in Nat /\ TxOf[t].outputs[i] \in [value : Nat, pkh : Pkh]
  <2>1. TxOf[t].outputs \in Seq([value : Nat, pkh : Pkh])  BY <1>1 DEF TxRecord
  <2> QED  BY <2>1, SeqElements
<1>4. Created(t) \subseteq Utxo  BY <1>3 DEF Created, Utxo
<1>5. ASSUME NEW u \in Created(t)  PROVE u.txId = t /\ Owner(u) \in Pkh
  <2>1. PICK i \in DOMAIN TxOf[t].outputs :
           u = [txId |-> t, ind |-> i, value |-> TxOf[t].outputs[i].value]
    BY DEF Created
  <2>2. u.txId = t /\ u.ind = i  BY <2>1
  <2> QED  BY <2>2, <1>3 DEF Owner
<1> QED  BY <1>2, <1>4, <1>5

-----------------------------------------------------------------------------
(* Ancestry: no induction, only the definition as a least closed set *)

LEMMA AncestorsLeast ==
  ASSUME NEW b \in Block, NEW S \in SUBSET Block, b \in S, ClosedUnderParent(S)
  PROVE  Ancestors[b] \subseteq S
BY DEF Ancestors

LEMMA AncestorsClosed ==
  ASSUME NEW b \in Block
  PROVE  Ancestors[b] \subseteq Block /\ b \in Ancestors[b]
         /\ ClosedUnderParent(Ancestors[b])
<1>1. Ancestors[b] =
        {a \in Block : \A S \in SUBSET Block : b \in S /\ ClosedUnderParent(S) => a \in S}
  BY DEF Ancestors
<1>2. ASSUME NEW a \in Ancestors[b] \ {Zero}  PROVE BlockOf[a].prev \in Ancestors[b]
  BY <1>1, <1>2, BlockFacts DEF ClosedUnderParent
<1> QED  BY <1>1, <1>2 DEF ClosedUnderParent

\* The zero block has no ancestor but itself.
LEMMA AncestorsOfZero == Ancestors[Zero] = {Zero}
<1>1. Zero \in Block  BY EntitiesAssumption
<1>2. ClosedUnderParent({Zero})  BY DEF ClosedUnderParent
<1>3. Ancestors[Zero] \subseteq {Zero}  BY <1>1, <1>2, AncestorsLeast
<1> QED  BY <1>1, <1>3, AncestorsClosed

\* Any other block's ancestors are itself and its parent's.
LEMMA AncestorsStep ==
  ASSUME NEW b \in Block \ {Zero}
  PROVE  Ancestors[b] = {b} \cup Ancestors[BlockOf[b].prev]
<1> DEFINE p == BlockOf[b].prev
           S == {b} \cup Ancestors[p]
<1>1. p \in Block  BY BlockFacts
<1>2. S \subseteq Block /\ ClosedUnderParent(S)
  BY <1>1, AncestorsClosed DEF ClosedUnderParent
<1>3. Ancestors[b] \subseteq S  BY <1>2, AncestorsLeast
<1>4. p \in Ancestors[b]  BY AncestorsClosed DEF ClosedUnderParent
<1>5. Ancestors[p] \subseteq Ancestors[b]
  BY <1>1, <1>4, AncestorsClosed, AncestorsLeast
<1> QED  BY <1>3, <1>5, AncestorsClosed

\* Below any proper ancestor a of b there is a block on the way to b.
LEMMA ChildExists ==
  ASSUME NEW b \in Block, NEW a \in Ancestors[b], a # b
  PROVE  \E n \in Ancestors[b] \ {Zero} : BlockOf[n].prev = a
<1> SUFFICES ASSUME \A n \in Ancestors[b] \ {Zero} : BlockOf[n].prev # a
             PROVE  FALSE
  OBVIOUS
<1>1. ClosedUnderParent(Ancestors[b] \ {a})  BY AncestorsClosed DEF ClosedUnderParent
<1>2. Ancestors[b] \subseteq Ancestors[b] \ {a}
  BY <1>1, AncestorsClosed, AncestorsLeast
<1> QED  BY <1>2
=============================================================================
