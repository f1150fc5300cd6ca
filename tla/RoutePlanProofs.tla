-------------------------- MODULE RoutePlanProofs --------------------------
(***************************************************************************)
(* What a trip pair promises for every line, every routed time, every      *)
(* override and every night window.                                        *)
(*                                                                         *)
(* The library's induction theorems take an operator and cannot be used    *)
(* here, so sums and walks are reached by sets: FiniteInduction shows that *)
(* a family of sets holds every finite set, Climb that a set of naturals   *)
(* holds them all.  From there: what the largest remainders hand out, how  *)
(* long a walk takes between two stops, what one direction is made of      *)
(* (Posed, Built), that it runs as planned or later (Timed), that the two  *)
(* directions of a mirrored pair spend the same time on the same legs      *)
(* (Opposite), and the invariant PlanInv that carries these to every       *)
(* reachable state.  Then the line in service: what is known of each rake  *)
(* (ServiceInv), and on which day each of them left last (FleetInv), from  *)
(* which a departure without a rake would need one day too many.           *)
(***************************************************************************)
EXTENDS RoutePlan, FiniteSetTheorems, SequenceTheorems, TLAPS

(***************************************************************************)
(* Sums over a finite set, by induction over the set.                      *)
(***************************************************************************)

\* A set of naturals that is not empty has a least one.
LEMMA LeastOf ==
  ASSUME NEW T, T \subseteq Nat, T # {}
  PROVE  \E x \in T : \A y \in T : x <= y
<1> DEFINE R == {ss \in Nat \X Nat : ss[1] < ss[2]}
<1>1. IsWellFoundedOn(R, Nat) BY NatLessThanWellFounded DEF OpToRel
<1> HIDE DEF R
<1>2. \E x \in T : \A y \in T : ~(<<y, x>> \in R) BY <1>1, WFMin
<1>3. PICK x \in T : \A y \in T : ~(<<y, x>> \in R) BY <1>2
<1>4. \A y \in T : x <= y
  <2> TAKE y \in T
  <2>1. ~(y < x) BY <1>3 DEF R
  <2> QED BY <2>1
<1> QED BY <1>4

\* Induction over the naturals, for a set instead of a formula.
LEMMA Climb ==
  ASSUME NEW T, 0 \in T, \A n \in Nat : n \in T => n + 1 \in T
  PROVE  Nat \subseteq T
<1> SUFFICES ASSUME NEW k \in Nat, k \notin T PROVE FALSE OBVIOUS
<1> DEFINE U == {n \in Nat : n \notin T}
<1>1. PICK x \in U : \A y \in U : x <= y BY LeastOf
<1>2. x # 0 /\ x \in Nat OBVIOUS
<1>3. x - 1 \in Nat BY <1>2
<1>4. x - 1 \in T BY <1>1, <1>3
<1> QED BY <1>2, <1>3, <1>4

\* Induction over a finite set: F holds every set that is grown from the empty
\* one, element by element.
LEMMA FiniteInduction ==
  ASSUME NEW S, IsFiniteSet(S), NEW F, {} \in F,
         \A T \in F : \A x \in S : T \in SUBSET S /\ x \notin T => T \cup {x} \in F
  PROVE  S \in F
<1> DEFINE G == {n \in Nat : \A T \in SUBSET S : Cardinality(T) = n => T \in F}
<1>1. 0 \in G
  BY FS_Subset, FS_EmptySet
<1>2. ASSUME NEW n \in Nat, n \in G  PROVE n + 1 \in G
  <2> SUFFICES ASSUME NEW T \in SUBSET S, Cardinality(T) = n + 1 PROVE T \in F
    OBVIOUS
  <2>1. IsFiniteSet(T)  BY FS_Subset
  <2>2. PICK x : x \in T  BY <2>1, FS_EmptySet
  <2>3. Cardinality(T \ {x}) = n
    <3>1. Cardinality(T \ {x}) = Cardinality(T) - 1
      BY <2>1, <2>2, FS_RemoveElement
    <3> QED  BY <3>1
  <2>4. T \ {x} \in F  BY <1>2, <2>3
  <2>5. (T \ {x}) \cup {x} \in F  BY <2>2, <2>4
  <2> QED  BY <2>2, <2>5
<1>3. Nat \subseteq G
  <2> HIDE DEF G
  <2> QED BY <1>1, <1>2, Climb
<1> QED  BY <1>3, FS_CardinalityType

\* The element a sum takes first, and the recursive function of all its parts.
Pick(s) == CHOOSE x \in s : TRUE
IsSum(g, f, S) ==
  g = [s \in SUBSET S |-> IF s = {} THEN 0 ELSE f[Pick(s)] + g[s \ {Pick(s)}]]

\* The recursive function behind a sum is one that satisfies its equation.
LEMMA Unfold ==
  ASSUME NEW f, NEW S, \E g : IsSum(g, f, S)
  PROVE  \E g : IsSum(g, f, S) /\ SumFunctionOnSet(f, S) = g[S]
<1> DEFINE h == CHOOSE g : IsSum(g, f, S)
<1>1. IsSum(h, f, S) OBVIOUS
<1>2. SumFunctionOnSet(f, S) = h[S]
  BY DEF SumFunctionOnSet, FoldFunctionOnSet, MapThenFoldSet, IsSum, Pick
<1> QED  BY <1>1, <1>2

\* The sum TLA+ names is the one its recursion defines, for every finite set.
LEMMA SumExists ==
  ASSUME NEW f, NEW S, IsFiniteSet(S)
  PROVE  \E g : IsSum(g, f, S)
<1> DEFINE Step(g) == [s \in SUBSET S |->
                  IF s = {} THEN 0 ELSE f[Pick(s)] + g[s \ {Pick(s)}]]
           Upto(n) == {s \in SUBSET S : Cardinality(s) <= n}
           G == {n \in Nat : \E g : \A s \in Upto(n) : g[s] = Step(g)[s]}
<1>0. \A s \in SUBSET S : IsFiniteSet(s) /\ Cardinality(s) \in Nat
  BY FS_Subset, FS_CardinalityType
<1>1. 0 \in G
  <2>1. \A s \in Upto(0) : s = {}  BY <1>0, FS_EmptySet
  <2>2. \A s \in Upto(0) : [s1 \in SUBSET S |-> 0][s] = Step([s1 \in SUBSET S |-> 0])[s]
    BY <2>1
  <2> QED  BY <2>2
<1>2. ASSUME NEW n \in Nat, n \in G  PROVE n + 1 \in G
  <2>1. PICK g : \A s \in Upto(n) : g[s] = Step(g)[s]  BY <1>2
  <2> DEFINE h == Step(g)
  <2>2. SUFFICES \A s \in Upto(n + 1) : h[s] = Step(h)[s]
    <3> HIDE DEF h, Step, Upto
    <3> QED  OBVIOUS
  <2> SUFFICES ASSUME NEW s \in Upto(n + 1) PROVE h[s] = Step(h)[s]
    OBVIOUS
  <2>3. CASE s = {}  BY <2>3
  <2>4. CASE s # {}
    <3> DEFINE r == s \ {Pick(s)}
    <3>1. Pick(s) \in s  BY <2>4 DEF Pick
    <3>2. Cardinality(r) = Cardinality(s) - 1
      BY <1>0, <3>1, FS_RemoveElement
    <3>3. r \in Upto(n)  BY <1>0, <3>2
    <3>4. g[r] = h[r]  BY <2>1, <3>3
    <3>5. h[s] = f[Pick(s)] + g[r] /\ Step(h)[s] = f[Pick(s)] + h[r]  BY <2>4
    <3> QED  BY <3>4, <3>5
  <2> QED  BY <2>3, <2>4
<1>3. Cardinality(S) \in G
  <2> HIDE DEF G
  <2> QED  BY <1>0, <1>1, <1>2, Climb
<1>4. PICK g : \A s \in Upto(Cardinality(S)) : g[s] = Step(g)[s]  BY <1>3
<1> DEFINE h == Step(g)
<1>5. \A s \in SUBSET S : s \in Upto(Cardinality(S))  BY FS_Subset
<1>6. h = Step(h)
  <2>1. \A s \in SUBSET S : g[s] = h[s]  BY <1>4, <1>5
  <2>2. ASSUME NEW s \in SUBSET S  PROVE h[s] = Step(h)[s]
    <3>1. CASE s = {}  BY <3>1
    <3>2. CASE s # {}  BY <2>1, <3>2
    <3> QED  BY <3>1, <3>2
  <2> QED  BY <2>2
<1> QED  BY <1>6 DEF IsSum

\* Two functions that satisfy the equation agree on every subset they share.
LEMMA SumsAgree ==
  ASSUME NEW f, NEW S, NEW U, IsFiniteSet(S), U \subseteq S,
         NEW g, NEW h, IsSum(g, f, S), IsSum(h, f, U)
  PROVE  g[U] = h[U]
<1> DEFINE G == {n \in Nat : \A s \in SUBSET U :
                   Cardinality(s) = n => g[s] = h[s]}
<1>0. \A s \in SUBSET U : IsFiniteSet(s) /\ Cardinality(s) \in Nat
  BY FS_Subset, FS_CardinalityType
<1>1. 0 \in G  BY <1>0, FS_EmptySet DEF IsSum
<1>2. ASSUME NEW n \in Nat, n \in G  PROVE n + 1 \in G
  <2>1. SUFFICES ASSUME NEW s \in SUBSET U, Cardinality(s) = n + 1
                 PROVE g[s] = h[s]
    OBVIOUS
  <2> DEFINE r == s \ {Pick(s)}
  <2>2. s # {}  BY <2>1, FS_EmptySet
  <2>3. Pick(s) \in s  BY <2>2 DEF Pick
  <2>4. Cardinality(r) = Cardinality(s) - 1  BY <1>0, <2>3, FS_RemoveElement
  <2>5. g[r] = h[r]  BY <1>2, <2>1, <2>4
  <2>6. g[s] = f[Pick(s)] + g[r] /\ h[s] = f[Pick(s)] + h[r]
    BY <2>2 DEF IsSum
  <2> QED  BY <2>5, <2>6
<1>3. Nat \subseteq G
  <2> HIDE DEF G
  <2> QED  BY <1>1, <1>2, Climb
<1> QED  BY <1>0, <1>3

\* A sum, one step: the element CHOOSE takes first.
LEMMA SumOfPick ==
  ASSUME NEW f, NEW S, IsFiniteSet(S)
  PROVE  /\ SumFunctionOnSet(f, {}) = 0
         /\ S # {} => SumFunctionOnSet(f, S)
                        = f[Pick(S)] + SumFunctionOnSet(f, S \ {Pick(S)})
<1>1. PICK e : IsSum(e, f, {}) /\ SumFunctionOnSet(f, {}) = e[{}]
  BY SumExists, Unfold, FS_EmptySet
<1>2. e[{}] = 0  BY <1>1 DEF IsSum
<1>3. ASSUME S # {}
      PROVE  SumFunctionOnSet(f, S)
               = f[Pick(S)] + SumFunctionOnSet(f, S \ {Pick(S)})
  <2> DEFINE r == S \ {Pick(S)}
  <2>1. PICK g : IsSum(g, f, S) /\ SumFunctionOnSet(f, S) = g[S]
    BY SumExists, Unfold
  <2>2. IsFiniteSet(r)  BY FS_RemoveElement
  <2>3. PICK h : IsSum(h, f, r) /\ SumFunctionOnSet(f, r) = h[r]
    <3> HIDE DEF r
    <3> QED  BY <2>2, SumExists, Unfold
  <2>4. g[r] = h[r]
    <3>1. r \subseteq S  OBVIOUS
    <3> HIDE DEF r
    <3> QED  BY <2>1, <2>3, <3>1, SumsAgree
  <2>5. g[S] = f[Pick(S)] + g[r]  BY <1>3, <2>1 DEF IsSum
  <2> QED  BY <2>1, <2>3, <2>4, <2>5
<1> QED  BY <1>1, <1>2, <1>3

\* A finite sum of integers is an integer.
LEMMA SumInteger ==
  ASSUME NEW f, NEW S, IsFiniteSet(S), \A x \in S : f[x] \in Int
  PROVE  SumFunctionOnSet(f, S) \in Int
<1> DEFINE G == {n \in Nat : \A s \in SUBSET S :
                   Cardinality(s) = n => SumFunctionOnSet(f, s) \in Int}
<1>0. \A s \in SUBSET S : IsFiniteSet(s) /\ Cardinality(s) \in Nat
  BY FS_Subset, FS_CardinalityType
<1>1. 0 \in G
  <2>1. \A s \in SUBSET S : Cardinality(s) = 0 => s = {}  BY <1>0, FS_EmptySet
  <2>2. SumFunctionOnSet(f, {}) = 0  BY SumOfPick
  <2> QED  BY <2>1, <2>2
<1>2. ASSUME NEW n \in Nat, n \in G  PROVE n + 1 \in G
  <2>1. SUFFICES ASSUME NEW s \in SUBSET S, Cardinality(s) = n + 1
                 PROVE SumFunctionOnSet(f, s) \in Int
    OBVIOUS
  <2> DEFINE r == s \ {Pick(s)}
  <2>2. s # {}  BY <2>1, FS_EmptySet
  <2>3. Pick(s) \in s  BY <2>2 DEF Pick
  <2>4. Cardinality(r) = Cardinality(s) - 1  BY <1>0, <2>3, FS_RemoveElement
  <2>5. SumFunctionOnSet(f, r) \in Int  BY <1>2, <2>1, <2>4
  <2>6. SumFunctionOnSet(f, s) = f[Pick(s)] + SumFunctionOnSet(f, r)
    BY <1>0, <2>2, SumOfPick
  <2> QED  BY <2>3, <2>5, <2>6
<1>3. Nat \subseteq G
  <2> HIDE DEF G
  <2> QED  BY <1>1, <1>2, Climb
<1> QED  BY <1>0, <1>3

\* The order in which a sum takes its elements does not matter.
LEMMA SumOfAny ==
  ASSUME NEW f, NEW S, IsFiniteSet(S), \A x \in S : f[x] \in Int,
         NEW y \in S
  PROVE  SumFunctionOnSet(f, S) = f[y] + SumFunctionOnSet(f, S \ {y})
<1> DEFINE Sum(s) == SumFunctionOnSet(f, s)
           G == {n \in Nat : \A s \in SUBSET S : Cardinality(s) = n =>
                   \A x \in s : Sum(s) = f[x] + Sum(s \ {x})}
<1>0. \A s \in SUBSET S : /\ IsFiniteSet(s) /\ Cardinality(s) \in Nat
                          /\ Sum(s) \in Int
  BY FS_Subset, FS_CardinalityType, SumInteger
<1>1. 0 \in G  BY <1>0, FS_EmptySet
<1>2. ASSUME NEW n \in Nat, n \in G  PROVE n + 1 \in G
  <2>1. SUFFICES ASSUME NEW s \in SUBSET S, Cardinality(s) = n + 1, NEW x \in s
                 PROVE Sum(s) = f[x] + Sum(s \ {x})
    OBVIOUS
  <2> DEFINE p == Pick(s)
  <2>2. p \in s  BY DEF Pick
  <2>3. Sum(s) = f[p] + Sum(s \ {p})  BY <1>0, SumOfPick
  <2> HIDE DEF p
  <2>4. CASE x = p  BY <2>3, <2>4
  <2>5. CASE x # p
    <3> DEFINE r == s \ {p}
               q == s \ {x}
               t == s \ {p, x}
    <3>1. Cardinality(r) = n /\ Cardinality(q) = n
      <4>1. Cardinality(r) = Cardinality(s) - 1 /\ Cardinality(q) = Cardinality(s) - 1
        BY <1>0, <2>2, FS_RemoveElement
      <4> QED  BY <2>1, <4>1
    <3>2. x \in r /\ p \in q /\ r \ {x} = t /\ q \ {p} = t  BY <2>2, <2>5
    <3>3. Sum(r) = f[x] + Sum(r \ {x}) /\ Sum(q) = f[p] + Sum(q \ {p})
      BY <1>2, <3>1, <3>2
    <3>4. Sum(t) \in Int /\ f[x] \in Int /\ f[p] \in Int  BY <1>0, <2>2
    <3> HIDE DEF Sum, r, q, t
    <3>5. Sum(r) = f[x] + Sum(t) /\ Sum(q) = f[p] + Sum(t)
      BY <3>2, <3>3
    <3>6. Sum(s) = f[p] + Sum(r)  BY <2>3 DEF r
    <3>7. Sum(s) = f[x] + Sum(q)  BY <3>4, <3>5, <3>6
    <3> QED  BY <3>7 DEF q
  <2> QED  BY <2>4, <2>5
<1>3. Nat \subseteq G
  <2> HIDE DEF G
  <2> QED  BY <1>1, <1>2, Climb
<1> QED  BY <1>0, <1>3

\* A sum with one element more.
LEMMA SumAdd ==
  ASSUME NEW f, NEW T, IsFiniteSet(T), NEW x, x \notin T,
         \A y \in T \cup {x} : f[y] \in Int
  PROVE  SumFunctionOnSet(f, T \cup {x}) = f[x] + SumFunctionOnSet(f, T)
<1>1. IsFiniteSet(T \cup {x})  BY FS_AddElement
<1>2. (T \cup {x}) \ {x} = T  OBVIOUS
<1> QED  BY <1>1, <1>2, SumOfAny

\* What each of two functions adds up to is what their sum adds up to.
LEMMA SumOfTwo ==
  ASSUME NEW S, IsFiniteSet(S), NEW f, NEW g, NEW h,
         \A x \in S : f[x] \in Int /\ g[x] \in Int /\ h[x] = f[x] + g[x]
  PROVE  SumFunctionOnSet(h, S) = SumFunctionOnSet(f, S) + SumFunctionOnSet(g, S)
<1> DEFINE F == {T \in SUBSET S : SumFunctionOnSet(h, T) =
                   SumFunctionOnSet(f, T) + SumFunctionOnSet(g, T)}
<1>1. {} \in F
  <2>1. \A e : SumFunctionOnSet(e, {}) = 0  BY SumOfPick, FS_EmptySet
  <2> QED  BY <2>1
<1>2. ASSUME NEW T \in F, NEW x \in S, x \notin T
      PROVE  T \cup {x} \in F
  <2>1. IsFiniteSet(T)  BY FS_Subset
  <2>2. /\ SumFunctionOnSet(f, T) \in Int /\ SumFunctionOnSet(g, T) \in Int
    BY <2>1, SumInteger
  <2>3. \A y \in T \cup {x} : f[y] \in Int /\ g[y] \in Int /\ h[y] \in Int
    OBVIOUS
  <2>4. /\ SumFunctionOnSet(f, T \cup {x}) = f[x] + SumFunctionOnSet(f, T)
        /\ SumFunctionOnSet(g, T \cup {x}) = g[x] + SumFunctionOnSet(g, T)
        /\ SumFunctionOnSet(h, T \cup {x}) = h[x] + SumFunctionOnSet(h, T)
    BY <1>2, <2>1, <2>3, SumAdd
  <2>5. h[x] = f[x] + g[x] /\ f[x] \in Int /\ g[x] \in Int  OBVIOUS
  <2>6. SumFunctionOnSet(h, T)
          = SumFunctionOnSet(f, T) + SumFunctionOnSet(g, T)
    OBVIOUS
  <2>7. SumFunctionOnSet(h, T \cup {x}) =
          SumFunctionOnSet(f, T \cup {x}) + SumFunctionOnSet(g, T \cup {x})
    BY <2>2, <2>4, <2>5, <2>6
  <2> QED  BY <2>7
<1>3. S \in F
  <2> HIDE DEF F
  <2> QED  BY <1>1, <1>2, FiniteInduction
<1> QED  BY <1>3

\* A factor moves out of a sum.
LEMMA SumScaled ==
  ASSUME NEW S, IsFiniteSet(S), NEW f, NEW h, NEW c \in Int,
         \A x \in S : f[x] \in Int /\ h[x] = c * f[x]
  PROVE  SumFunctionOnSet(h, S) = c * SumFunctionOnSet(f, S)
<1> DEFINE F == {T \in SUBSET S : SumFunctionOnSet(h, T) =
                   c * SumFunctionOnSet(f, T)}
<1>1. {} \in F
  <2>1. \A e : SumFunctionOnSet(e, {}) = 0  BY SumOfPick, FS_EmptySet
  <2> QED  BY <2>1
<1>2. ASSUME NEW T \in F, NEW x \in S, x \notin T
      PROVE  T \cup {x} \in F
  <2>1. IsFiniteSet(T)  BY FS_Subset
  <2>2. SumFunctionOnSet(f, T) \in Int  BY <2>1, SumInteger
  <2>3. \A y \in T \cup {x} : f[y] \in Int /\ h[y] \in Int
    OBVIOUS
  <2>4. /\ SumFunctionOnSet(f, T \cup {x}) = f[x] + SumFunctionOnSet(f, T)
        /\ SumFunctionOnSet(h, T \cup {x}) = h[x] + SumFunctionOnSet(h, T)
    BY <1>2, <2>1, <2>3, SumAdd
  <2>5. h[x] = c * f[x] /\ f[x] \in Int  OBVIOUS
  <2>6. SumFunctionOnSet(h, T) = c * SumFunctionOnSet(f, T)  OBVIOUS
  <2>7. c * (f[x] + SumFunctionOnSet(f, T))
          = c * f[x] + c * SumFunctionOnSet(f, T)
    BY <2>2, <2>5
  <2>8. SumFunctionOnSet(h, T \cup {x}) = c * SumFunctionOnSet(f, T \cup {x})
    BY <2>4, <2>5, <2>6, <2>7
  <2> QED  BY <2>8
<1>3. S \in F
  <2> HIDE DEF F
  <2> QED  BY <1>1, <1>2, FiniteInduction
<1> QED  BY <1>3

\* A sum follows its terms, and terms told by another index give the same sum.
LEMMA SumAtMost ==
  ASSUME NEW S, IsFiniteSet(S), NEW f, NEW g,
         \A x \in S : f[x] \in Int /\ g[x] \in Int /\ f[x] <= g[x]
  PROVE  SumFunctionOnSet(f, S) <= SumFunctionOnSet(g, S)
<1> DEFINE F == {T \in SUBSET S :
                   SumFunctionOnSet(f, T) <= SumFunctionOnSet(g, T)}
<1>1. {} \in F
  <2>1. \A e : SumFunctionOnSet(e, {}) = 0  BY SumOfPick, FS_EmptySet
  <2> QED  BY <2>1
<1>2. ASSUME NEW T \in F, NEW x \in S, x \notin T
      PROVE  T \cup {x} \in F
  <2>1. IsFiniteSet(T)  BY FS_Subset
  <2>2. /\ SumFunctionOnSet(f, T) \in Int /\ SumFunctionOnSet(g, T) \in Int
    BY <2>1, SumInteger
  <2>3. /\ SumFunctionOnSet(f, T \cup {x}) = f[x] + SumFunctionOnSet(f, T)
        /\ SumFunctionOnSet(g, T \cup {x}) = g[x] + SumFunctionOnSet(g, T)
    BY <1>2, <2>1, SumAdd
  <2>4. f[x] \in Int /\ g[x] \in Int /\ f[x] <= g[x]  OBVIOUS
  <2>5. SumFunctionOnSet(f, T \cup {x}) <= SumFunctionOnSet(g, T \cup {x})
    BY <2>2, <2>3, <2>4
  <2> QED  BY <2>5
<1>3. S \in F
  <2> HIDE DEF F
  <2> QED  BY <1>1, <1>2, FiniteInduction
<1> QED  BY <1>3

\* A sum over another index set, one to one.
LEMMA SumReindexed ==
  ASSUME NEW S, IsFiniteSet(S), NEW f, NEW g, NEW to,
         \A x \in S : f[x] \in Int /\ f[x] = g[to[x]],
         \A x \in S : \A y \in S : to[x] = to[y] => x = y
  PROVE  SumFunctionOnSet(f, S) = SumFunctionOnSet(g, {to[x] : x \in S})
<1> DEFINE Image(T) == {to[x] : x \in T}
           F == {T \in SUBSET S : /\ IsFiniteSet(Image(T))
                                  /\ SumFunctionOnSet(f, T)
                                       = SumFunctionOnSet(g, Image(T))}
<1>1. {} \in F
  <2>1. \A e : SumFunctionOnSet(e, {}) = 0  BY SumOfPick, FS_EmptySet
  <2>2. Image({}) = {}  OBVIOUS
  <2> QED  BY <2>1, <2>2, FS_EmptySet
<1>2. ASSUME NEW T \in F, NEW x \in S, x \notin T
      PROVE  T \cup {x} \in F
  <2>1. IsFiniteSet(T) /\ IsFiniteSet(Image(T))  BY FS_Subset
  <2>2. Image(T \cup {x}) = Image(T) \cup {to[x]}  OBVIOUS
  <2>3. to[x] \notin Image(T)  BY <1>2
  <2>4. \A y \in Image(T) \cup {to[x]} : g[y] \in Int  OBVIOUS
  <2>5. \A y \in T \cup {x} : f[y] \in Int  OBVIOUS
  <2>6. SumFunctionOnSet(f, T) = SumFunctionOnSet(g, Image(T))
        /\ f[x] = g[to[x]]
    OBVIOUS
  <2> HIDE DEF Image
  <2>7. SumFunctionOnSet(f, T \cup {x}) = f[x] + SumFunctionOnSet(f, T)
    BY <1>2, <2>1, <2>5, SumAdd
  <2>8. SumFunctionOnSet(g, Image(T) \cup {to[x]})
          = g[to[x]] + SumFunctionOnSet(g, Image(T))
    BY <2>1, <2>3, <2>4, SumAdd
  <2>9. IsFiniteSet(Image(T) \cup {to[x]})  BY <2>1, FS_AddElement
  <2> QED  BY <2>2, <2>6, <2>7, <2>8, <2>9
<1>3. S \in F
  <2> HIDE DEF F
  <2> QED  BY <1>1, <1>2, FiniteInduction
<1> QED  BY <1>3

\* Counting is summing ones.
LEMMA SumOfOnes ==
  ASSUME NEW S, IsFiniteSet(S), NEW P, NEW f,
         \A x \in S : f[x] = IF x \in P THEN 1 ELSE 0
  PROVE  SumFunctionOnSet(f, S) = Cardinality(S \cap P)
<1> DEFINE F == {T \in SUBSET S :
                   SumFunctionOnSet(f, T) = Cardinality(T \cap P)}
<1>1. {} \in F
  <2>1. {} \cap P = {}  OBVIOUS
  <2> QED  BY <2>1, SumOfPick, FS_EmptySet
<1>2. ASSUME NEW T \in F, NEW x \in S, x \notin T
      PROVE  T \cup {x} \in F
  <2>1. IsFiniteSet(T) /\ IsFiniteSet(T \cap P)  BY FS_Subset, FS_Intersection
  <2>2. Cardinality(T \cap P) \in Nat  BY <2>1, FS_CardinalityType
  <2>3. SumFunctionOnSet(f, T \cup {x}) = f[x] + SumFunctionOnSet(f, T)
    <3>1. \A y \in T \cup {x} : f[y] \in Int  OBVIOUS
    <3> QED  BY <1>2, <2>1, <3>1, SumAdd
  <2>4. SumFunctionOnSet(f, T) = Cardinality(T \cap P)  OBVIOUS
  <2>5. Cardinality((T \cup {x}) \cap P)
          = (IF x \in P THEN 1 ELSE 0) + Cardinality(T \cap P)
    <3> DEFINE A == T \cap P
               B == (T \cup {x}) \cap P
    <3>0. IsFiniteSet(A) /\ Cardinality(A) \in Nat  BY <2>1, <2>2
    <3>1. CASE x \in P
      <4>1. B = A \cup {x} /\ x \notin A  BY <1>2, <3>1
      <4> HIDE DEF A, B
      <4>2. Cardinality(B) = Cardinality(A) + 1
        BY <3>0, <4>1, FS_AddElement
      <4>3. Cardinality(B) = 1 + Cardinality(A)  BY <3>0, <4>2
      <4> QED  BY <3>1, <4>3 DEF A, B
    <3>2. CASE x \notin P
      <4>1. B = A  BY <3>2
      <4> HIDE DEF A, B
      <4>2. Cardinality(B) = 0 + Cardinality(A)  BY <3>0, <4>1
      <4> QED  BY <3>2, <4>2 DEF A, B
    <3> QED  BY <3>1, <3>2
  <2>6. f[x] = IF x \in P THEN 1 ELSE 0  OBVIOUS
  <2>7. SumFunctionOnSet(f, T \cup {x}) = Cardinality((T \cup {x}) \cap P)
    BY <2>3, <2>4, <2>5, <2>6
  <2> QED  BY <2>7
<1>3. S \in F
  <2> HIDE DEF F
  <2> QED  BY <1>1, <1>2, FiniteInduction
<1> QED  BY <1>3

\* Sums over a stretch of legs, taken leg by leg.
LEMMA SumLast ==
  ASSUME NEW a \in Int, NEW b \in Int, a <= b, NEW f,
         \A i \in a .. b : f[i] \in Int
  PROVE  SumFunctionOnSet(f, a .. b)
           = f[b] + SumFunctionOnSet(f, a .. b - 1)
<1>1. IsFiniteSet(a .. b) /\ b \in a .. b  BY FS_Interval
<1>2. (a .. b) \ {b} = a .. b - 1  OBVIOUS
<1> QED  BY <1>1, <1>2, SumOfAny

\* The empty sum.
LEMMA SumOfNone ==
  ASSUME NEW f, NEW S, S = {}
  PROVE  SumFunctionOnSet(f, S) = 0
BY SumOfPick, FS_EmptySet

\* Functions that agree on a set have the same sum over it.
LEMMA SumSame ==
  ASSUME NEW S, IsFiniteSet(S), NEW f, NEW g,
         \A x \in S : f[x] \in Int /\ g[x] = f[x]
  PROVE  SumFunctionOnSet(g, S) = SumFunctionOnSet(f, S)
<1>1. \A x \in S : g[x] \in Int  OBVIOUS
<1>2. SumFunctionOnSet(f, S) \in Int /\ SumFunctionOnSet(g, S) \in Int
  BY <1>1, SumInteger
<1>3. \A x \in S : f[x] <= g[x] /\ g[x] <= f[x]  OBVIOUS
<1>4. SumFunctionOnSet(f, S) <= SumFunctionOnSet(g, S)
  BY <1>1, <1>3, SumAtMost
<1>5. SumFunctionOnSet(g, S) <= SumFunctionOnSet(f, S)
  BY <1>1, <1>3, SumAtMost
<1> QED  BY <1>2, <1>4, <1>5
(***************************************************************************)
(* Largest remainders (_distribute_slack()): what is handed out and to whom.*)
(***************************************************************************)

\* Whole parts of a positive number of shares.
LEMMA Division ==
  ASSUME NEW x \in Int, NEW d \in Int, d > 0
  PROVE  /\ x \div d \in Int /\ x % d \in 0 .. d - 1
         /\ x = d * (x \div d) + (x % d)
BY Z3

\* A positive factor cancels.
LEMMA Cancel ==
  ASSUME NEW d \in Int, d > 0, NEW x \in Int, NEW y \in Int, d * x <= d * y
  PROVE  x <= y
<1> SUFFICES ASSUME x > y  PROVE FALSE  OBVIOUS
<1>1. x >= y + 1  OBVIOUS
<1>2. d * x >= d * (y + 1)
  <2>1. PICK e \in Nat : x = y + 1 + e
    <3>1. x - y - 1 \in Nat  BY <1>1
    <3> QED  BY <3>1
  <2>2. d * x = d * (y + 1) + d * e  BY <2>1
  <2>3. d * e >= 0  BY <2>1
  <2>4. d * (y + 1) \in Int /\ d * e \in Int  BY <2>1
  <2> QED  BY <2>2, <2>3, <2>4
<1>3. d * (y + 1) = d * y + d  OBVIOUS
<1> QED  BY <1>2, <1>3

\* Whoever has fewer than a number of others before them: that many.
LEMMA RanksCount ==
  ASSUME NEW S, IsFiniteSet(S), NEW before,
         before \in [S -> SUBSET S],
         \A x \in S : x \notin before[x],
         \A x, y \in S : x \in before[y] => before[x] \subseteq before[y],
         \A x, y \in S : x # y => x \in before[y] \/ y \in before[x],
         NEW k \in Nat, k <= Cardinality(S)
  PROVE  Cardinality({x \in S : Cardinality(before[x]) < k}) = k
<1> DEFINE n == Cardinality(S)
           rank == [x \in S |-> Cardinality(before[x])]
           First == {x \in S : Cardinality(before[x]) < k}
<1>0. n \in Nat  BY FS_CardinalityType
<1>1. \A x \in S : IsFiniteSet(before[x]) /\ rank[x] \in Nat
  BY FS_Subset, FS_CardinalityType
<1>2. \A x \in S : rank[x] < n
  <2> TAKE x \in S
  <2>1. before[x] \subseteq S /\ before[x] # S  OBVIOUS
  <2>2. Cardinality(before[x]) <= n /\ Cardinality(before[x]) # n
    BY <2>1, FS_Subset
  <2> QED  BY <1>0, <1>1, <2>2
<1>3. \A x, y \in S : x \in before[y] => rank[x] < rank[y]
  <2> SUFFICES ASSUME NEW x \in S, NEW y \in S, x \in before[y]
               PROVE  rank[x] < rank[y]
    OBVIOUS
  <2>1. before[x] \subseteq before[y] /\ before[x] # before[y]  OBVIOUS
  <2>2. /\ Cardinality(before[x]) <= Cardinality(before[y])
        /\ Cardinality(before[x]) # Cardinality(before[y])
    BY <1>1, <2>1, FS_Subset
  <2> QED  BY <1>1, <2>2
<1>4. \A x, y \in S : rank[x] = rank[y] => x = y
  BY <1>1, <1>3
<1>5. rank \in [S -> 0 .. n - 1]
  <2>1. \A x \in S : rank[x] \in 0 .. n - 1  BY <1>0, <1>1, <1>2
  <2>2. rank \in [S -> Nat]  BY <1>1
  <2> HIDE DEF rank, n
  <2> QED  BY <2>1, <2>2
<1>6. rank \in Injection(S, 0 .. n - 1)
  <2> HIDE DEF rank, n
  <2> QED  BY <1>4, <1>5 DEF Injection, IsInjective
<1>7. IsFiniteSet(0 .. n - 1) /\ Cardinality(0 .. n - 1) = n
  <2> HIDE DEF n
  <2>1. Cardinality(0 .. n - 1) = IF 0 > n - 1 THEN 0 ELSE n - 1 - 0 + 1
    BY <1>0, FS_Interval
  <2> QED  BY <1>0, <2>1, FS_Interval
<1>8. rank \in Surjection(S, 0 .. n - 1)
  <2> HIDE DEF rank
  <2> QED  BY <1>6, <1>7, FS_Injection
<1>9. \A r \in 0 .. n - 1 : \E x \in S : rank[x] = r
  <2> HIDE DEF rank, n
  <2> QED  BY <1>8 DEF Surjection
<1> DEFINE place == [x \in First |-> Cardinality(before[x])]
<1>10. place \in [First -> 0 .. k - 1]
  BY <1>1
<1>11. \A x, y \in First : place[x] = place[y] => x = y
  BY <1>4
<1>12. \A r \in 0 .. k - 1 : \E x \in First : place[x] = r
  <2> TAKE r \in 0 .. k - 1
  <2>1. r \in 0 .. n - 1  BY <1>0
  <2>2. PICK x \in S : rank[x] = r  BY <1>9, <2>1
  <2>3. x \in First /\ place[x] = r  BY <2>2
  <2> QED  BY <2>3
<1>13. place \in Bijection(First, 0 .. k - 1)
  <2> HIDE DEF place, First
  <2> QED  BY <1>10, <1>11, <1>12
           DEF Bijection, Injection, Surjection, IsInjective
<1>14. IsFiniteSet(First)  BY FS_Subset
<1>15. Cardinality(0 .. k - 1) = Cardinality(First)
  <2> HIDE DEF place, First
  <2> QED  BY <1>13, <1>14, FS_Bijection DEF ExistsBijection
<1>16. Cardinality(0 .. k - 1) = k  BY FS_Interval
<1> QED  BY <1>15, <1>16

Weight(legs, interval, i) ==
  IF SumFunctionOnSet(legs, interval) > 0 THEN legs[i] ELSE 1
Parts(legs, interval) ==
  IF SumFunctionOnSet(legs, interval) > 0
  THEN SumFunctionOnSet(legs, interval) ELSE Cardinality(interval)

\* _distribute_slack() gives the legs of the interval exactly the slack there
\* is, no leg a whole unit less or more than its share of the routed time, or
\* an equal share where no time was routed, and the other legs nothing.
THEOREM SlackIsSpread ==
  ASSUME NEW m \in Nat, NEW legs \in [1 .. m -> Nat], NEW total \in Nat,
         NEW interval, interval \subseteq 1 .. m, interval # {}
  PROVE  LET slack == DistributeSlack(total, legs, interval)
             parts == Parts(legs, interval)
         IN  /\ slack \in [1 .. m -> Nat]
             /\ \A i \in (1 .. m) \ interval : slack[i] = 0
             /\ SumFunctionOnSet(slack, interval) = total
             /\ \A i \in interval :
                  /\ slack[i] * parts - total * Weight(legs, interval, i) < parts
                  /\ total * Weight(legs, interval, i) - slack[i] * parts < parts
<1> DEFINE whole == SumFunctionOnSet(legs, interval)
           weight == [i \in interval |-> IF whole > 0 THEN legs[i] ELSE 1]
           parts == IF whole > 0 THEN whole ELSE Cardinality(interval)
           share == [i \in interval |-> (total * weight[i]) \div parts]
           lost == [i \in interval |-> (total * weight[i]) % parts]
           left == total - SumFunction(share)
           before(i) == {j \in interval : \/ lost[j] > lost[i]
                                          \/ lost[j] = lost[i] /\ j < i}
           extra == [i \in interval |->
                       IF Cardinality(before(i)) < left THEN 1 ELSE 0]
           slack == [i \in DOMAIN legs |->
                       IF i \notin interval THEN 0
                       ELSE share[i] + (IF Cardinality(before(i)) < left
                                        THEN 1 ELSE 0)]
<1>1. /\ slack = DistributeSlack(total, legs, interval)
      /\ parts = Parts(legs, interval)
      /\ \A i \in interval : weight[i] = Weight(legs, interval, i)
  BY DEF DistributeSlack, Parts, Weight
<1>2. IsFiniteSet(interval) /\ Cardinality(interval) \in Nat
      /\ Cardinality(interval) > 0
  <2>1. IsFiniteSet(1 .. m)  BY FS_Interval
  <2>2. IsFiniteSet(interval)  BY <2>1, FS_Subset
  <2>3. Cardinality(interval) \in Nat /\ Cardinality(interval) # 0
    BY <2>2, FS_CardinalityType, FS_EmptySet
  <2> QED  BY <2>2, <2>3
<1>3. whole \in Int /\ \A i \in interval : legs[i] \in Nat
  <2>1. \A i \in interval : legs[i] \in Nat  OBVIOUS
  <2>2. \A i \in interval : legs[i] \in Int  BY <2>1
  <2> QED  BY <1>2, <2>1, <2>2, SumInteger
<1>4. parts \in Nat /\ parts > 0 /\ \A i \in interval : weight[i] \in Nat
  BY <1>2, <1>3
<1>5. SumFunctionOnSet(weight, interval) = parts
  <2>1. CASE whole > 0
    <3>1. \A i \in interval : legs[i] \in Int /\ weight[i] = legs[i]
      BY <1>3, <2>1
    <3>2. SumFunctionOnSet(weight, interval) = whole
      <4> HIDE DEF weight
      <4> QED  BY <1>2, <3>1, SumSame
    <3> QED  BY <1>3, <2>1, <3>2
  <2>2. CASE ~(whole > 0)
    <3>1. \A i \in interval : weight[i] = IF i \in interval THEN 1 ELSE 0
      BY <2>2
    <3>2. SumFunctionOnSet(weight, interval) = Cardinality(interval \cap interval)
      <4> HIDE DEF weight
      <4> QED  BY <1>2, <3>1, SumOfOnes
    <3>3. interval \cap interval = interval  OBVIOUS
    <3> QED  BY <2>2, <3>2, <3>3
  <2> QED  BY <2>1, <2>2
<1>6. \A i \in interval :
        /\ share[i] \in Nat /\ lost[i] \in 0 .. parts - 1
        /\ total * weight[i] = parts * share[i] + lost[i]
  <2> TAKE i \in interval
  <2> DEFINE x == total * weight[i]
  <2>1. x \in Nat  BY <1>4
  <2>2. share[i] = x \div parts /\ lost[i] = x % parts  OBVIOUS
  <2> HIDE DEF x, share, lost, parts
  <2>3. share[i] \in Int /\ lost[i] \in 0 .. parts - 1
        /\ x = parts * share[i] + lost[i]
    BY <1>4, <2>1, <2>2, Division
  <2>4. share[i] >= 0
    <3> SUFFICES ASSUME share[i] <= -1  PROVE FALSE  BY <2>3
    <3>1. parts * share[i] <= parts * (-1)
      <4>1. PICK e \in Nat : share[i] = (-1) - e
        <5>1. (-1) - share[i] \in Nat  BY <2>3
        <5> QED  BY <2>3, <5>1, SMTT(30)
      <4>2. parts * share[i] = parts * (-1) - parts * e  BY <1>4, <4>1
      <4>3. parts * e \in Nat  BY <1>4
      <4> QED  BY <1>4, <4>2, <4>3
    <3> QED  BY <1>4, <2>1, <2>3, <3>1, SMTT(30)
  <2> QED  BY <2>3, <2>4 DEF x
<1> HIDE DEF weight, parts, share, lost, whole
<1> DEFINE total1 == SumFunctionOnSet(share, interval)
           total2 == SumFunctionOnSet(lost, interval)
           due == [i \in interval |-> total * weight[i]]
           full == [i \in interval |-> parts * share[i]]
<1>7. total1 \in Int /\ total2 \in Int
  <2>1. \A i \in interval : share[i] \in Int /\ lost[i] \in Int
    BY <1>4, <1>6
  <2> QED  BY <1>2, <2>1, SumInteger
<1>8. left = total - total1 /\ left \in Int
  <2>1. DOMAIN share = interval  BY DEF share
  <2> QED  BY <1>7, <2>1 DEF SumFunction
<1>9. total2 = parts * left
  <2>1. SumFunctionOnSet(due, interval) = total * parts
    <3>1. \A i \in interval : weight[i] \in Int /\ due[i] = total * weight[i]
      BY <1>4
    <3> HIDE DEF due
    <3>2. total \in Int  OBVIOUS
    <3>3. SumFunctionOnSet(due, interval)
            = total * SumFunctionOnSet(weight, interval)
      BY <1>2, <3>1, <3>2, SumScaled, ZenonT(60)
    <3> QED  BY <1>5, <3>3
  <2>2. SumFunctionOnSet(full, interval) = parts * total1
    <3>1. \A i \in interval : share[i] \in Int /\ full[i] = parts * share[i]
      BY <1>6
    <3> HIDE DEF full
    <3>2. parts \in Int  BY <1>4
    <3> QED  BY <1>2, <3>1, <3>2, SumScaled, ZenonT(60)
  <2>3. SumFunctionOnSet(due, interval)
          = SumFunctionOnSet(full, interval) + total2
    <3>1. \A i \in interval : /\ full[i] \in Int /\ lost[i] \in Int
                              /\ due[i] = full[i] + lost[i]
      BY <1>4, <1>6
    <3> HIDE DEF due, full
    <3> QED  BY <1>2, <3>1, SumOfTwo
  <2>4. total * parts = parts * total1 + total2  BY <2>1, <2>2, <2>3
  <2>5. parts * left = parts * total - parts * total1
    <3> HIDE DEF total1, left
    <3>1. parts \in Int /\ total \in Int  BY <1>4
    <3> QED  BY <1>7, <1>8, <3>1
  <2>6. parts * total1 \in Int /\ parts * total \in Int
        /\ total * parts = parts * total
    <3> HIDE DEF total1
    <3> QED  BY <1>4, <1>7
  <2> HIDE DEF total1, total2, left
  <2> QED  BY <1>7, <2>4, <2>5, <2>6
<1> DEFINE none == [i \in interval |-> 0]
           caps == [i \in interval |-> IF lost[i] > 0 THEN 1 ELSE 0]
           cap == [i \in interval |-> parts * caps[i]]
           lossy == {i \in interval : lost[i] > 0}
<1>10. total2 >= 0
  <2>1. \A i \in interval : /\ none[i] \in Int /\ lost[i] \in Int
                            /\ none[i] <= lost[i]
    BY <1>4, <1>6
  <2>2. SumFunctionOnSet(none, interval) = 0
    <3>1. \A i \in interval : none[i] = IF i \in {} THEN 1 ELSE 0  OBVIOUS
    <3>2. SumFunctionOnSet(none, interval) = Cardinality(interval \cap {})
      <4> HIDE DEF none
      <4> QED  BY <1>2, <3>1, SumOfOnes
    <3>3. interval \cap {} = {}  OBVIOUS
    <3> QED  BY <3>2, <3>3, FS_EmptySet
  <2>3. SumFunctionOnSet(none, interval) <= total2
    <3> HIDE DEF none
    <3> QED  BY <1>2, <2>1, SumAtMost
  <2> QED  BY <1>7, <2>2, <2>3
<1>11. total2 <= parts * Cardinality(lossy)
  <2>1. \A i \in interval : caps[i] = IF i \in lossy THEN 1 ELSE 0
    OBVIOUS
  <2>2. SumFunctionOnSet(caps, interval) = Cardinality(interval \cap lossy)
    <3> HIDE DEF caps, lossy
    <3> QED  BY <1>2, <2>1, SumOfOnes
  <2>3. interval \cap lossy = lossy  OBVIOUS
  <2>4. SumFunctionOnSet(cap, interval)
          = parts * SumFunctionOnSet(caps, interval)
    <3>1. \A i \in interval : caps[i] \in Int /\ cap[i] = parts * caps[i]
      OBVIOUS
    <3>2. parts \in Int  BY <1>4
    <3> HIDE DEF caps, cap
    <3> QED  BY <1>2, <3>1, <3>2, SumScaled, ZenonT(60)
  <2>5. \A i \in interval : /\ lost[i] \in Int /\ cap[i] \in Int
                            /\ lost[i] <= cap[i]
    <3> TAKE i \in interval
    <3>1. cap[i] = IF lost[i] > 0 THEN parts ELSE 0
      <4>1. parts * 1 = parts /\ parts * 0 = 0  BY <1>4
      <4> QED  BY <4>1
    <3> HIDE DEF cap
    <3> QED  BY <1>4, <1>6, <3>1
  <2>6. total2 <= SumFunctionOnSet(cap, interval)
    <3> HIDE DEF cap
    <3> QED  BY <1>2, <2>5, SumAtMost
  <2> QED  BY <2>2, <2>3, <2>4, <2>6
<1>12. /\ IsFiniteSet(lossy) /\ Cardinality(lossy) \in Nat
       /\ Cardinality(lossy) <= Cardinality(interval)
  BY <1>2, FS_Subset, FS_CardinalityType
<1> HIDE DEF total1, total2, due, full, none, caps, cap, left
<1>13. left >= 0 /\ left <= Cardinality(lossy)
  <2> HIDE DEF lossy
  <2>1. parts * 0 <= parts * left  BY <1>4, <1>9, <1>10
  <2>2. parts * left <= parts * Cardinality(lossy)  BY <1>9, <1>11
  <2> QED  BY <1>4, <1>8, <1>12, <2>1, <2>2, Cancel
<1> DEFINE ahead == [i \in interval |-> before(i)]
           Lucky == {i \in interval : Cardinality(ahead[i]) < left}
<1>14. Cardinality(Lucky) = left
  <2>1. ahead \in [interval -> SUBSET interval]  OBVIOUS
  <2>2. \A i \in interval : i \notin ahead[i]  BY <1>6
  <2>3. \A i, j \in interval : i \in ahead[j] => ahead[i] \subseteq ahead[j]
    <3>1. \A i \in interval : lost[i] \in Int /\ i \in Int  BY <1>4, <1>6
    <3> SUFFICES ASSUME NEW i \in interval, NEW j \in interval, i \in ahead[j],
                        NEW k \in ahead[i]
                 PROVE  k \in ahead[j]
      OBVIOUS
    <3>2. /\ k \in interval /\ (lost[k] > lost[i] \/ (lost[k] = lost[i] /\ k < i))
          /\ (lost[i] > lost[j] \/ (lost[i] = lost[j] /\ i < j))
      OBVIOUS
    <3>3. lost[k] > lost[j] \/ (lost[k] = lost[j] /\ k < j)
      <4>1. /\ lost[i] \in Int /\ lost[j] \in Int /\ lost[k] \in Int
            /\ i \in Int /\ j \in Int /\ k \in Int
        BY <3>1, <3>2
      <4> DEFINE x == lost[i]
                 y == lost[j]
                 z == lost[k]
      <4>2. /\ z > x \/ (z = x /\ k < i)
            /\ x > y \/ (x = y /\ i < j)
        BY <3>2
      <4> HIDE DEF x, y, z
      <4>3. x \in Int /\ y \in Int /\ z \in Int
        BY <4>1, Zenon DEF x, y, z
      <4>4. z > y \/ (z = y /\ k < j)  BY <4>1, <4>2, <4>3
      <4> QED  BY <4>4, Zenon DEF y, z
    <3> QED  BY <3>2, <3>3
  <2>4. \A i, j \in interval : i # j => i \in ahead[j] \/ j \in ahead[i]
    <3>1. \A i \in interval : lost[i] \in Int /\ i \in Int  BY <1>4, <1>6
    <3> QED  BY <3>1
  <2>5. left \in Nat /\ left <= Cardinality(interval)
    <3> HIDE DEF lossy
    <3> QED  BY <1>2, <1>8, <1>12, <1>13
  <2> HIDE DEF ahead
  <2> QED  BY <1>2, <2>1, <2>2, <2>3, <2>4, <2>5, RanksCount
<1>15. \A i \in interval : extra[i] = IF i \in Lucky THEN 1 ELSE 0
  OBVIOUS
<1>16. SumFunctionOnSet(extra, interval) = left
  <2>1. interval \cap Lucky = Lucky  OBVIOUS
  <2> HIDE DEF extra, Lucky
  <2>2. SumFunctionOnSet(extra, interval) = Cardinality(interval \cap Lucky)
    BY <1>2, <1>15, SumOfOnes
  <2> QED  BY <1>14, <2>1, <2>2
<1>17. \A i \in interval : /\ slack[i] = share[i] + extra[i]
                           /\ extra[i] \in {0, 1}
  OBVIOUS
<1>18. SumFunctionOnSet(slack, interval) = total
  <2>1. \A i \in interval : /\ share[i] \in Int /\ extra[i] \in Int
                            /\ slack[i] = share[i] + extra[i]
    BY <1>6, <1>17
  <2> HIDE DEF slack, extra
  <2>2. SumFunctionOnSet(slack, interval)
          = total1 + SumFunctionOnSet(extra, interval)
    BY <1>2, <2>1, SumOfTwo DEF total1
  <2> QED  BY <1>7, <1>8, <1>16, <2>2
<1>19. /\ slack \in [1 .. m -> Nat]
       /\ \A i \in (1 .. m) \ interval : slack[i] = 0
  BY <1>6
<1>20. ASSUME NEW i \in interval, lost[i] = 0  PROVE extra[i] = 0
  <2> SUFFICES ASSUME i \in Lucky  PROVE FALSE  BY <1>15
  <2>1. lossy \subseteq ahead[i]  BY <1>20
  <2>2. ahead[i] \subseteq interval  OBVIOUS
  <2>3. Cardinality(ahead[i]) < left  OBVIOUS
  <2> HIDE DEF lossy, ahead
  <2>4. IsFiniteSet(ahead[i]) /\ Cardinality(ahead[i]) \in Nat
    BY <1>2, <2>2, FS_Subset, FS_CardinalityType
  <2>5. Cardinality(lossy) <= Cardinality(ahead[i])
    BY <2>1, <2>4, FS_Subset
  <2> QED  BY <1>8, <1>12, <1>13, <2>3, <2>4, <2>5
<1>21. ASSUME NEW i \in interval
       PROVE  /\ slack[i] * parts - total * weight[i] < parts
              /\ total * weight[i] - slack[i] * parts < parts
  <2>1. /\ slack[i] = share[i] + extra[i] /\ extra[i] \in {0, 1}
        /\ lost[i] = 0 => extra[i] = 0
    BY <1>17, <1>20
  <2>2. /\ share[i] \in Nat /\ lost[i] \in 0 .. parts - 1
        /\ total * weight[i] = parts * share[i] + lost[i]
    BY <1>6
  <2> HIDE DEF slack, extra
  <2>3. slack[i] * parts = parts * share[i] + extra[i] * parts
    BY <1>4, <2>1, <2>2
  <2>4. parts * share[i] \in Int  BY <1>4, <2>2
  <2> DEFINE given == slack[i] * parts
             owed == total * weight[i]
             base == parts * share[i]
  <2>5. given = base + (IF extra[i] = 1 THEN parts ELSE 0)
    <3>1. CASE extra[i] = 0
      <4>1. extra[i] * parts = 0  BY <1>4, <3>1
      <4> QED  BY <2>3, <2>4, <3>1, <4>1
    <3>2. CASE extra[i] = 1
      <4>1. extra[i] * parts = parts  BY <1>4, <3>2
      <4> QED  BY <2>3, <2>4, <3>2, <4>1
    <3> QED  BY <2>1, <3>1, <3>2
  <2>6. base \in Int /\ owed = base + lost[i]  BY <2>2, <2>4
  <2> HIDE DEF given, owed, base
  <2>7. given - owed < parts /\ owed - given < parts
    <3>1. lost[i] \in 0 .. parts - 1 /\ parts \in Nat  BY <1>4, <2>2
    <3>2. CASE extra[i] = 0  BY <2>5, <2>6, <3>1, <3>2, SMTT(30)
    <3>3. CASE extra[i] = 1
      <4>1. lost[i] > 0  BY <2>1, <3>1, <3>3
      <4> QED  BY <2>5, <2>6, <3>1, <3>3, <4>1, SMTT(30)
    <3> QED  BY <2>1, <3>2, <3>3
  <2> QED  BY <2>7 DEF given, owed
<1> HIDE DEF slack
<1> QED  BY <1>1, <1>18, <1>19, <1>21 DEF Parts, Weight
(***************************************************************************)
(* Walks: the recursion over the stops, once and for all.                  *)
(***************************************************************************)

\* A function on 1..m is a sequence of length m.
LEMMA LenOf ==
  ASSUME NEW m \in Nat, NEW S, NEW s \in [1 .. m -> S]
  PROVE  s \in Seq(S) /\ Len(s) = m /\ DOMAIN s = 1 .. m
<1>1. s \in Seq(S)  BY SeqDef
<1>2. Len(s) \in Nat /\ DOMAIN s = 1 .. Len(s)  BY <1>1, LenProperties
<1>3. DOMAIN s = 1 .. m  OBVIOUS
<1> QED  BY <1>1, <1>2, <1>3

\* What it is to run from the first stop to the last: times that follow each
\* other leg by leg, with a stand at every stop between the ends.
IsWalk(arr, dep, m, start, minutes, dwell) ==
  /\ m \in Nat /\ start \in Int /\ minutes \in [1 .. m -> Int]
  /\ \A i \in 1 .. m + 1 : dwell[i] \in Int
  /\ arr \in [1 .. m + 1 -> Int] /\ dep \in [1 .. m + 1 -> Int]
  /\ arr[1] = start
  /\ \A i \in 1 .. m : arr[i + 1] = dep[i] + minutes[i]
  /\ \A i \in 1 .. m + 1 :
       dep[i] = arr[i] + (IF i \in {1, m + 1} THEN 0 ELSE dwell[i])

Steady(dwell, m, d) == d \in Int /\ \A i \in 1 .. m + 1 : dwell[i] = d

\* Walk(), a recursive function of the stops, is a walk.
LEMMA WalkWalks ==
  ASSUME NEW start \in Int, NEW m \in Nat, NEW minutes \in [1 .. m -> Int],
         NEW dwell, \A i \in 1 .. m + 1 : dwell[i] \in Int
  PROVE  LET at == Walk(start, minutes, dwell)
         IN  IsWalk(at.arr, at.dep, m, start, minutes, dwell)
<1> DEFINE n == m + 1
           Stand(i) == IF i \in {1, n} THEN 0 ELSE dwell[i]
           Step(g) == [i \in 1 .. n |-> IF i = 1 THEN start
                         ELSE g[i - 1] + Stand(i - 1) + minutes[i - 1]]
           G == {k \in Nat : \E g : \A i \in 1 .. n :
                               i <= k => g[i] = Step(g)[i]}
<1>1. 0 \in G  OBVIOUS
<1>2. ASSUME NEW k \in Nat, k \in G  PROVE k + 1 \in G
  <2>1. PICK g : \A i \in 1 .. n : i <= k => g[i] = Step(g)[i]  BY <1>2
  <2> DEFINE h == Step(g)
  <2>2. ASSUME NEW i \in 1 .. n, i <= k + 1  PROVE h[i] = Step(h)[i]
    <3>1. CASE i = 1  BY <3>1
    <3>2. CASE i # 1
      <4>1. i - 1 \in 1 .. n /\ i - 1 <= k  BY <2>2, <3>2
      <4>2. g[i - 1] = h[i - 1]  BY <2>1, <4>1
      <4>3. /\ h[i] = g[i - 1] + Stand(i - 1) + minutes[i - 1]
            /\ Step(h)[i] = h[i - 1] + Stand(i - 1) + minutes[i - 1]
        BY <3>2
      <4> QED  BY <4>2, <4>3
    <3> QED  BY <3>1, <3>2
  <2>3. \E g1 : \A i \in 1 .. n : i <= k + 1 => g1[i] = Step(g1)[i]
    <3> HIDE DEF Step
    <3> QED  BY <2>2
  <2> QED  BY <2>3
<1>3. n \in G
  <2> HIDE DEF G
  <2> QED  BY <1>1, <1>2, Climb
<1>4. PICK g : \A i \in 1 .. n : i <= n => g[i] = Step(g)[i]  BY <1>3
<1> DEFINE h == Step(g)
<1>5. h = Step(h)
  <2>1. \A i \in 1 .. n : g[i] = h[i]  BY <1>4
  <2>2. ASSUME NEW i \in 1 .. n  PROVE h[i] = Step(h)[i]
    <3>1. CASE i = 1  BY <3>1
    <3>2. CASE i # 1
      <4>1. i - 1 \in 1 .. n  BY <3>2
      <4> QED  BY <2>1, <3>2, <4>1
    <3> QED  BY <3>1, <3>2
  <2> QED  BY <2>2
<1> DEFINE arr == CHOOSE a : a = Step(a)
           dep == [i \in 1 .. n |-> arr[i] + Stand(i)]
<1>6. arr = Step(arr)
  <2> HIDE DEF Step, h
  <2> QED  BY <1>5
<1>7. Len(minutes) = m  BY LenOf
<1>8. Walk(start, minutes, dwell) = [arr |-> arr, dep |-> dep]
  BY <1>7 DEF Walk
<1> HIDE DEF arr
<1>9. /\ DOMAIN arr = 1 .. n /\ arr[1] = start
      /\ \A i \in 1 .. m : arr[i + 1] = arr[i] + Stand(i) + minutes[i]
  <2>1. DOMAIN arr = 1 .. n  BY <1>6
  <2>2. \A i \in 1 .. n : arr[i] = IF i = 1 THEN start
                            ELSE arr[i - 1] + Stand(i - 1) + minutes[i - 1]
    BY <1>6
  <2>3. arr[1] = start  BY <2>2
  <2>4. ASSUME NEW i \in 1 .. m
        PROVE  arr[i + 1] = arr[i] + Stand(i) + minutes[i]
    <3>1. i + 1 \in 1 .. n /\ i + 1 # 1 /\ (i + 1) - 1 = i  OBVIOUS
    <3> HIDE DEF Stand
    <3> QED  BY <2>2, <3>1
  <2> QED  BY <2>1, <2>3, <2>4
<1>10. \A i \in 1 .. n : Stand(i) \in Int  OBVIOUS
<1>11. \A i \in 1 .. n : arr[i] \in Int
  <2> DEFINE T == {k \in Nat : k + 1 \in 1 .. n => arr[k + 1] \in Int}
  <2>1. 0 \in T  BY <1>9
  <2>2. ASSUME NEW k \in Nat, k \in T  PROVE k + 1 \in T
    <3>1. SUFFICES ASSUME k + 2 \in 1 .. n  PROVE arr[k + 2] \in Int
      OBVIOUS
    <3>2. k + 1 \in 1 .. m /\ k + 1 \in 1 .. n /\ (k + 1) + 1 = k + 2
      BY <3>1
    <3>3. arr[k + 1] \in Int /\ Stand(k + 1) \in Int /\ minutes[k + 1] \in Int
      BY <1>10, <2>2, <3>2
    <3>4. arr[k + 2] = arr[k + 1] + Stand(k + 1) + minutes[k + 1]
      BY <1>9, <3>2
    <3> HIDE DEF Stand
    <3> QED  BY <3>3, <3>4
  <2>3. Nat \subseteq T
    <3> HIDE DEF T
    <3> QED  BY <2>1, <2>2, Climb
  <2>4. ASSUME NEW i \in 1 .. n  PROVE arr[i] \in Int
    <3>1. i - 1 \in Nat /\ (i - 1) + 1 = i  OBVIOUS
    <3> QED  BY <2>3, <3>1
  <2> QED  BY <2>4
<1>12. arr \in [1 .. n -> Int]
  <2>1. arr = [i \in 1 .. n |-> arr[i]]  BY <1>6
  <2> HIDE DEF n, Step
  <2> QED  BY <1>11, <2>1
<1>13. dep \in [1 .. n -> Int]
  <2> HIDE DEF n, Stand
  <2> QED  BY <1>10, <1>11
<1>15. \A i \in 1 .. m : arr[i + 1] = dep[i] + minutes[i]
  BY <1>9
<1>16. \A i \in 1 .. n : dep[i] = arr[i] + Stand(i)  OBVIOUS
<1> HIDE DEF dep
<1> QED  BY <1>8, <1>9, <1>12, <1>13, <1>15, <1>16 DEF IsWalk

\* A train never goes back in time.
LEMMA WalkGoesOn ==
  ASSUME NEW m, NEW arr, NEW dep, NEW start, NEW minutes, NEW dwell,
         IsWalk(arr, dep, m, start, minutes, dwell),
         \A i \in 1 .. m : minutes[i] \in Nat,
         \A i \in 1 .. m + 1 : dwell[i] \in Nat
  PROVE  /\ \A i \in 1 .. m + 1 : arr[i] <= dep[i]
         /\ \A i, j \in 1 .. m + 1 : i < j => dep[i] <= arr[j]
<1>0. m \in Nat /\ start \in Int  BY DEF IsWalk
<1> USE <1>0
<1> DEFINE n == m + 1
<1>1. \A i \in 1 .. n : /\ arr[i] \in Int /\ dep[i] \in Int
                        /\ arr[i] <= dep[i]
  <2> TAKE i \in 1 .. n
  <2> DEFINE stand == IF i \in {1, n} THEN 0 ELSE dwell[i]
  <2>1. stand \in Nat  OBVIOUS
  <2>2. dep[i] = arr[i] + stand /\ arr[i] \in Int  BY DEF IsWalk
  <2> HIDE DEF stand
  <2> QED  BY <2>1, <2>2
<1>2. \A i \in 1 .. m : dep[i] <= arr[i + 1]
  <2> TAKE i \in 1 .. m
  <2>1. arr[i + 1] = dep[i] + minutes[i]  BY DEF IsWalk
  <2>2. minutes[i] \in Nat /\ dep[i] \in Int  BY <1>1
  <2> QED  BY <2>1, <2>2
<1>3. ASSUME NEW i \in 1 .. n
      PROVE  \A j \in 1 .. n : i < j => dep[i] <= arr[j]
  <2> DEFINE T == {k \in Nat : i + 1 + k \in 1 .. n =>
                                 dep[i] <= arr[i + 1 + k]}
  <2>1. 0 \in T
    <3>1. SUFFICES ASSUME i + 1 \in 1 .. n  PROVE dep[i] <= arr[i + 1]
      OBVIOUS
    <3>2. i \in 1 .. m  BY <3>1
    <3> QED  BY <1>2, <3>2
  <2>2. ASSUME NEW k \in Nat, k \in T  PROVE k + 1 \in T
    <3> DEFINE j == i + 1 + k
    <3>1. SUFFICES ASSUME j + 1 \in 1 .. n  PROVE dep[i] <= arr[j + 1]
      <4>1. i + 1 + (k + 1) = j + 1  OBVIOUS
      <4> QED  BY <4>1
    <3>2. j \in 1 .. m /\ j \in 1 .. n  BY <3>1
    <3>3. dep[i] <= arr[j]  BY <2>2, <3>2
    <3>4. arr[j] <= dep[j] /\ dep[j] <= arr[j + 1]
      BY <1>1, <1>2, <3>2
    <3>5. {dep[i], arr[j], dep[j], arr[j + 1]} \subseteq Int
      BY <1>1, <3>1, <3>2
    <3> HIDE DEF j
    <3> QED  BY <3>3, <3>4, <3>5
  <2>3. Nat \subseteq T
    <3> HIDE DEF T
    <3> QED  BY <2>1, <2>2, Climb
  <2>4. ASSUME NEW j \in 1 .. n, i < j  PROVE dep[i] <= arr[j]
    <3>1. j - i - 1 \in Nat /\ i + 1 + (j - i - 1) = j  BY <2>4
    <3> QED  BY <2>3, <3>1
  <2> QED  BY <2>4
<1> QED  BY <1>1, <1>3

\* From stop a to stop b a train needs the legs between them and a stand at
\* each stop between them.
LEMMA WalkSpans ==
  ASSUME NEW m, NEW arr, NEW dep, NEW start, NEW minutes, NEW dwell, NEW d,
         IsWalk(arr, dep, m, start, minutes, dwell), Steady(dwell, m, d)
  PROVE  \A a, b \in 1 .. m + 1 : a < b =>
           arr[b] - dep[a]
             = SumFunctionOnSet(minutes, a .. b - 1) + (b - a - 1) * d
<1>0. /\ m \in Nat /\ start \in Int /\ minutes \in [1 .. m -> Int]
      /\ d \in Int /\ \A i \in 1 .. m + 1 : dwell[i] = d
  BY DEF IsWalk, Steady
<1> USE <1>0
<1> SUFFICES ASSUME NEW a \in 1 .. m + 1, NEW b \in 1 .. m + 1, a < b
             PROVE  arr[b] - dep[a] = SumFunctionOnSet(minutes, a .. b - 1)
                                        + (b - a - 1) * d
  OBVIOUS
<1> DEFINE n == m + 1
           Sum(j) == SumFunctionOnSet(minutes, a .. j)
           T == {k \in Nat : a + 1 + k \in 1 .. n =>
                   arr[a + 1 + k] = dep[a] + Sum(a + k) + k * d}
<1>1. \A i \in 1 .. n : arr[i] \in Int /\ dep[i] \in Int
  BY DEF IsWalk
<1>2. \A i \in 1 .. m : /\ arr[i + 1] = dep[i] + minutes[i]
                        /\ minutes[i] \in Int
  BY DEF IsWalk
<1>3. \A i \in 1 .. n : a < i /\ i < n => dep[i] = arr[i] + d
  <2> SUFFICES ASSUME NEW i \in 1 .. n, a < i, i < n
               PROVE  dep[i] = arr[i] + d
    OBVIOUS
  <2>1. i \notin {1, m + 1} /\ dwell[i] = d  OBVIOUS
  <2>2. dep[i]
          = arr[i] + (IF i \in {1, m + 1} THEN 0 ELSE dwell[i])
    BY DEF IsWalk
  <2> QED  BY <2>1, <2>2
<1>4. \A j \in a .. m : Sum(j) \in Int /\ Sum(j) = minutes[j] + Sum(j - 1)
  <2> TAKE j \in a .. m
  <2>1. \A i \in a .. j : minutes[i] \in Int  OBVIOUS
  <2>2. IsFiniteSet(a .. j)  BY FS_Interval
  <2>3. Sum(j) \in Int  BY <2>1, <2>2, SumInteger
  <2>4. Sum(j) = minutes[j] + Sum(j - 1)
    <3>1. a <= j /\ j \in Int /\ a \in Int  OBVIOUS
    <3> QED  BY <2>1, <3>1, SumLast
  <2> QED  BY <2>3, <2>4
<1>5. Sum(a - 1) = 0
  <2>1. a .. a - 1 = {}  OBVIOUS
  <2> QED  BY <2>1, SumOfNone
<1> HIDE DEF Sum
<1>6. 0 \in T
  <2>1. SUFFICES ASSUME a + 1 \in 1 .. n
                 PROVE  arr[a + 1] = dep[a] + Sum(a) + 0
    <3>1. a + 1 + 0 = a + 1 /\ a + 0 = a /\ 0 * d = 0  OBVIOUS
    <3> QED  BY <3>1
  <2>2. a \in 1 .. m /\ a \in a .. m  BY <2>1
  <2>3. Sum(a) = minutes[a] + 0  BY <1>4, <1>5, <2>2
  <2> QED  BY <1>1, <1>2, <2>2, <2>3
<1>7. ASSUME NEW k \in Nat, k \in T  PROVE k + 1 \in T
  <2> DEFINE j == a + 1 + k
  <2>1. ASSUME j + 1 \in 1 .. n
        PROVE  arr[j + 1] = dep[a] + Sum(j) + (k + 1) * d
    <3>1. /\ j \in 1 .. m /\ j \in 1 .. n /\ a < j /\ j < n /\ j \in a .. m
          /\ j - 1 = a + k
      BY <2>1
    <3> DEFINE K == k * d
    <3>2. arr[j] = dep[a] + Sum(a + k) + K  BY <1>7, <3>1
    <3>3. /\ arr[j + 1] = dep[j] + minutes[j] /\ dep[j] = arr[j] + d
          /\ Sum(j) = minutes[j] + Sum(j - 1) /\ Sum(j) \in Int
      BY <1>2, <1>3, <1>4, <3>1
    <3>4. /\ arr[j] \in Int /\ dep[a] \in Int /\ minutes[j] \in Int
      BY <1>1, <1>2, <3>1
    <3>5. Sum(j - 1) \in Int
      <4>1. CASE k = 0
        <5>1. j - 1 = a  BY <3>1, <4>1
        <5> QED  BY <1>4, <5>1
      <4>2. CASE k # 0
        <5>1. j - 1 \in a .. m  BY <3>1, <4>2
        <5> QED  BY <1>4, <5>1
      <4> QED  BY <4>1, <4>2
    <3>6. K \in Int /\ (k + 1) * d = K + d  OBVIOUS
    <3>7. Sum(j - 1) = Sum(a + k)  BY <3>1
    <3> HIDE DEF K, j
    <3>8. arr[j + 1] = arr[j] + d + minutes[j]  BY <3>3, <3>4
    <3>9. arr[j] = dep[a] + Sum(j - 1) + K
      BY <3>2, <3>7
    <3>10. arr[j + 1] \in Int /\ Sum(j) = minutes[j] + Sum(j - 1)
      BY <3>3, <3>4, <3>8
    <3>11. arr[j + 1] = dep[a] + Sum(j) + K + d
      BY <3>4, <3>5, <3>6, <3>8, <3>9, <3>10, SMTT(30)
    <3>12. Sum(j) \in Int /\ (k + 1) * d \in Int  BY <3>3
    <3> QED  BY <3>4, <3>6, <3>10, <3>11, <3>12, SMTT(30)
  <2>2. a + 1 + (k + 1) = j + 1 /\ a + (k + 1) = j  OBVIOUS
  <2>3. a + 1 + (k + 1) \in 1 .. n =>
          arr[a + 1 + (k + 1)] = dep[a] + Sum(a + (k + 1)) + (k + 1) * d
    <3> HIDE DEF j
    <3> QED  BY <2>1, <2>2
  <2> QED  BY <2>3
<1>8. Nat \subseteq T
  <2> HIDE DEF T
  <2> QED  BY <1>6, <1>7, Climb
<1>9. b - a - 1 \in Nat /\ a + 1 + (b - a - 1) = b /\ a + (b - a - 1) = b - 1
  OBVIOUS
<1>10. arr[a + 1 + (b - a - 1)]
         = dep[a] + Sum(a + (b - a - 1)) + (b - a - 1) * d
  BY <1>8, <1>9
<1>11. arr[b] = dep[a] + Sum(b - 1) + (b - a - 1) * d
  <2> HIDE DEF T
  <2> QED  BY <1>9, <1>10
<1>12. /\ dep[a] \in Int /\ Sum(b - 1) \in Int
       /\ (b - a - 1) * d \in Int
  <2>1. b - 1 \in a .. m  OBVIOUS
  <2> QED  BY <1>1, <1>4, <2>1
<1> QED  BY <1>11, <1>12 DEF Sum

\* Where the train really stands instead of standing the least dwell, it is
\* later by what the stands before it add, and by nothing else.
LEMMA WalkLater ==
  ASSUME NEW m, NEW arr, NEW dep, NEW arr0, NEW dep0, NEW start, NEW minutes,
         NEW least, NEW d, NEW dwell, NEW later,
         IsWalk(arr0, dep0, m, 0, minutes, least), Steady(least, m, d),
         IsWalk(arr, dep, m, start, minutes, dwell),
         \A j \in 2 .. m : later[j] = dep[j] - arr[j] - d
  PROVE  /\ \A i \in 1 .. m : dep[i] = start + dep0[i]
                                     + SumFunctionOnSet(later, 2 .. i)
         /\ \A i \in 1 .. m : arr[i + 1] = start + arr0[i + 1]
                                     + SumFunctionOnSet(later, 2 .. i)
<1>0. /\ m \in Nat /\ start \in Int /\ minutes \in [1 .. m -> Int]
      /\ d \in Int /\ \A i \in 1 .. m + 1 : least[i] = d
      /\ \A i \in 1 .. m + 1 : dwell[i] \in Int
  BY DEF IsWalk, Steady
<1> USE <1>0
<1> DEFINE n == m + 1
           Sum(j) == SumFunctionOnSet(later, 2 .. j)
           T == {k \in Nat : k + 1 \in 1 .. m =>
                   dep[k + 1] = start + dep0[k + 1] + Sum(k + 1)}
<1>1. \A i \in 1 .. n : /\ arr[i] \in Int /\ dep[i] \in Int
                        /\ arr0[i] \in Int /\ dep0[i] \in Int
  BY DEF IsWalk
<1>2. \A i \in 1 .. m : /\ arr[i + 1] = dep[i] + minutes[i]
                        /\ arr0[i + 1] = dep0[i] + minutes[i]
                        /\ minutes[i] \in Int
  BY DEF IsWalk
<1>3. \A i \in 2 .. m : /\ dep0[i] = arr0[i] + d
                        /\ later[i] = dep[i] - arr[i] - d
                        /\ later[i] \in Int
  <2> TAKE i \in 2 .. m
  <2>1. i \in 1 .. n /\ i \notin {1, n}  OBVIOUS
  <2>2. dep0[i] = arr0[i] + d
    <3>1. least[i] = d  OBVIOUS
    <3>2. dep0[i]
            = arr0[i] + (IF i \in {1, m + 1} THEN 0 ELSE least[i])
      BY <2>1 DEF IsWalk
    <3> QED  BY <2>1, <3>1, <3>2
  <2>3. later[i] = dep[i] - arr[i] - d  OBVIOUS
  <2> QED  BY <1>1, <2>1, <2>2, <2>3
<1>4. \A j \in 2 .. m : Sum(j) \in Int /\ Sum(j - 1) \in Int
                        /\ Sum(j) = later[j] + Sum(j - 1)
  <2> TAKE j \in 2 .. m
  <2>1. \A i \in 2 .. j : later[i] \in Int  BY <1>3
  <2>2. IsFiniteSet(2 .. j) /\ IsFiniteSet(2 .. j - 1)
    BY FS_Interval, SMTT(30)
  <2>3. \A i \in 2 .. j - 1 : later[i] \in Int  BY <2>1
  <2>4. Sum(j) \in Int  BY <2>1, <2>2, SumInteger
  <2>5. Sum(j - 1) \in Int  BY <2>2, <2>3, SumInteger
  <2>6. Sum(j) = later[j] + Sum(j - 1)
    <3>1. 2 <= j /\ j \in Int  OBVIOUS
    <3> QED  BY <2>1, <3>1, SumLast
  <2> QED  BY <2>4, <2>5, <2>6
<1>5. Sum(1) = 0
  <2>1. 2 .. 1 = {}  OBVIOUS
  <2> QED  BY <2>1, SumOfNone
<1> HIDE DEF Sum
<1>6. 0 \in T
  <2>1. 1 \in 1 .. n  OBVIOUS
  <2>2. arr[1] = start /\ arr0[1] = 0  BY DEF IsWalk
  <2>3. dep[1] = arr[1] + 0 /\ dep0[1] = arr0[1] + 0
    BY <2>1 DEF IsWalk
  <2> QED  BY <1>5, <2>2, <2>3
<1>7. ASSUME NEW k \in Nat, k \in T  PROVE k + 1 \in T
  <2> DEFINE j == k + 2
  <2>1. SUFFICES ASSUME j \in 1 .. m
                 PROVE  dep[j] = start + dep0[j] + Sum(j)
    <3>1. (k + 1) + 1 = j  OBVIOUS
    <3> QED  BY <3>1
  <2>2. /\ j \in 2 .. m /\ k + 1 \in 1 .. m /\ (k + 1) + 1 = j /\ j - 1 = k + 1
        /\ j \in 1 .. n /\ k + 1 \in 1 .. n
    BY <2>1
  <2> DEFINE c == k + 1
  <2>3. dep[c] = start + dep0[c] + Sum(c)
    BY <1>7, <2>2
  <2>4. arr[j] = dep[c] + minutes[c] /\ arr0[j] = dep0[c] + minutes[c]
    BY <1>2, <2>2
  <2>5. dep0[c] \in Int /\ minutes[c] \in Int /\ Sum(c) \in Int
    BY <1>1, <1>2, <1>4, <2>2
  <2>6. arr0[j] \in Int /\ later[j] \in Int /\ Sum(j) = later[j] + Sum(c)
    BY <1>1, <1>3, <1>4, <2>2
  <2>7. arr[j] \in Int /\ dep[j] \in Int
    BY <1>1, <2>2
  <2>8. later[j] = dep[j] - arr[j] - d /\ dep0[j] = arr0[j] + d
    BY <1>3, <2>2
  <2> HIDE DEF j, c
  <2>9. arr[j] = start + dep0[c] + Sum(c) + minutes[c]  BY <2>3, <2>4
  <2>10. arr[j] = start + arr0[j] + Sum(c)  BY <2>4, <2>5, <2>9
  <2>11. dep[j] = arr[j] + d + later[j]  BY <2>7, <2>8
  <2>12. dep[j] = start + (arr0[j] + d) + (later[j] + Sum(c))
    BY <2>5, <2>6, <2>10, <2>11
  <2> QED  BY <2>6, <2>8, <2>12
<1>8. Nat \subseteq T
  <2> HIDE DEF T
  <2> QED  BY <1>6, <1>7, Climb
<1>9. \A i \in 1 .. m : dep[i] = start + dep0[i] + Sum(i)
  <2> TAKE i \in 1 .. m
  <2>1. i - 1 \in Nat /\ (i - 1) + 1 = i  OBVIOUS
  <2> QED  BY <1>8, <2>1
<1>10. \A i \in 1 .. m : Sum(i) \in Int
  <2> TAKE i \in 1 .. m
  <2>1. CASE i = 1  BY <1>5, <2>1
  <2>2. CASE i # 1
    <3>1. i \in 2 .. m  BY <2>2
    <3> QED  BY <1>4, <3>1
  <2> QED  BY <2>1, <2>2
<1>11. \A i \in 1 .. m : arr[i + 1] = start + arr0[i + 1] + Sum(i)
  <2> TAKE i \in 1 .. m
  <2>1. i \in 1 .. n /\ i + 1 \in 1 .. n  OBVIOUS
  <2>2. /\ arr[i + 1] = dep[i] + minutes[i]
        /\ arr0[i + 1] = dep0[i] + minutes[i]
        /\ dep[i] = start + dep0[i] + Sum(i)
    BY <1>2, <1>9
  <2>3. /\ dep[i] \in Int /\ dep0[i] \in Int /\ minutes[i] \in Int
        /\ Sum(i) \in Int
    BY <1>1, <1>2, <1>10, <2>1
  <2> QED  BY <2>2, <2>3, SMTT(30)
<1> QED  BY <1>9, <1>11 DEF Sum
(***************************************************************************)
(* The arithmetic of the strategies, the layover and the cycle.            *)
(***************************************************************************)

\* round() stays within half a unit of the exact value.
LEMMA RoundIsNearest ==
  ASSUME NEW twice \in Int
  PROVE  /\ RoundHalf(twice) \in Int
         /\ 2 * RoundHalf(twice) - twice \in -1 .. 1
<1> DEFINE down == twice \div 2
<1>1. /\ down \in Int /\ twice % 2 \in 0 .. 1 /\ down % 2 \in 0 .. 1
      /\ twice = 2 * down + (twice % 2)
  BY Z3
<1>2. RoundHalf(twice) \in {down, down + 1}
      /\ (RoundHalf(twice) = down + 1 => twice % 2 = 1)
  BY DEF RoundHalf
<1> QED  BY <1>1, <1>2

\* A trip placed by simple_automatic_timetable() and its return of the same
\* duration mirror each other around Mirror, to one unit: the departure of
\* the one and the arrival of the other add up to twice the mirror.
THEOREM SimpleIsCentred ==
  ASSUME NEW duration \in Int
  PROVE  /\ SimpleDeparture(duration) \in Int
         /\ SimpleDeparture(duration) + (SimpleDeparture(duration) + duration)
              - 2 * Mirror \in -1 .. 1
<1> DEFINE centre == RoundHalf(2 * Mirror - duration)
<1>1. centre \in Int /\ 2 * centre - (2 * Mirror - duration) \in -1 .. 1
  BY RoundIsNearest, NightAssumption
<1> HIDE DEF centre
<1>2. SimpleDeparture(duration) = centre
  BY DEF SimpleDeparture, centre
<1> QED  BY <1>1, <1>2, NightAssumption

\* The stretch closes what the natural span leaves open, and no more.
THEOREM StretchIsLeast ==
  ASSUME NEW natural \in Int
  PROVE  /\ SlackNeeded(natural) \in Nat
         /\ natural + SlackNeeded(natural) >= RequiredSpan
         /\ \A slack \in Nat : natural + slack >= RequiredSpan
                                 => slack >= SlackNeeded(natural)
BY NightAssumption DEF SlackNeeded, Greatest, RequiredSpan

\* A span as long as RequiredSpan admits a departure before the night with an
\* arrival after it, and simple_automatic_fixed_night_timetable() takes one.
THEOREM WindowAdmitted ==
  ASSUME NEW span \in Int, span >= RequiredSpan
  PROVE  /\ FixedNightDeparture(span) < NightStart
         /\ FixedNightDeparture(span) + span >= NightEnd
<1>1. /\ 2 * Mirror - span \in Int /\ RoundHalf(2 * Mirror - span) \in Int
  BY RoundIsNearest, NightAssumption
<1> QED  BY <1>1, NightAssumption
         DEF FixedNightDeparture, Greatest, Least, RequiredSpan

\* The two clamps never fight over the centre: an interval stays centred on
\* Mirror, to one unit, however much it was stretched.
THEOREM FixedNightIsCentred ==
  ASSUME NEW span \in Int, span >= RequiredSpan
  PROVE  2 * FixedNightDeparture(span) + span - 2 * Mirror \in -1 .. 1
<1> DEFINE centre == RoundHalf(2 * Mirror - span)
<1>1. centre \in Int /\ 2 * centre - (2 * Mirror - span) \in -1 .. 1
  BY RoundIsNearest, NightAssumption
<1> HIDE DEF centre
<1>2. FixedNightDeparture(span)
        = Greatest(Least(centre, NightStart - 1), NightEnd - span)
  BY DEF FixedNightDeparture, centre
<1> QED  BY <1>1, <1>2, NightAssumption
         DEF Greatest, Least, RequiredSpan

Rank(type) == CASE type = "boarding" -> 0
                [] type = "night" -> 1
                [] type = "alighting" -> 2

\* Stop types never go back along a trip: later arrivals and departures are
\* classified as boarding, then night, then alighting (classify_stop_type()).
THEOREM TypesInOrder ==
  ASSUME NEW a1 \in Int, NEW d1 \in Int, NEW a2 \in Int, NEW d2 \in Int,
         a1 <= d1, d1 <= a2, a2 <= d2
  PROVE  Rank(ClassifyStopType(a1, d1)) <= Rank(ClassifyStopType(a2, d2))
BY NightAssumption DEF Rank, ClassifyStopType

\* Division by the day, rounded down, leaves less than a day.
LEMMA DayDivision ==
  ASSUME NEW x \in Int
  PROVE  /\ x \div Day \in Int /\ x % Day \in 0 .. Day - 1
         /\ x = Day * (x \div Day) + (x % Day)
BY DayAssumption, Z3

\* The slot cycle_days_between() lets a rake leave by is the first one that
\* is not before it is ready, as its comment says, provided the rake is
\* ready on the service day or later: then the slot is less than a day away.
\* Without the proviso the day count is clamped at 0 and the slot is too late.
THEOREM SlotIsTheFirst ==
  ASSUME NEW ready \in Int, NEW slot \in 0 .. Day - 1, ready > slot - Day
  PROVE  /\ NextSlot(ready, slot) \in Int
         /\ NextSlot(ready, slot) >= ready
         /\ NextSlot(ready, slot) < ready + Day
         /\ \E k \in Nat : NextSlot(ready, slot) = k * Day + slot
<1> DEFINE x == slot - ready
           q == x \div Day
           p == Day * q
<1>1. x \in Int /\ x < Day  BY DayAssumption
<1>2. q \in Int /\ x % Day \in 0 .. Day - 1 /\ x = p + (x % Day)
  BY <1>1, DayDivision
<1>3. p \in Int /\ p <= x /\ x < p + Day  BY <1>2, DayAssumption
<1>4. q <= 0
  <2> SUFFICES ASSUME q >= 1 PROVE FALSE  BY <1>2
  <2>1. p >= Day
    <3> HIDE DEF q
    <3> QED  BY <1>2, DayAssumption
  <2> QED  BY <2>1, <1>1, <1>3, DayAssumption
<1>5. -q \in Nat /\ NextSlot(ready, slot) = (-q) * Day + slot
  BY <1>2, <1>4 DEF NextSlot, Greatest
<1>6. (-q) * Day = -p
  <2> HIDE DEF q
  <2> QED  BY <1>2, DayAssumption
<1>7. NextSlot(ready, slot) = slot - p
  <2> HIDE DEF q
  <2> QED  BY <1>3, <1>5, <1>6
<1>8. slot \in Int /\ slot - p >= ready /\ slot - p < ready + Day
  BY <1>1, <1>3, DayAssumption
<1> QED  BY <1>3, <1>5, <1>7, <1>8

\* trainsets_for_cycle() rounds up: the rakes cover every departure of the
\* cycles that run at once in a week, and one rake less would not.
THEOREM RakesCoverTheCycle ==
  ASSUME NEW cycle \in Nat, NEW days \in Nat
  PROVE  /\ 7 * TrainsetsForCycle(cycle, days) >= cycle * days
         /\ 7 * (TrainsetsForCycle(cycle, days) - 1) < cycle * days
<1> DEFINE work == cycle * days
<1>1. work \in Int  OBVIOUS
<1>2. TrainsetsForCycle(cycle, days) = -((-work) \div 7)
  BY DEF TrainsetsForCycle
<1> HIDE DEF work
<1>3. 7 * (-((-work) \div 7)) >= work /\ 7 * (-((-work) \div 7) - 1) < work
  BY <1>1
<1> QED  BY <1>2, <1>3 DEF work

\* A layover is never negative and reads the clock: it differs from the gap
\* between arrival and departure by whole days (_layover_hours()).
THEOREM LayoverReadsTheClock ==
  ASSUME NEW departure \in Int, NEW arrival \in Int
  PROVE  /\ Layover(departure, arrival) \in Nat
         /\ \E k \in Int : Layover(departure, arrival)
                             = departure - arrival + k * Day
<1> DEFINE gap == departure - arrival
           q == gap \div Day
<1>1. gap \in Int  OBVIOUS
<1>2. q \in Int /\ gap % Day \in 0 .. Day - 1 /\ gap = Day * q + (gap % Day)
  BY <1>1, DayDivision
<1>3. CASE gap < 0
  <2>1. Layover(departure, arrival) = gap % Day  BY <1>3 DEF Layover
  <2>2. gap % Day = gap + (-q) * Day
    <3> HIDE DEF gap, q
    <3> QED  BY <1>1, <1>2, DayAssumption
  <2> QED  BY <1>2, <2>1, <2>2, DayAssumption
<1>4. CASE ~(gap < 0)
  <2>1. Layover(departure, arrival) = gap + 0 * Day
    BY <1>1, <1>4, DayAssumption DEF Layover
  <2> QED  BY <1>1, <1>4, <2>1, DayAssumption
<1> QED  BY <1>3, <1>4
(***************************************************************************)
(* One direction: what BuildTrip() makes of a posted line.                 *)
(***************************************************************************)

\* A finite sum of naturals is a natural.
LEMMA SumNatural ==
  ASSUME NEW f, NEW S, IsFiniteSet(S), \A x \in S : f[x] \in Nat
  PROVE  SumFunctionOnSet(f, S) \in Nat
<1> DEFINE zero == [x \in S |-> 0]
<1>1. SumFunctionOnSet(f, S) \in Int  BY SumInteger
<1>2. SumFunctionOnSet(zero, S) = 0 * SumFunctionOnSet(f, S)
  BY SumScaled
<1>3. SumFunctionOnSet(zero, S) <= SumFunctionOnSet(f, S)
  BY SumAtMost
<1> QED  BY <1>1, <1>2, <1>3

\* A sum over everything is a sum over the domain.
LEMMA SumIsOnDomain ==
  ASSUME NEW f
  PROVE  SumFunction(f) = SumFunctionOnSet(f, DOMAIN f)
BY DEF SumFunction, SumFunctionOnSet, FoldFunction

\* The line has at least one leg, and a trip over it one stop more than legs.
LegCount == Len(Line) - 1

\* The line as a function, and the number of its legs.
LEMMA LineFacts ==
  /\ LegCount \in Nat /\ LegCount > 0
  /\ Line \in [1 .. LegCount + 1 -> Stop]
  /\ \A i, j \in 1 .. LegCount + 1 : Line[i] = Line[j] => i = j
<1>1. /\ Len(Line) \in Nat /\ Len(Line) >= 2
      /\ Line \in [1 .. Len(Line) -> Stop] /\ DOMAIN Line = 1 .. Len(Line)
  BY LineAssumption, LenProperties
<1>2. LegCount \in Nat /\ LegCount > 0 /\ LegCount + 1 = Len(Line)
  BY <1>1 DEF LegCount
<1> HIDE DEF LegCount
<1> QED  BY <1>1, <1>2, LineAssumption

\* What a direction is built from.
Posed(stops, legs, interval, overrides) ==
  /\ stops \in [1 .. LegCount + 1 -> Stop]
  /\ \A i, j \in 1 .. LegCount + 1 : stops[i] = stops[j] => i = j
  /\ legs \in [1 .. LegCount -> Nat]
  /\ \/ interval = NoInterval
     \/ \E a, b \in 1 .. LegCount + 1 :
          a < b /\ interval = <<stops[a], stops[b]>>
  /\ overrides.departure \in Departure
  /\ IsFiniteSet(overrides.addons) /\ overrides.addons \subseteq Addon

\* The plan of a trip, and where it is placed when nobody moves it.
Minutes(trip) == Plus(trip.legs, Plus(trip.slack, trip.addon))
Plan(trip) == ProvisionalOffsets(trip.legs, Plus(trip.slack, trip.addon))
Automatic(trip) == AutomaticDeparture(trip.stops, trip.interval, Plan(trip))

\* What BuildTrip() makes of them.
Built(trip, stops, legs, interval, overrides) ==
  /\ trip.stops = stops /\ trip.legs = legs /\ trip.interval = interval
  /\ trip.addon = ResolveAddons(stops, overrides.addons)
  /\ trip.slack = AutomaticSlack(stops, legs, interval, trip.addon)
  /\ LET departure == ResolveDeparture(Automatic(trip), overrides.departure)
         at == FinalTimetable(stops, trip.types, legs, departure,
                              trip.slack, trip.addon)
     IN /\ trip.types
             = ClassifyForDeparture(departure, Automatic(trip), Plan(trip))
        /\ trip.shift = departure - Automatic(trip)
        /\ trip.arr = at.arr /\ trip.dep = at.dep

\* Each quantifier of BuildTrip() named: what the appended trip is made of.
LEMMA BuildTripBuilds ==
  ASSUME NEW stops, NEW legs, NEW interval, NEW overrides,
         BuildTrip(stops, legs, interval, overrides)
  PROVE  \E trip : /\ trips' = Append(trips, trip)
                   /\ Built(trip, stops, legs, interval, overrides)
<1> DEFINE Made(addon, slack, plan, automatic, departure, types, at) ==
             [stops |-> stops, legs |-> legs, interval |-> interval,
              slack |-> slack, addon |-> addon, types |-> types,
              arr |-> at.arr, dep |-> at.dep, shift |-> departure - automatic,
              slow |-> /\ interval # NoInterval
                       /\ StretchedTooFar(legs, at,
                                          IndexOf(stops, interval[1]),
                                          IndexOf(stops, interval[2]))]
<1>1. PICK addon, slack, plan, automatic, departure, types, at :
        /\ addon = ResolveAddons(stops, overrides.addons)
        /\ slack = AutomaticSlack(stops, legs, interval, addon)
        /\ plan = ProvisionalOffsets(legs, Plus(slack, addon))
        /\ automatic = AutomaticDeparture(stops, interval, plan)
        /\ departure = ResolveDeparture(automatic, overrides.departure)
        /\ types = ClassifyForDeparture(departure, automatic, plan)
        /\ at = FinalTimetable(stops, types, legs, departure, slack, addon)
        /\ trips' = Append(trips, Made(addon, slack, plan, automatic,
                                       departure, types, at))
  <2>1. \E addon \in {ResolveAddons(stops, overrides.addons)} :
        \E slack \in {AutomaticSlack(stops, legs, interval, addon)} :
        \E plan \in {ProvisionalOffsets(legs, Plus(slack, addon))} :
        \E automatic \in {AutomaticDeparture(stops, interval, plan)} :
        \E departure \in {ResolveDeparture(automatic, overrides.departure)} :
        \E types \in {ClassifyForDeparture(departure, automatic, plan)} :
        \E at \in {FinalTimetable(stops, types, legs, departure, slack, addon)} :
          trips' = Append(trips, Made(addon, slack, plan, automatic,
                                      departure, types, at))
    BY Zenon DEF BuildTrip
  <2> HIDE DEF Made
  <2> QED  BY <2>1, Z3
<1> DEFINE trip == Made(addon, slack, plan, automatic, departure, types, at)
<1>2. /\ trip.stops = stops /\ trip.legs = legs /\ trip.interval = interval
      /\ trip.slack = slack /\ trip.addon = addon /\ trip.types = types
      /\ trip.arr = at.arr /\ trip.dep = at.dep
      /\ trip.shift = departure - automatic
  OBVIOUS
<1> HIDE DEF trip
<1>3. Plan(trip) = plan  BY <1>1, <1>2, Zenon DEF Plan
<1>4. Automatic(trip) = automatic  BY <1>1, <1>2, <1>3, Zenon DEF Automatic
<1>5. Built(trip, stops, legs, interval, overrides)
  BY <1>1, <1>2, <1>3, <1>4, Zenon DEF Built
<1>6. trips' = Append(trips, trip)  BY <1>1 DEF trip
<1> QED  BY <1>5, <1>6, Zenon

\* On stops that come once, the index of a stop is where it is.
LEMMA IndexFound ==
  ASSUME NEW stops \in [1 .. LegCount + 1 -> Stop],
         \A i, j \in 1 .. LegCount + 1 : stops[i] = stops[j] => i = j,
         NEW a \in 1 .. LegCount + 1
  PROVE  IndexOf(stops, stops[a]) = a
<1>1. DOMAIN stops = 1 .. LegCount + 1  OBVIOUS
<1> QED  BY <1>1 DEF IndexOf

\* Real infrastructure only ever makes a train stand longer.
LEMMA DwellIsAtLeast ==
  ASSUME NEW type \in {"boarding", "alighting", "night"}, NEW stop \in Stop
  PROVE  /\ MinDwell \in Nat /\ Dwell(type, stop) \in Nat
         /\ Dwell(type, stop) >= MinDwell
<1>1. /\ Composition.boarding \in Nat /\ Composition.alighting \in Nat
      /\ Track[stop].boarding \in Nat /\ Track[stop].alighting \in Nat
  BY DwellAssumption
<1> DEFINE board == Greatest(Composition.boarding, Track[stop].boarding)
           alight == Greatest(Composition.alighting, Track[stop].alighting)
<1>2. /\ board \in Nat /\ board >= Composition.boarding
      /\ alight \in Nat /\ alight >= Composition.alighting
  BY <1>1 DEF Greatest
<1>3. MinDwell \in Nat /\ board >= MinDwell /\ alight >= MinDwell
  BY <1>1, <1>2 DEF MinDwell, Least
<1>4. Dwell(type, stop) \in {board, alight}
  BY <1>1 DEF Dwell, Greatest
<1> QED  BY <1>2, <1>3, <1>4

\* The manual minutes of a leg are naturals: resolve_addons() only adds.
LEMMA AddonsAreNatural ==
  ASSUME NEW stops \in [1 .. LegCount + 1 -> Stop], NEW addons,
         IsFiniteSet(addons), addons \subseteq Addon
  PROVE  ResolveAddons(stops, addons) \in [1 .. LegCount -> Nat]
<1>1. LegCount \in Nat /\ LegCount + 1 \in Nat  BY LineFacts
<1>2. Len(stops) = LegCount + 1  BY <1>1, LenOf
<1>3. ASSUME NEW i \in 1 .. LegCount
      PROVE  ResolveAddons(stops, addons)[i] \in Nat
  <2> DEFINE here == {a \in addons : /\ a.from = stops[i]
                                     /\ a.to = stops[i + 1]}
             f == [a \in here |-> a.minutes]
  <2>1. IsFiniteSet(here)  BY FS_Subset
  <2>2. \A a \in here : f[a] \in Nat  BY DEF Addon
  <2>3. SumFunctionOnSet(f, here) \in Nat
    <3> HIDE DEF f, here
    <3> QED  BY <2>1, <2>2, SumNatural
  <2>4. SumFunction(f) = SumFunctionOnSet(f, here)
    <3>1. DOMAIN f = here  OBVIOUS
    <3> HIDE DEF f, here
    <3> QED  BY <3>1, SumIsOnDomain
  <2>5. ResolveAddons(stops, addons)[i] = SumFunction(f)
    <3>1. i \in 1 .. Len(stops) - 1  BY <1>1, <1>2
    <3> QED  BY <3>1, Zenon DEF ResolveAddons
  <2> QED  BY <2>3, <2>4, <2>5
<1>4. DOMAIN ResolveAddons(stops, addons) = 1 .. LegCount
  BY <1>1, <1>2 DEF ResolveAddons
<1>5. ResolveAddons(stops, addons)
        = [i \in 1 .. LegCount |-> ResolveAddons(stops, addons)[i]]
  BY <1>4, <1>1, <1>2 DEF ResolveAddons
<1> QED  BY <1>3, <1>5

\* Two lists of minutes, added leg by leg.
LEMMA PlusOf ==
  ASSUME NEW m \in Nat, NEW f \in [1 .. m -> Nat], NEW g \in [1 .. m -> Nat]
  PROVE  /\ Plus(f, g) \in [1 .. m -> Nat]
         /\ \A i \in 1 .. m : Plus(f, g)[i] = f[i] + g[i]
<1>1. DOMAIN f = 1 .. m  OBVIOUS
<1>2. \A i \in 1 .. m : f[i] \in Nat /\ g[i] \in Nat /\ f[i] + g[i] \in Nat
  OBVIOUS
<1>3. Plus(f, g) = [i \in 1 .. m |-> f[i] + g[i]]  BY <1>1, Zenon DEF Plus
<1> QED  BY <1>2, <1>3

\* The least dwell is a number of minutes.
LEMMA MinDwellIsNatural == MinDwell \in Nat
BY DwellAssumption DEF MinDwell, Least

\* The provisional offsets are a walk from 0 with the least dwell.
LEMMA OffsetsWalk ==
  ASSUME NEW legs \in [1 .. LegCount -> Nat],
         NEW extra \in [1 .. LegCount -> Nat]
  PROVE  LET at == ProvisionalOffsets(legs, extra)
         IN  IsWalk(at.arr, at.dep, LegCount, 0, Plus(legs, extra),
                    [i \in 1 .. LegCount + 1 |-> MinDwell])
<1> DEFINE least == [i \in 1 .. LegCount + 1 |-> MinDwell]
<1>1. LegCount \in Nat  BY LineFacts
<1>2. Len(legs) = LegCount  BY <1>1, LenOf
<1>3. Plus(legs, extra) \in [1 .. LegCount -> Int]
  <2>1. Plus(legs, extra) \in [1 .. LegCount -> Nat]  BY <1>1, PlusOf
  <2> HIDE DEF LegCount
  <2> QED  BY <2>1
<1>4. \A i \in 1 .. LegCount + 1 : least[i] \in Int
  BY MinDwellIsNatural
<1>5. ProvisionalOffsets(legs, extra) = Walk(0, Plus(legs, extra), least)
  BY <1>2, Zenon DEF ProvisionalOffsets
<1> HIDE DEF least
<1>6. LET at == Walk(0, Plus(legs, extra), least)
      IN  IsWalk(at.arr, at.dep, LegCount, 0, Plus(legs, extra), least)
  BY <1>1, <1>3, <1>4, WalkWalks
<1> QED  BY <1>5, <1>6, Zenon DEF least

\* From one stop to a later one: the routed time, what is added to it, and a
\* least dwell at each stop between them.
LEMMA OffsetsSpan ==
  ASSUME NEW legs \in [1 .. LegCount -> Nat],
         NEW extra \in [1 .. LegCount -> Nat],
         NEW a \in 1 .. LegCount + 1, NEW b \in 1 .. LegCount + 1, a < b
  PROVE  LET at == ProvisionalOffsets(legs, extra)
             interval == a .. b - 1
         IN  /\ at.arr[b] \in Int /\ at.dep[a] \in Int
             /\ at.arr[b] - at.dep[a]
                  = SumFunctionOnSet(legs, interval)
                      + SumFunctionOnSet(extra, interval)
                      + (b - a - 1) * MinDwell
<1> DEFINE at == ProvisionalOffsets(legs, extra)
           arr == at.arr
           dep == at.dep
           minutes == Plus(legs, extra)
           least == [i \in 1 .. LegCount + 1 |-> MinDwell]
           interval == a .. b - 1
<1>1. LegCount \in Nat /\ MinDwell \in Int
  BY LineFacts, MinDwellIsNatural
<1>2. /\ minutes \in [1 .. LegCount -> Nat]
      /\ \A i \in 1 .. LegCount : minutes[i] = legs[i] + extra[i]
  BY <1>1, PlusOf
<1>3. minutes \in [1 .. LegCount -> Int]
  <2> HIDE DEF minutes
  <2> QED  BY <1>2
<1>4. IsWalk(arr, dep, LegCount, 0, minutes, least)
  BY OffsetsWalk
<1>5. Steady(least, LegCount, MinDwell)  BY <1>1 DEF Steady
<1>6. interval \subseteq 1 .. LegCount /\ IsFiniteSet(interval)
  BY <1>1, FS_Interval
<1>7. arr[b] \in Int /\ dep[a] \in Int
  <2> HIDE DEF arr, dep, minutes, least
  <2> QED  BY <1>4 DEF IsWalk
<1> HIDE DEF arr, dep, minutes, least, interval
<1>8. arr[b] - dep[a]
        = SumFunctionOnSet(minutes, a .. b - 1) + (b - a - 1) * MinDwell
  BY <1>4, <1>5, WalkSpans
<1>9. SumFunctionOnSet(minutes, interval)
        = SumFunctionOnSet(legs, interval) + SumFunctionOnSet(extra, interval)
  <2>1. \A i \in interval : /\ legs[i] \in Int /\ extra[i] \in Int
                            /\ minutes[i] = legs[i] + extra[i]
    BY <1>2, <1>6
  <2> QED  BY <1>6, <2>1, SumOfTwo
<1>10. SumFunctionOnSet(minutes, a .. b - 1)
         = SumFunctionOnSet(legs, a .. b - 1)
             + SumFunctionOnSet(extra, a .. b - 1)
  BY <1>9 DEF interval
<1>11. arr[b] - dep[a]
         = SumFunctionOnSet(legs, a .. b - 1)
             + SumFunctionOnSet(extra, a .. b - 1) + (b - a - 1) * MinDwell
  BY <1>8, <1>10, Zenon
<1> QED  BY <1>7, <1>11, Zenon DEF arr, dep

\* The span between the ends of an interval no slack has been given to.
Natural(legs, addon, a, b) ==
  SumFunctionOnSet(legs, a .. b - 1) + SumFunctionOnSet(addon, a .. b - 1)
    + (b - a - 1) * MinDwell

\* What an interval of the line is given, leg by leg.
LEMMA IntervalSlack ==
  ASSUME NEW stops \in [1 .. LegCount + 1 -> Stop],
         \A i, j \in 1 .. LegCount + 1 : stops[i] = stops[j] => i = j,
         NEW legs \in [1 .. LegCount -> Nat],
         NEW addon \in [1 .. LegCount -> Nat],
         NEW a \in 1 .. LegCount + 1, NEW b \in 1 .. LegCount + 1, a < b
  PROVE  LET slack == AutomaticSlack(stops, legs, <<stops[a], stops[b]>>, addon)
             total == SlackNeeded(Natural(legs, addon, a, b))
             parts == Parts(legs, a .. b - 1)
         IN  /\ Natural(legs, addon, a, b) \in Int /\ total \in Nat
             /\ slack \in [1 .. LegCount -> Nat]
             /\ \A i \in (1 .. LegCount) \ (a .. b - 1) : slack[i] = 0
             /\ SumFunctionOnSet(slack, a .. b - 1) = total
             /\ \A i \in a .. b - 1 :
                  /\ slack[i] * parts
                       - total * Weight(legs, a .. b - 1, i) < parts
                  /\ total * Weight(legs, a .. b - 1, i)
                       - slack[i] * parts < parts
<1> DEFINE given == <<stops[a], stops[b]>>
           natural == ProvisionalOffsets(legs, addon)
           total == SlackNeeded(Natural(legs, addon, a, b))
<1>1. LegCount \in Nat /\ MinDwell \in Int
  BY LineFacts, MinDwellIsNatural
<1>2. IndexOf(stops, given[1]) = a /\ IndexOf(stops, given[2]) = b
  BY IndexFound
<1>3. given # NoInterval  BY DEF NoInterval
<1>4. /\ natural.arr[b] - natural.dep[a] = Natural(legs, addon, a, b)
      /\ natural.arr[b] \in Int /\ natural.dep[a] \in Int
  BY OffsetsSpan DEF Natural
<1>5. Natural(legs, addon, a, b) \in Int
  <2> HIDE DEF natural
  <2> QED  BY <1>4
<1>6. total \in Nat
  <2> HIDE DEF natural
  <2> QED  BY <1>5, StretchIsLeast
<1>7. AutomaticSlack(stops, legs, given, addon)
        = DistributeSlack(total, legs, a .. b - 1)
  <2>1. AutomaticSlack(stops, legs, given, addon)
          = FixedNightSlack(stops, legs, given, addon)
    BY <1>3, Zenon DEF AutomaticSlack
  <2>2. FixedNightSlack(stops, legs, given, addon)
          = DistributeSlack(SlackNeeded(natural.arr[b] - natural.dep[a]),
                            legs, a .. b - 1)
    <3> HIDE DEF given
    <3> QED  BY <1>2, Zenon DEF FixedNightSlack
  <2> QED  BY <1>4, <2>1, <2>2, Zenon
<1>8. a .. b - 1 \subseteq 1 .. LegCount /\ a .. b - 1 # {}
  <2>1. a \in a .. b - 1  OBVIOUS
  <2>2. a .. b - 1 \subseteq 1 .. LegCount  BY <1>1
  <2> QED  BY <2>1, <2>2
<1> HIDE DEF given, natural, total
<1>9. LET slack == DistributeSlack(total, legs, a .. b - 1)
          parts == Parts(legs, a .. b - 1)
      IN  /\ slack \in [1 .. LegCount -> Nat]
          /\ \A i \in (1 .. LegCount) \ (a .. b - 1) : slack[i] = 0
          /\ SumFunctionOnSet(slack, a .. b - 1) = total
          /\ \A i \in a .. b - 1 :
               /\ slack[i] * parts - total * Weight(legs, a .. b - 1, i) < parts
               /\ total * Weight(legs, a .. b - 1, i) - slack[i] * parts < parts
  BY <1>1, <1>6, <1>8, SlackIsSpread
<1> QED  BY <1>5, <1>6, <1>7, <1>9, Zenon DEF given, total

LeastStand == [i \in 1 .. LegCount + 1 |-> MinDwell]

\* The plan stands equally long everywhere.
LEMMA LeastIsSteady == Steady(LeastStand, LegCount, MinDwell)
BY MinDwellIsNatural DEF Steady, LeastStand

\* When a trip leaves, moved or not.
Leaves(trip) == Automatic(trip) + trip.shift

\* A trip runs as it was planned, only later where the train has to stand
\* longer than the plan knows.
Timed(trip) ==
  /\ trip.legs \in [1 .. LegCount -> Nat]
  /\ trip.slack \in [1 .. LegCount -> Nat]
  /\ trip.addon \in [1 .. LegCount -> Nat]
  /\ Automatic(trip) \in Int /\ trip.shift \in Int
  /\ trip.types = ClassifyStops(Leaves(trip), Plan(trip))
  /\ IsWalk(Plan(trip).arr, Plan(trip).dep, LegCount, 0, Minutes(trip),
            LeastStand)
  /\ \E dwell :
       /\ \A i \in 1 .. LegCount + 1 : dwell[i] \in Nat /\ dwell[i] >= MinDwell
       /\ IsWalk(trip.arr, trip.dep, LegCount, Leaves(trip), Minutes(trip),
                 dwell)

\* No leg gets a negative slack, whichever strategy gives it.
LEMMA SlackIsNatural ==
  ASSUME NEW stops, NEW legs, NEW interval, NEW overrides,
         Posed(stops, legs, interval, overrides),
         NEW addon \in [1 .. LegCount -> Nat]
  PROVE  AutomaticSlack(stops, legs, interval, addon) \in [1 .. LegCount -> Nat]
<1>1. /\ stops \in [1 .. LegCount + 1 -> Stop]
      /\ \A i, j \in 1 .. LegCount + 1 : stops[i] = stops[j] => i = j
      /\ legs \in [1 .. LegCount -> Nat]
  BY DEF Posed
<1>2. CASE interval = NoInterval
  <2>1. DOMAIN legs = 1 .. LegCount  BY <1>1
  <2>2. AutomaticSlack(stops, legs, interval, addon)
          = [i \in 1 .. LegCount |-> 0]
    BY <1>2, <2>1, Zenon DEF AutomaticSlack
  <2> QED  BY <2>2
<1>3. CASE interval # NoInterval
  <2>1. PICK a, b \in 1 .. LegCount + 1 :
          a < b /\ interval = <<stops[a], stops[b]>>
    BY <1>3 DEF Posed
  <2>2. AutomaticSlack(stops, legs, <<stops[a], stops[b]>>, addon)
          \in [1 .. LegCount -> Nat]
    BY <1>1, <2>1, IntervalSlack
  <2> QED  BY <2>1, <2>2, Zenon
<1> QED  BY <1>2, <1>3

\* Both strategies place a trip on a whole minute.
LEMMA AutomaticIsInteger ==
  ASSUME NEW stops, NEW legs, NEW interval, NEW overrides,
         Posed(stops, legs, interval, overrides),
         NEW at, NEW minutes,
         IsWalk(at.arr, at.dep, LegCount, 0, minutes, LeastStand)
  PROVE  AutomaticDeparture(stops, interval, at) \in Int
<1>1. /\ stops \in [1 .. LegCount + 1 -> Stop]
      /\ \A i, j \in 1 .. LegCount + 1 : stops[i] = stops[j] => i = j
  BY DEF Posed
<1>2. /\ LegCount \in Nat /\ LegCount > 0 /\ LegCount + 1 \in Nat
      /\ at.arr \in [1 .. LegCount + 1 -> Int]
      /\ at.dep \in [1 .. LegCount + 1 -> Int]
  BY LineFacts DEF IsWalk
<1>3. CASE interval = NoInterval
  <2>1. Len(at.arr) = LegCount + 1 /\ Len(at.arr) \in 1 .. LegCount + 1
    BY <1>2, LenOf
  <2>2. at.arr[Len(at.arr)] \in Int  BY <1>2, <2>1
  <2>3. SimpleAutomatic(at) \in Int  BY <2>2, SimpleIsCentred DEF SimpleAutomatic
  <2> QED  BY <1>3, <2>3, Zenon DEF AutomaticDeparture
<1>4. CASE interval # NoInterval
  <2>1. PICK a, b \in 1 .. LegCount + 1 :
          a < b /\ interval = <<stops[a], stops[b]>>
    BY <1>4 DEF Posed
  <2>2. IndexOf(stops, interval[1]) = a /\ IndexOf(stops, interval[2]) = b
    BY <1>1, <2>1, IndexFound
  <2>3. at.arr[b] \in Int /\ at.dep[a] \in Int /\ at.arr[b] - at.dep[a] \in Int
    <3> DEFINE arr == at.arr
               dep == at.dep
    <3>1. arr \in [1 .. LegCount + 1 -> Int] /\ dep \in [1 .. LegCount + 1 -> Int]
      BY <1>2
    <3> HIDE DEF arr, dep
    <3>2. arr[b] \in Int /\ dep[a] \in Int  BY <3>1
    <3>3. arr[b] - dep[a] \in Int  BY <3>2
    <3> QED  BY <3>2, <3>3, Zenon DEF arr, dep
  <2> DEFINE span == at.arr[b] - at.dep[a]
             centre == RoundHalf(2 * Mirror - span)
  <2>4. FixedNight(stops, interval, at)
          = FixedNightDeparture(span) - at.dep[a]
    BY <2>2, Zenon DEF FixedNight
  <2>5. FixedNightDeparture(span) \in Int
    <3>1. span \in Int /\ 2 * Mirror - span \in Int
      BY <2>3, NightAssumption
    <3>2. centre \in Int  BY <3>1, RoundIsNearest
    <3>3. FixedNightDeparture(span)
            = Greatest(Least(centre, NightStart - 1), NightEnd - span)
      BY Zenon DEF FixedNightDeparture
    <3> HIDE DEF span, centre
    <3> QED  BY <3>1, <3>2, <3>3, NightAssumption DEF Greatest, Least
  <2>6. FixedNight(stops, interval, at) \in Int
    <3> HIDE DEF span
    <3> QED  BY <2>3, <2>4, <2>5
  <2> QED  BY <1>4, <2>6, Zenon DEF AutomaticDeparture
<1> QED  BY <1>3, <1>4

\* So does a departure override.
LEMMA DepartureIsInteger ==
  ASSUME NEW automatic \in Int, NEW override \in Departure
  PROVE  ResolveDeparture(automatic, override) \in Int
<1>1. /\ override.mode \in {"automatic", "absolute", "shift"}
      /\ override.minutes \in Int
  BY DEF Departure
<1> QED  BY <1>1 DEF ResolveDeparture

\* Every stop is classified as one of the three types.
LEMMA TypesAreKnown ==
  ASSUME NEW m \in Nat, NEW departure, NEW at,
         DOMAIN at.arr = 1 .. m
  PROVE  /\ DOMAIN ClassifyStops(departure, at) = 1 .. m
         /\ \A i \in 1 .. m :
              ClassifyStops(departure, at)[i]
                \in {"boarding", "alighting", "night"}
BY DEF ClassifyStops, ClassifyStopType

\* What BuildTrip() makes of a posted line is a trip that runs as planned, only
\* later: _build_trip() and the strategies never hand a trip a negative time.
THEOREM TripIsTimed ==
  ASSUME NEW trip, NEW stops, NEW legs, NEW interval, NEW overrides,
         Posed(stops, legs, interval, overrides),
         Built(trip, stops, legs, interval, overrides)
  PROVE  /\ Timed(trip)
         /\ Leaves(trip)
              = ResolveDeparture(Automatic(trip), overrides.departure)
<1>0. LegCount \in Nat /\ LegCount > 0 /\ LegCount + 1 \in Nat  BY LineFacts
<1>1. /\ trip.stops = stops /\ trip.legs = legs /\ trip.interval = interval
      /\ stops \in [1 .. LegCount + 1 -> Stop]
      /\ legs \in [1 .. LegCount -> Nat]
      /\ overrides.departure \in Departure
      /\ IsFiniteSet(overrides.addons) /\ overrides.addons \subseteq Addon
  BY DEF Posed, Built
<1>2. trip.addon \in [1 .. LegCount -> Nat]
  <2>1. trip.addon = ResolveAddons(stops, overrides.addons)  BY DEF Built
  <2> QED  BY <1>1, <2>1, AddonsAreNatural
<1>3. trip.slack \in [1 .. LegCount -> Nat]
  <2>1. trip.slack = AutomaticSlack(stops, legs, interval, trip.addon)
    BY DEF Built
  <2> QED  BY <1>2, <2>1, SlackIsNatural
<1>4. Plus(trip.slack, trip.addon) \in [1 .. LegCount -> Nat]
  BY <1>0, <1>2, <1>3, PlusOf
<1>5. IsWalk(Plan(trip).arr, Plan(trip).dep, LegCount, 0, Minutes(trip),
             LeastStand)
  <2>1. LET at == ProvisionalOffsets(legs, Plus(trip.slack, trip.addon))
        IN  IsWalk(at.arr, at.dep, LegCount, 0,
                   Plus(legs, Plus(trip.slack, trip.addon)),
                   [i \in 1 .. LegCount + 1 |-> MinDwell])
    BY <1>1, <1>4, OffsetsWalk
  <2> QED  BY <1>1, <2>1, Zenon DEF Plan, Minutes, LeastStand
<1>6. Automatic(trip) \in Int
  BY <1>1, <1>5, AutomaticIsInteger DEF Automatic
<1> DEFINE departure == ResolveDeparture(Automatic(trip), overrides.departure)
<1>7. departure \in Int  BY <1>1, <1>6, DepartureIsInteger
<1>8. /\ trip.types = ClassifyForDeparture(departure, Automatic(trip), Plan(trip))
      /\ trip.shift = departure - Automatic(trip)
  BY DEF Built
<1> HIDE DEF departure
<1>9. trip.shift \in Int /\ Leaves(trip) = departure
  BY <1>6, <1>7, <1>8 DEF Leaves
<1>10. trip.types = ClassifyStops(Leaves(trip), Plan(trip))
  BY <1>8, <1>9, Zenon DEF ClassifyForDeparture
<1> DEFINE dwell == [i \in 1 .. LegCount + 1 |-> Dwell(trip.types[i], stops[i])]
<1>11. \A i \in 1 .. LegCount + 1 : dwell[i] \in Nat /\ dwell[i] >= MinDwell
  <2>1. DOMAIN Plan(trip).arr = 1 .. LegCount + 1  BY <1>5 DEF IsWalk
  <2>2. \A i \in 1 .. LegCount + 1 :
          trip.types[i] \in {"boarding", "alighting", "night"}
    BY <1>0, <1>10, <2>1, TypesAreKnown
  <2>3. \A i \in 1 .. LegCount + 1 : stops[i] \in Stop  BY <1>1
  <2> QED  BY <2>2, <2>3, DwellIsAtLeast
<1>12. IsWalk(trip.arr, trip.dep, LegCount, departure, Minutes(trip), dwell)
  <2>1. DOMAIN stops = 1 .. LegCount + 1  BY <1>1
  <2>2. Minutes(trip) = Plus(legs, Plus(trip.slack, trip.addon))
    BY <1>1, Zenon DEF Minutes
  <2>3. FinalTimetable(stops, trip.types, legs, departure, trip.slack, trip.addon)
          = Walk(departure, Minutes(trip), dwell)
    BY <2>1, <2>2, Zenon DEF FinalTimetable
  <2>4. Minutes(trip) \in [1 .. LegCount -> Int]  BY <1>5 DEF IsWalk
  <2>5. LET at == FinalTimetable(stops, trip.types, legs, departure,
                                 trip.slack, trip.addon)
        IN  trip.arr = at.arr /\ trip.dep = at.dep
    BY Zenon DEF Built, departure
  <2>6. \A i \in 1 .. LegCount + 1 : dwell[i] \in Int  BY <1>11
  <2> HIDE DEF dwell
  <2>7. LET at == Walk(departure, Minutes(trip), dwell)
        IN  IsWalk(at.arr, at.dep, LegCount, departure, Minutes(trip), dwell)
    BY <1>0, <1>7, <2>4, <2>6, WalkWalks
  <2> QED  BY <2>3, <2>5, <2>7, Zenon
<1> HIDE DEF dwell
<1>13. IsWalk(trip.arr, trip.dep, LegCount, Leaves(trip), Minutes(trip), dwell)
  BY <1>9, <1>12, Zenon
<1>14. Timed(trip)
  <2>1. trip.legs \in [1 .. LegCount -> Nat]  BY <1>1
  <2> QED  BY <1>2, <1>3, <1>5, <1>6, <1>9, <1>10, <1>11, <1>13, <2>1, Zenon
           DEF Timed
<1> QED  BY <1>9, <1>14 DEF departure
(***************************************************************************)
(* A trip against its plan.                                                *)
(***************************************************************************)

\* What a train stands beyond the least, at each stop between the ends.
Longer(trip) == [j \in 2 .. LegCount |-> trip.dep[j] - trip.arr[j] - MinDwell]
Late(trip, i) == SumFunctionOnSet(Longer(trip), 2 .. i)

\* Real dwell is at least the dwell of the plan, stop by stop.
LEMMA LongerIsNatural ==
  ASSUME NEW trip, Timed(trip)
  PROVE  \A j \in 2 .. LegCount : /\ Longer(trip)[j] \in Nat
                                  /\ trip.arr[j] \in Int /\ trip.dep[j] \in Int
<1>1. PICK dwell :
        /\ \A i \in 1 .. LegCount + 1 : dwell[i] \in Nat /\ dwell[i] >= MinDwell
        /\ IsWalk(trip.arr, trip.dep, LegCount, Leaves(trip), Minutes(trip),
                  dwell)
  BY Zenon DEF Timed
<1>2. LegCount \in Nat /\ MinDwell \in Nat
  BY LineFacts, MinDwellIsNatural
<1> SUFFICES ASSUME NEW j \in 2 .. LegCount
             PROVE  /\ Longer(trip)[j] \in Nat
                    /\ trip.arr[j] \in Int /\ trip.dep[j] \in Int
  OBVIOUS
<1> DEFINE arr == trip.arr
           dep == trip.dep
<1>3. j \in 1 .. LegCount + 1 /\ j \notin {1, LegCount + 1}  BY <1>2
<1>4. /\ arr \in [1 .. LegCount + 1 -> Int] /\ dep \in [1 .. LegCount + 1 -> Int]
      /\ dep[j] = arr[j] + (IF j \in {1, LegCount + 1} THEN 0 ELSE dwell[j])
  BY <1>1, <1>3 DEF IsWalk
<1>5. Longer(trip)[j] = dep[j] - arr[j] - MinDwell
  BY Zenon DEF Longer
<1>6. dwell[j] \in Nat /\ dwell[j] >= MinDwell  BY <1>1, <1>3
<1> HIDE DEF arr, dep
<1>7. arr[j] \in Int /\ dep[j] \in Int /\ dep[j] = arr[j] + dwell[j]
  BY <1>3, <1>4
<1>8. Longer(trip)[j] \in Nat  BY <1>2, <1>5, <1>6, <1>7
<1> QED  BY <1>7, <1>8 DEF arr, dep

\* A trip is never ahead of its plan.
LEMMA LateGrows ==
  ASSUME NEW trip, Timed(trip)
  PROVE  \A i \in 1 .. LegCount : Late(trip, i) \in Nat
<1> SUFFICES ASSUME NEW i \in 1 .. LegCount  PROVE Late(trip, i) \in Nat
  OBVIOUS
<1>1. 2 .. i \subseteq 2 .. LegCount /\ IsFiniteSet(2 .. i)
  BY LineFacts, FS_Interval, SMTT(30)
<1>2. \A j \in 2 .. i : Longer(trip)[j] \in Nat  BY <1>1, LongerIsNatural
<1> QED  BY <1>1, <1>2, SumNatural DEF Late

\* A trip follows its plan, late by what it stood longer so far.
LEMMA TripFollowsPlan ==
  ASSUME NEW trip, Timed(trip)
  PROVE  /\ \A i \in 1 .. LegCount :
              trip.dep[i] = Leaves(trip) + Plan(trip).dep[i] + Late(trip, i)
         /\ \A i \in 1 .. LegCount :
              trip.arr[i + 1]
                = Leaves(trip) + Plan(trip).arr[i + 1] + Late(trip, i)
<1>1. PICK dwell :
        IsWalk(trip.arr, trip.dep, LegCount, Leaves(trip), Minutes(trip), dwell)
  BY Zenon DEF Timed
<1>2. IsWalk(Plan(trip).arr, Plan(trip).dep, LegCount, 0, Minutes(trip),
             LeastStand)
  BY DEF Timed
<1>3. \A j \in 2 .. LegCount :
        Longer(trip)[j] = trip.dep[j] - trip.arr[j] - MinDwell
  BY Zenon DEF Longer
<1> DEFINE arr == trip.arr
           dep == trip.dep
           arr0 == Plan(trip).arr
           dep0 == Plan(trip).dep
           later == Longer(trip)
           start == Leaves(trip)
           minutes == Minutes(trip)
<1> HIDE DEF arr, dep, arr0, dep0, later, start, minutes
<1>4. /\ IsWalk(arr0, dep0, LegCount, 0, minutes, LeastStand)
      /\ IsWalk(arr, dep, LegCount, start, minutes, dwell)
      /\ \A j \in 2 .. LegCount : later[j] = dep[j] - arr[j] - MinDwell
  BY <1>1, <1>2, <1>3, Zenon
     DEF arr, dep, arr0, dep0, later, start, minutes
<1>5. /\ \A i \in 1 .. LegCount :
           dep[i] = start + dep0[i] + SumFunctionOnSet(later, 2 .. i)
      /\ \A i \in 1 .. LegCount :
           arr[i + 1] = start + arr0[i + 1] + SumFunctionOnSet(later, 2 .. i)
  BY <1>4, LeastIsSteady, WalkLater
<1> QED  BY <1>5, Zenon DEF Late, arr, dep, arr0, dep0, later, start

\* Times of the plan are integers and never go back.
LEMMA PlanGoesOn ==
  ASSUME NEW trip, Timed(trip)
  PROVE  /\ Plan(trip).arr \in [1 .. LegCount + 1 -> Int]
         /\ Plan(trip).dep \in [1 .. LegCount + 1 -> Int]
         /\ Plan(trip).dep[1] = 0
         /\ \A i \in 1 .. LegCount + 1 : Plan(trip).arr[i] <= Plan(trip).dep[i]
         /\ \A i, j \in 1 .. LegCount + 1 :
              i < j => Plan(trip).dep[i] <= Plan(trip).arr[j]
<1>1. IsWalk(Plan(trip).arr, Plan(trip).dep, LegCount, 0, Minutes(trip),
             LeastStand)
  BY DEF Timed
<1>2. LegCount \in Nat /\ LegCount + 1 \in Nat  BY LineFacts
<1>3. \A i \in 1 .. LegCount : Minutes(trip)[i] \in Nat
  <2>1. /\ trip.legs \in [1 .. LegCount -> Nat]
        /\ trip.slack \in [1 .. LegCount -> Nat]
        /\ trip.addon \in [1 .. LegCount -> Nat]
    BY DEF Timed
  <2>2. Plus(trip.slack, trip.addon) \in [1 .. LegCount -> Nat]
    BY <1>2, <2>1, PlusOf
  <2>3. Minutes(trip) \in [1 .. LegCount -> Nat]
    BY <1>2, <2>1, <2>2, PlusOf DEF Minutes
  <2> QED  BY <2>3
<1>4. \A i \in 1 .. LegCount + 1 : LeastStand[i] \in Nat
  BY MinDwellIsNatural DEF LeastStand
<1>5. /\ Plan(trip).arr \in [1 .. LegCount + 1 -> Int]
      /\ Plan(trip).dep \in [1 .. LegCount + 1 -> Int]
  BY <1>1 DEF IsWalk
<1>6. Plan(trip).dep[1] = 0
  <2>1. 1 \in 1 .. LegCount + 1  BY <1>2
  <2> DEFINE arr == Plan(trip).arr
             dep == Plan(trip).dep
  <2>2. /\ arr[1] = 0
        /\ dep[1] = arr[1] + (IF 1 \in {1, LegCount + 1} THEN 0
                              ELSE LeastStand[1])
    BY <1>1, <2>1 DEF IsWalk
  <2> HIDE DEF arr, dep
  <2>3. dep[1] = 0  BY <2>2
  <2> QED  BY <2>3 DEF dep
<1> QED  BY <1>1, <1>3, <1>4, <1>5, <1>6, WalkGoesOn, Zenon

\* What the properties call the excess is how late the trip runs by then.
LEMMA ExcessIsLate ==
  ASSUME NEW trip, Timed(trip), trip.stops \in [1 .. LegCount + 1 -> Stop]
  PROVE  /\ \A i \in 1 .. LegCount : Excess(trip, i) = Late(trip, i)
         /\ Excess(trip, LegCount + 1) = Late(trip, LegCount)
<1>1. /\ LegCount \in Nat /\ LegCount > 0 /\ LegCount + 1 \in Nat
      /\ Len(trip.stops) = LegCount + 1
  BY LineFacts, LenOf
<1>2. ASSUME NEW i \in 1 .. LegCount + 1, NEW k \in 1 .. LegCount,
             {j \in 2 .. i : j < Len(trip.stops)} = 2 .. k
      PROVE  Excess(trip, i) = Late(trip, k)
  <2> DEFINE f == [j \in 2 .. k |-> trip.dep[j] - trip.arr[j] - MinDwell]
  <2>1. Excess(trip, i) = SumFunction(f)
    BY <1>2, Zenon DEF Excess
  <2>2. SumFunction(f) = SumFunctionOnSet(f, 2 .. k)
    <3>1. DOMAIN f = 2 .. k  OBVIOUS
    <3> HIDE DEF f
    <3> QED  BY <3>1, SumIsOnDomain
  <2>3. 2 .. k \subseteq 2 .. LegCount /\ IsFiniteSet(2 .. k)
    <3>1. k \in Int /\ k <= LegCount  BY <1>1
    <3>2. IsFiniteSet(2 .. k)  BY <3>1, FS_Interval
    <3>3. 2 .. k \subseteq 2 .. LegCount  BY <1>1, <3>1
    <3> QED  BY <3>2, <3>3
  <2>4. \A j \in 2 .. k : Longer(trip)[j] \in Int /\ f[j] = Longer(trip)[j]
    <3> TAKE j \in 2 .. k
    <3>1. j \in 2 .. LegCount  BY <2>3
    <3>2. Longer(trip)[j] \in Nat  BY <3>1, LongerIsNatural
    <3>3. Longer(trip)[j] = trip.dep[j] - trip.arr[j] - MinDwell
      BY <3>1, Zenon DEF Longer
    <3>4. f[j] = trip.dep[j] - trip.arr[j] - MinDwell  BY Zenon
    <3> QED  BY <3>2, <3>3, <3>4
  <2>5. SumFunctionOnSet(f, 2 .. k) = Late(trip, k)
    <3> HIDE DEF f
    <3> QED  BY <2>3, <2>4, SumSame DEF Late
  <2> QED  BY <2>1, <2>2, <2>5
<1>3. \A i \in 1 .. LegCount : {j \in 2 .. i : j < Len(trip.stops)} = 2 .. i
  BY <1>1
<1>4. {j \in 2 .. LegCount + 1 : j < Len(trip.stops)} = 2 .. LegCount
  BY <1>1
<1>5. ASSUME NEW i \in 1 .. LegCount  PROVE Excess(trip, i) = Late(trip, i)
  <2>1. i \in 1 .. LegCount + 1  BY <1>1
  <2> QED  BY <1>2, <1>3, <2>1
<1>6. Excess(trip, LegCount + 1) = Late(trip, LegCount)
  <2>1. LegCount + 1 \in 1 .. LegCount + 1 /\ LegCount \in 1 .. LegCount
    BY <1>1
  <2> QED  BY <1>2, <1>4, <2>1
<1> QED  BY <1>5, <1>6

\* The stop types of a trip come from the plan's times, and the final ones
\* are never earlier.
LEMMA TripTypesFollowTheClock ==
  ASSUME NEW trip, Timed(trip), NEW i \in 2 .. LegCount
  PROVE  /\ trip.types[i] = "alighting" => trip.arr[i] >= NightEnd
         /\ trip.types[i] = "night" => trip.dep[i] >= NightStart
         /\ trip.dep[i] < NightStart => trip.types[i] = "boarding"
<1> DEFINE a == Leaves(trip) + Plan(trip).arr[i]
           d == Leaves(trip) + Plan(trip).dep[i]
<1>1. LegCount \in Nat /\ i - 1 \in 1 .. LegCount /\ (i - 1) + 1 = i
      /\ i \in 1 .. LegCount /\ i \in 1 .. LegCount + 1
  BY LineFacts
<1>2. /\ trip.dep[i] = d + Late(trip, i)
      /\ trip.arr[i] = a + Late(trip, i - 1)
  BY <1>1, TripFollowsPlan, Zenon
<1>3. Late(trip, i) \in Nat /\ Late(trip, i - 1) \in Nat
  BY <1>1, LateGrows
<1>4. a \in Int /\ d \in Int
  <2>1. Plan(trip).arr[i] \in Int /\ Plan(trip).dep[i] \in Int
    BY <1>1, PlanGoesOn
  <2>2. Leaves(trip) \in Int  BY DEF Timed, Leaves
  <2> QED  BY <2>1, <2>2
<1>5. trip.types[i] = ClassifyStopType(a, d)
  <2>1. trip.types = ClassifyStops(Leaves(trip), Plan(trip))  BY DEF Timed
  <2>2. DOMAIN Plan(trip).arr = 1 .. LegCount + 1 /\ LegCount + 1 \in Nat
        /\ Plan(trip).arr \in [1 .. LegCount + 1 -> Int]
    BY <1>1, PlanGoesOn
  <2>3. Len(Plan(trip).arr) = LegCount + 1  BY <2>2, LenOf
  <2>4. i # 1 /\ i # LegCount + 1  BY <1>1
  <2> QED  BY <1>1, <2>1, <2>2, <2>3, <2>4, Zenon DEF ClassifyStops
<1> HIDE DEF a, d
<1>6. trip.arr[i] >= a /\ trip.dep[i] >= d
      /\ trip.arr[i] \in Int /\ trip.dep[i] \in Int
  BY <1>2, <1>3, <1>4
<1> QED  BY <1>4, <1>5, <1>6, NightAssumption DEF ClassifyStopType
(***************************************************************************)
(* The stretch of a fixed night.                                           *)
(***************************************************************************)

\* Elements that add nothing may be left out of a sum.
LEMMA SumZeroOutside ==
  ASSUME NEW S, IsFiniteSet(S), NEW T, T \subseteq S, NEW f,
         \A x \in S : f[x] \in Int, \A x \in S \ T : f[x] = 0
  PROVE  SumFunctionOnSet(f, S) = SumFunctionOnSet(f, T)
<1> DEFINE F == {U \in SUBSET (S \ T) :
                   SumFunctionOnSet(f, T \cup U) = SumFunctionOnSet(f, T)}
<1>1. {} \in F
  <2>1. T \cup {} = T  OBVIOUS
  <2> QED  BY <2>1
<1>2. ASSUME NEW U \in F, NEW x \in S \ T, x \notin U
      PROVE  U \cup {x} \in F
  <2>0. U \subseteq S \ T  BY <1>2
  <2>1. T \cup U \subseteq S /\ x \notin T \cup U
    <3> HIDE DEF F
    <3> QED  BY <1>2, <2>0
  <2>2. IsFiniteSet(T \cup U)  BY <2>1, FS_Subset
  <2>3. \A y \in (T \cup U) \cup {x} : f[y] \in Int  BY <2>1
  <2>4. SumFunctionOnSet(f, (T \cup U) \cup {x})
          = f[x] + SumFunctionOnSet(f, T \cup U)
    BY <1>2, <2>1, <2>2, <2>3, SumAdd
  <2>5. f[x] = 0 /\ SumFunctionOnSet(f, T \cup U) = SumFunctionOnSet(f, T)
    BY <1>2
  <2>6. SumFunctionOnSet(f, T \cup U) \in Int
    BY <2>2, <2>3, SumInteger
  <2>7. SumFunctionOnSet(f, (T \cup U) \cup {x}) = SumFunctionOnSet(f, T)
    BY <2>4, <2>5, <2>6
  <2>8. (T \cup U) \cup {x} = T \cup (U \cup {x})  OBVIOUS
  <2> QED  BY <1>2, <2>7, <2>8
<1>3. IsFiniteSet(S \ T)  BY FS_Subset
<1>4. S \ T \in F
  <2>1. \A U \in F : \A x \in S \ T :
          U \in SUBSET (S \ T) /\ x \notin U => U \cup {x} \in F
    BY <1>2
  <2> HIDE DEF F
  <2> QED  BY <1>1, <1>3, <2>1, FiniteInduction
<1>5. T \cup (S \ T) = S  OBVIOUS
<1> QED  BY <1>4, <1>5

\* The parts of a trip over a fixed night interval, by their names in Built.
LEMMA IntervalOf ==
  ASSUME NEW trip, NEW stops, NEW legs, NEW interval, NEW overrides,
         Posed(stops, legs, interval, overrides),
         Built(trip, stops, legs, interval, overrides),
         trip.interval # NoInterval
  PROVE  \E a, b \in 1 .. LegCount + 1 :
           /\ a < b /\ From(trip) = a /\ To(trip) = b
           /\ IndexOf(stops, interval[1]) = a
           /\ IndexOf(stops, interval[2]) = b
           /\ interval = <<stops[a], stops[b]>>
<1>1. /\ stops \in [1 .. LegCount + 1 -> Stop]
      /\ \A i, j \in 1 .. LegCount + 1 : stops[i] = stops[j] => i = j
      /\ trip.stops = stops /\ trip.interval = interval
  BY DEF Posed, Built
<1>2. PICK a, b \in 1 .. LegCount + 1 :
        a < b /\ interval = <<stops[a], stops[b]>>
  BY <1>1 DEF Posed
<1>3. IndexOf(stops, interval[1]) = a /\ IndexOf(stops, interval[2]) = b
  <2>1. interval[1] = stops[a] /\ interval[2] = stops[b]  BY <1>2
  <2>2. IndexOf(stops, stops[a]) = a /\ IndexOf(stops, stops[b]) = b
    BY <1>1, IndexFound
  <2> QED  BY <2>1, <2>2
<1>4. From(trip) = a /\ To(trip) = b  BY <1>1, <1>3 DEF From, To
<1> QED  BY <1>2, <1>3, <1>4

\* The slack of such a trip, as AutomaticSlack() spreads it.
LEMMA TripSlack ==
  ASSUME NEW trip, NEW stops, NEW legs, NEW interval, NEW overrides,
         Posed(stops, legs, interval, overrides),
         Built(trip, stops, legs, interval, overrides), Timed(trip),
         NEW a \in 1 .. LegCount + 1, NEW b \in 1 .. LegCount + 1, a < b,
         interval = <<stops[a], stops[b]>>
  PROVE  LET natural == Natural(trip.legs, trip.addon, a, b)
             total == SlackNeeded(natural)
             parts == Parts(trip.legs, a .. b - 1)
         IN  /\ natural \in Int /\ total \in Nat
             /\ \A i \in (1 .. LegCount) \ (a .. b - 1) : trip.slack[i] = 0
             /\ SumFunctionOnSet(trip.slack, a .. b - 1) = total
             /\ SumFunction(trip.slack) = total
             /\ \A i \in a .. b - 1 :
                  /\ trip.slack[i] * parts
                       - total * Weight(trip.legs, a .. b - 1, i) < parts
                  /\ total * Weight(trip.legs, a .. b - 1, i)
                       - trip.slack[i] * parts < parts
<1> DEFINE natural == Natural(trip.legs, trip.addon, a, b)
           total == SlackNeeded(natural)
           parts == Parts(trip.legs, a .. b - 1)
<1>1. /\ stops \in [1 .. LegCount + 1 -> Stop]
      /\ \A i, j \in 1 .. LegCount + 1 : stops[i] = stops[j] => i = j
      /\ trip.legs = legs
      /\ trip.legs \in [1 .. LegCount -> Nat]
      /\ trip.slack \in [1 .. LegCount -> Nat]
      /\ trip.addon \in [1 .. LegCount -> Nat]
      /\ trip.slack = AutomaticSlack(stops, trip.legs, <<stops[a], stops[b]>>,
                                     trip.addon)
  BY DEF Posed, Built, Timed
<1>2. LET slack == AutomaticSlack(stops, trip.legs, <<stops[a], stops[b]>>,
                                  trip.addon)
      IN  /\ natural \in Int /\ total \in Nat
          /\ slack \in [1 .. LegCount -> Nat]
          /\ \A i \in (1 .. LegCount) \ (a .. b - 1) : slack[i] = 0
          /\ SumFunctionOnSet(slack, a .. b - 1) = total
          /\ \A i \in a .. b - 1 :
               /\ slack[i] * parts
                    - total * Weight(trip.legs, a .. b - 1, i) < parts
               /\ total * Weight(trip.legs, a .. b - 1, i)
                    - slack[i] * parts < parts
  BY <1>1, IntervalSlack
<1> HIDE DEF natural, total, parts
<1>3. /\ natural \in Int /\ total \in Nat
      /\ \A i \in (1 .. LegCount) \ (a .. b - 1) : trip.slack[i] = 0
      /\ SumFunctionOnSet(trip.slack, a .. b - 1) = total
      /\ \A i \in a .. b - 1 :
           /\ trip.slack[i] * parts
                - total * Weight(trip.legs, a .. b - 1, i) < parts
           /\ total * Weight(trip.legs, a .. b - 1, i)
                - trip.slack[i] * parts < parts
  BY <1>1, <1>2, Zenon
<1>4. SumFunction(trip.slack) = total
  <2>1. DOMAIN trip.slack = 1 .. LegCount /\ IsFiniteSet(1 .. LegCount)
    BY <1>1, LineFacts, FS_Interval
  <2>2. a .. b - 1 \subseteq 1 .. LegCount
    BY LineFacts
  <2>3. \A i \in 1 .. LegCount : trip.slack[i] \in Int
    <3>1. trip.slack \in [1 .. LegCount -> Nat]  BY <1>1
    <3> DEFINE slack == trip.slack
    <3> HIDE DEF slack
    <3>2. slack \in [1 .. LegCount -> Nat]  BY <3>1 DEF slack
    <3>3. \A i \in 1 .. LegCount : slack[i] \in Int  BY <3>2
    <3> QED  BY <3>3 DEF slack
  <2>4. SumFunctionOnSet(trip.slack, 1 .. LegCount)
          = SumFunctionOnSet(trip.slack, a .. b - 1)
    BY <1>3, <2>1, <2>2, <2>3, SumZeroOutside
  <2> QED  BY <1>3, <2>1, <2>4, SumIsOnDomain
<1> QED  BY <1>3, <1>4, Zenon DEF natural, total, parts

\* A stretched trip has its slack where and as _distribute_slack() says.
LEMMA TripSlackIsFair ==
  ASSUME NEW trip, NEW stops, NEW legs, NEW interval, NEW overrides,
         Posed(stops, legs, interval, overrides),
         Built(trip, stops, legs, interval, overrides), Timed(trip),
         trip.interval # NoInterval
  PROVE  LET night == From(trip) .. To(trip) - 1
             whole == SumFunctionOnSet(trip.legs, night)
             parts == IF whole > 0 THEN whole ELSE Cardinality(night)
             part(i) == IF whole > 0 THEN trip.legs[i] ELSE 1
             natural == whole + SumFunctionOnSet(trip.addon, night)
                          + (Cardinality(night) - 1) * MinDwell
             total == SumFunction(trip.slack)
         IN /\ total = Greatest(0, RequiredSpan - natural)
            /\ \A i \in DOMAIN trip.slack :
                 IF i \notin night THEN trip.slack[i] = 0
                 ELSE /\ trip.slack[i] * parts - total * part(i) < parts
                      /\ total * part(i) - trip.slack[i] * parts < parts
<1> DEFINE night == From(trip) .. To(trip) - 1
           whole == SumFunctionOnSet(trip.legs, night)
           parts == IF whole > 0 THEN whole ELSE Cardinality(night)
           part(i) == IF whole > 0 THEN trip.legs[i] ELSE 1
           natural == whole + SumFunctionOnSet(trip.addon, night)
                        + (Cardinality(night) - 1) * MinDwell
           total == SumFunction(trip.slack)
<1>1. PICK a, b \in 1 .. LegCount + 1 :
        /\ a < b /\ From(trip) = a /\ To(trip) = b
        /\ IndexOf(stops, interval[1]) = a
        /\ IndexOf(stops, interval[2]) = b
        /\ interval = <<stops[a], stops[b]>>
  BY IntervalOf
<1>2. night = a .. b - 1 /\ Cardinality(night) = b - a
  <2>1. night = a .. b - 1  BY <1>1
  <2>2. a \in Int /\ b - 1 \in Int /\ a <= b - 1  BY <1>1
  <2>3. Cardinality(a .. b - 1) = (b - 1) - a + 1
    BY <2>2, FS_Interval
  <2> HIDE DEF night
  <2> QED  BY <2>1, <2>2, <2>3
<1>3. /\ total = SlackNeeded(Natural(trip.legs, trip.addon, a, b))
      /\ \A i \in (1 .. LegCount) \ (a .. b - 1) : trip.slack[i] = 0
      /\ \A i \in a .. b - 1 :
           /\ trip.slack[i] * Parts(trip.legs, a .. b - 1)
                - total * Weight(trip.legs, a .. b - 1, i)
                  < Parts(trip.legs, a .. b - 1)
           /\ total * Weight(trip.legs, a .. b - 1, i)
                - trip.slack[i] * Parts(trip.legs, a .. b - 1)
                  < Parts(trip.legs, a .. b - 1)
  BY <1>1, TripSlack
<1>4. DOMAIN trip.slack = 1 .. LegCount  BY DEF Timed
<1>5. /\ parts = Parts(trip.legs, a .. b - 1)
      /\ \A i : part(i) = Weight(trip.legs, a .. b - 1, i)
  BY <1>2, Zenon DEF Parts, Weight
<1>6. natural = Natural(trip.legs, trip.addon, a, b)
  BY <1>2, Zenon DEF Natural
<1>7. total = Greatest(0, RequiredSpan - natural)
  BY <1>3, <1>6, Zenon DEF SlackNeeded
<1> HIDE DEF parts, part, natural, total
<1>8. ASSUME NEW i \in DOMAIN trip.slack
      PROVE  IF i \notin night THEN trip.slack[i] = 0
             ELSE /\ trip.slack[i] * parts - total * part(i) < parts
                  /\ total * part(i) - trip.slack[i] * parts < parts
  <2>1. CASE i \notin night
    <3>1. trip.slack[i] = 0  BY <1>2, <1>3, <1>4, <1>8, <2>1
    <3> QED  BY <2>1, <3>1
  <2>2. CASE i \in night
    <3>1. /\ trip.slack[i] * parts - total * part(i) < parts
          /\ total * part(i) - trip.slack[i] * parts < parts
      BY <1>2, <1>3, <1>5, <2>2, Zenon
    <3> QED  BY <2>2, <3>1
  <2> QED  BY <2>1, <2>2
<1> QED  BY <1>7, <1>8, Zenon DEF parts, part, natural, total

\* The clamped centre is a whole minute.
LEMMA FixedNightIsInteger ==
  ASSUME NEW span \in Int
  PROVE  FixedNightDeparture(span) \in Int
<1> DEFINE centre == RoundHalf(2 * Mirror - span)
<1>1. 2 * Mirror - span \in Int  BY NightAssumption
<1>2. centre \in Int  BY <1>1, RoundIsNearest
<1>3. FixedNightDeparture(span)
        = Greatest(Least(centre, NightStart - 1), NightEnd - span)
  BY Zenon DEF FixedNightDeparture
<1> HIDE DEF centre
<1> QED  BY <1>2, <1>3, NightAssumption DEF Greatest, Least

\* What a sum of slack and add-ons over part of the trip adds up to.
LEMMA ExtraAddsUp ==
  ASSUME NEW trip, Timed(trip), NEW S, S \subseteq 1 .. LegCount
  PROVE  /\ SumFunctionOnSet(Plus(trip.slack, trip.addon), S)
              = SumFunctionOnSet(trip.slack, S)
                  + SumFunctionOnSet(trip.addon, S)
         /\ SumFunctionOnSet(trip.slack, S) \in Nat
         /\ SumFunctionOnSet(trip.addon, S) \in Nat
         /\ SumFunctionOnSet(trip.legs, S) \in Nat
<1> DEFINE legs == trip.legs
           slack == trip.slack
           addon == trip.addon
<1>1. /\ legs \in [1 .. LegCount -> Nat] /\ slack \in [1 .. LegCount -> Nat]
      /\ addon \in [1 .. LegCount -> Nat] /\ LegCount \in Nat
  BY LineFacts DEF Timed
<1> HIDE DEF legs, slack, addon
<1>2. IsFiniteSet(S)
  <2>1. IsFiniteSet(1 .. LegCount)  BY <1>1, FS_Interval
  <2> QED  BY <2>1, FS_Subset
<1>3. \A i \in S : legs[i] \in Nat /\ slack[i] \in Nat /\ addon[i] \in Nat
  BY <1>1
<1>4. \A i \in S : /\ slack[i] \in Int /\ addon[i] \in Int
                   /\ Plus(slack, addon)[i] = slack[i] + addon[i]
  <2>1. \A i \in 1 .. LegCount : Plus(slack, addon)[i] = slack[i] + addon[i]
    BY <1>1, PlusOf
  <2> QED  BY <1>3, <2>1
<1>5. SumFunctionOnSet(Plus(slack, addon), S)
        = SumFunctionOnSet(slack, S) + SumFunctionOnSet(addon, S)
  BY <1>2, <1>4, SumOfTwo
<1>6. /\ SumFunctionOnSet(slack, S) \in Nat /\ SumFunctionOnSet(addon, S) \in Nat
      /\ SumFunctionOnSet(legs, S) \in Nat
  BY <1>2, <1>3, SumNatural
<1> QED  BY <1>5, <1>6, Zenon DEF legs, slack, addon

\* The stretched interval is wide enough for the night, and is placed by it.
LEMMA PlanFitsNight ==
  ASSUME NEW trip, NEW stops, NEW legs, NEW interval, NEW overrides,
         Posed(stops, legs, interval, overrides),
         Built(trip, stops, legs, interval, overrides), Timed(trip),
         NEW a \in 1 .. LegCount + 1, NEW b \in 1 .. LegCount + 1, a < b,
         interval = <<stops[a], stops[b]>>
  PROVE  LET span == Plan(trip).arr[b] - Plan(trip).dep[a]
             natural == Natural(trip.legs, trip.addon, a, b)
         IN  /\ Plan(trip).arr[b] \in Int /\ Plan(trip).dep[a] \in Int
             /\ natural \in Int
             /\ span = natural + SlackNeeded(natural)
             /\ span >= RequiredSpan
             /\ FixedNightDeparture(span) \in Int
             /\ Automatic(trip) = FixedNightDeparture(span) - Plan(trip).dep[a]
<1> DEFINE arr == Plan(trip).arr
           dep == Plan(trip).dep
           span == arr[b] - dep[a]
           natural == Natural(trip.legs, trip.addon, a, b)
           total == SlackNeeded(natural)
           night == a .. b - 1
           extra == Plus(trip.slack, trip.addon)
<1>1. /\ natural \in Int /\ total \in Nat
      /\ SumFunctionOnSet(trip.slack, night) = total
  BY TripSlack
<1>2. /\ trip.legs \in [1 .. LegCount -> Nat]
      /\ extra \in [1 .. LegCount -> Nat]
  <2>1. /\ trip.legs \in [1 .. LegCount -> Nat]
        /\ trip.slack \in [1 .. LegCount -> Nat]
        /\ trip.addon \in [1 .. LegCount -> Nat]
        /\ LegCount \in Nat
    BY LineFacts DEF Timed
  <2> QED  BY <2>1, PlusOf
<1>3. /\ arr[b] \in Int /\ dep[a] \in Int
      /\ arr[b] - dep[a] = SumFunctionOnSet(trip.legs, night)
                             + SumFunctionOnSet(extra, night)
                             + (b - a - 1) * MinDwell
  BY <1>2, OffsetsSpan, Zenon DEF Plan
<1>4. night \subseteq 1 .. LegCount
  BY LineFacts
<1>5. /\ SumFunctionOnSet(extra, night)
           = SumFunctionOnSet(trip.slack, night)
               + SumFunctionOnSet(trip.addon, night)
      /\ SumFunctionOnSet(trip.addon, night) \in Nat
      /\ SumFunctionOnSet(trip.legs, night) \in Nat
  <2> HIDE DEF extra, night
  <2> QED  BY <1>4, ExtraAddsUp DEF extra
<1>6. span = natural + total
  <2> DEFINE l == SumFunctionOnSet(trip.legs, night)
             s == SumFunctionOnSet(trip.addon, night)
             e == SumFunctionOnSet(extra, night)
             k == (b - a - 1) * MinDwell
  <2>1. k \in Int  BY MinDwellIsNatural
  <2>2. natural = l + s + k  BY DEF Natural
  <2>3. /\ e = total + s /\ s \in Nat /\ l \in Nat
        /\ arr[b] - dep[a] = l + e + k
    BY <1>1, <1>3, <1>5, Zenon
  <2> HIDE DEF l, s, e, k, natural, total, arr, dep
  <2> QED  BY <1>1, <1>3, <2>1, <2>2, <2>3
<1>7. span \in Int
  <2> HIDE DEF arr, dep
  <2> QED  BY <1>3
<1>8. span >= RequiredSpan
  <2> HIDE DEF span, natural
  <2> QED  BY <1>1, <1>6, StretchIsLeast
<1>9. FixedNightDeparture(span) \in Int
  <2> HIDE DEF span
  <2> QED  BY <1>7, FixedNightIsInteger
<1>10. Automatic(trip) = FixedNightDeparture(span) - dep[a]
  <2>1. trip.stops = stops /\ trip.interval = interval
    BY DEF Built
  <2>2. interval # NoInterval  BY DEF NoInterval
  <2>3. IndexOf(stops, interval[1]) = a /\ IndexOf(stops, interval[2]) = b
    <3>1. interval[1] = stops[a] /\ interval[2] = stops[b]  OBVIOUS
    <3>2. /\ stops \in [1 .. LegCount + 1 -> Stop]
          /\ \A i, j \in 1 .. LegCount + 1 : stops[i] = stops[j] => i = j
      BY DEF Posed
    <3>3. IndexOf(stops, stops[a]) = a /\ IndexOf(stops, stops[b]) = b
      BY <3>2, IndexFound
    <3> QED  BY <3>1, <3>3
  <2> QED  BY <2>1, <2>2, <2>3, Zenon
           DEF Automatic, AutomaticDeparture, FixedNight
<1> QED  BY <1>1, <1>3, <1>6, <1>8, <1>9, <1>10, Zenon

\* A stretched trip nobody moved keeps its interval over the night: its plan
\* does by the clamps, and real dwell only delays what comes after.
LEMMA TripHoldsWindow ==
  ASSUME NEW trip, NEW stops, NEW legs, NEW interval, NEW overrides,
         Posed(stops, legs, interval, overrides),
         Built(trip, stops, legs, interval, overrides), Timed(trip),
         trip.interval # NoInterval, trip.shift = 0
  PROVE  /\ trip.dep[From(trip)] - Excess(trip, From(trip)) < NightStart
         /\ trip.arr[To(trip)] >= NightEnd
         /\ \A i \in 1 .. From(trip) : trip.types[i] = "boarding"
         /\ \A i \in To(trip) .. Len(trip.stops) : trip.types[i] = "alighting"
<1> DEFINE arr == Plan(trip).arr
           dep == Plan(trip).dep
           m == LegCount
<1>0. /\ m \in Nat /\ m > 0 /\ m + 1 \in Nat  BY LineFacts
<1>1. PICK a, b \in 1 .. LegCount + 1 :
        /\ a < b /\ From(trip) = a /\ To(trip) = b
        /\ IndexOf(stops, interval[1]) = a
        /\ IndexOf(stops, interval[2]) = b
        /\ interval = <<stops[a], stops[b]>>
  BY IntervalOf
<1> DEFINE span == arr[b] - dep[a]
           night == FixedNightDeparture(span)
<1>2. /\ arr[b] \in Int /\ dep[a] \in Int
      /\ span >= RequiredSpan /\ night \in Int
      /\ Automatic(trip) = night - dep[a]
  BY <1>1, PlanFitsNight
<1>3. span \in Int
  <2> HIDE DEF arr, dep
  <2> QED  BY <1>2
<1>4. night < NightStart /\ night + span >= NightEnd
  <2> HIDE DEF span
  <2> QED  BY <1>2, <1>3, WindowAdmitted
<1>5. Leaves(trip) = night - dep[a] /\ Leaves(trip) \in Int
  <2> HIDE DEF night, arr, dep
  <2> QED  BY <1>2 DEF Leaves
<1>6. /\ arr \in [1 .. m + 1 -> Int] /\ dep \in [1 .. m + 1 -> Int]
      /\ dep[1] = 0
      /\ \A i \in 1 .. m + 1 : arr[i] <= dep[i]
      /\ \A i, j \in 1 .. m + 1 : i < j => dep[i] <= arr[j]
  BY PlanGoesOn
<1>7. /\ a \in 1 .. m /\ b - 1 \in 1 .. m /\ (b - 1) + 1 = b
      /\ trip.stops \in [1 .. m + 1 -> Stop] /\ Len(trip.stops) = m + 1
  <2>1. a \in 1 .. m /\ b - 1 \in 1 .. m /\ (b - 1) + 1 = b
    <3> HIDE DEF arr, dep
    <3> QED  BY <1>0, <1>1
  <2>2. trip.stops \in [1 .. m + 1 -> Stop]  BY DEF Posed, Built
  <2> QED  BY <1>0, <2>1, <2>2, LenOf
<1>8. /\ trip.dep[a] = Leaves(trip) + dep[a] + Late(trip, a)
      /\ trip.arr[b] = Leaves(trip) + arr[b] + Late(trip, b - 1)
      /\ Late(trip, a) \in Nat /\ Late(trip, b - 1) \in Nat
      /\ Excess(trip, a) = Late(trip, a)
  BY <1>7, TripFollowsPlan, LateGrows, ExcessIsLate, ZenonT(30)
<1>9. trip.types = ClassifyStops(Leaves(trip), Plan(trip))
  BY DEF Timed
<1>10. DOMAIN arr = 1 .. m + 1 /\ Len(arr) = m + 1
  BY <1>0, <1>6, LenOf
<1>11. \A i \in 1 .. m + 1 :
         trip.types[i] =
           IF i = 1 THEN "boarding"
           ELSE IF i = m + 1 THEN "alighting"
           ELSE ClassifyStopType(Leaves(trip) + arr[i], Leaves(trip) + dep[i])
  BY <1>9, <1>10, Zenon DEF ClassifyStops
<1> HIDE DEF arr, dep
<1>12. trip.dep[a] - Excess(trip, a) < NightStart
  <2> HIDE DEF night
  <2>1. trip.dep[a] - Excess(trip, a) = night  BY <1>2, <1>5, <1>8
  <2> QED  BY <1>4, <2>1
<1>13. Leaves(trip) + arr[b] >= NightEnd
  <2> HIDE DEF night
  <2>1. Leaves(trip) + arr[b] = night + (arr[b] - dep[a])  BY <1>2, <1>5
  <2> QED  BY <1>4, <2>1
<1>14. trip.arr[b] >= NightEnd
  <2>1. Leaves(trip) + arr[b] \in Int  BY <1>2, <1>5
  <2> QED  BY <1>8, <1>13, <2>1, NightAssumption
<1>15. ASSUME NEW i \in 1 .. a  PROVE trip.types[i] = "boarding"
  <2>1. i \in 1 .. m + 1 /\ a \in 1 .. m + 1 /\ i # m + 1 /\ i <= a
    BY <1>0, <1>1, <1>7
  <2>2. dep[i] <= dep[a] /\ dep[i] \in Int /\ arr[i] \in Int
    <3>1. CASE i = a  BY <1>2, <1>6, <3>1
    <3>2. CASE i # a
      <4>1. i < a  BY <2>1, <3>2
      <4>2. /\ dep[i] <= arr[a] /\ arr[a] <= dep[a]
            /\ dep[i] \in Int /\ arr[a] \in Int /\ arr[i] \in Int
        BY <1>6, <2>1, <4>1
      <4> QED  BY <1>2, <4>2
    <3> QED  BY <3>1, <3>2
  <2>3. Leaves(trip) + dep[i] < NightStart
    <3> HIDE DEF night
    <3>1. Leaves(trip) + dep[a] = night  BY <1>2, <1>5
    <3> QED  BY <1>2, <1>4, <1>5, <2>2, <3>1, NightAssumption
  <2>4. ClassifyStopType(Leaves(trip) + arr[i], Leaves(trip) + dep[i])
          = "boarding"
    BY <2>3 DEF ClassifyStopType
  <2> QED  BY <1>11, <2>1, <2>4, Zenon
<1>16. ASSUME NEW i \in b .. Len(trip.stops)
       PROVE  trip.types[i] = "alighting"
  <2>1. i \in 1 .. m + 1 /\ i # 1 /\ b <= i /\ b \in 1 .. m + 1
    BY <1>0, <1>1, <1>7
  <2>2. arr[b] <= arr[i] /\ arr[i] \in Int /\ dep[i] \in Int /\ arr[i] <= dep[i]
    <3>1. arr[i] \in Int /\ dep[i] \in Int /\ arr[i] <= dep[i]
      BY <1>6, <2>1
    <3>2. CASE i = b  BY <3>1, <3>2
    <3>3. CASE i # b
      <4>1. b < i  BY <2>1, <3>3
      <4>2. arr[b] <= dep[b] /\ dep[b] <= arr[i] /\ dep[b] \in Int
        BY <1>6, <2>1, <4>1
      <4> QED  BY <1>2, <3>1, <4>2
    <3> QED  BY <3>1, <3>2, <3>3
  <2>3. CASE i = m + 1  BY <1>11, <2>1, <2>3, Zenon
  <2>4. CASE i # m + 1
    <3> DEFINE x == Leaves(trip) + arr[i]
               y == Leaves(trip) + dep[i]
    <3>1. x \in Int /\ y \in Int /\ x >= NightEnd /\ y >= x
      <4> DEFINE l == Leaves(trip)
                 u == arr[i]
                 v == dep[i]
                 w == arr[b]
      <4>1. /\ l \in Int /\ u \in Int /\ v \in Int /\ w \in Int
            /\ l + w >= NightEnd /\ w <= u /\ u <= v
        BY <1>2, <1>5, <1>13, <2>2
      <4> HIDE DEF l, u, v, w
      <4>2. l + u \in Int /\ l + v \in Int /\ l + u >= NightEnd /\ l + v >= l + u
        BY <4>1, NightAssumption
      <4> QED  BY <4>2, Zenon DEF l, u, v, w
    <3> HIDE DEF x, y
    <3>2. ClassifyStopType(x, y) = "alighting"
      BY <3>1, NightAssumption DEF ClassifyStopType
    <3> QED  BY <1>11, <2>1, <2>4, <3>2, Zenon DEF x, y
  <2> QED  BY <2>3, <2>4
<1> QED  BY <1>1, <1>12, <1>14, <1>15, <1>16, Zenon
(***************************************************************************)
(* The other direction: everything turned around.                          *)
(***************************************************************************)

\* A reversed list, index by index.
LEMMA BackwardsOf ==
  ASSUME NEW n \in Nat, NEW S, NEW s \in [1 .. n -> S]
  PROVE  /\ Backwards(s) \in [1 .. n -> S]
         /\ \A i \in 1 .. n : Backwards(s)[i] = s[n + 1 - i]
<1>1. DOMAIN s = 1 .. n /\ Len(s) = n  BY LenOf
<1>2. Backwards(s) = [i \in 1 .. n |-> s[n + 1 - i]]
  BY <1>1, Zenon DEF Backwards
<1>3. \A i \in 1 .. n : n + 1 - i \in 1 .. n  OBVIOUS
<1> QED  BY <1>2, <1>3

\* An interval reversed.
LEMMA BackwardsInterval ==
  ASSUME NEW x, NEW y
  PROVE  Backwards(<<x, y>>) = <<y, x>> /\ Backwards(NoInterval) = NoInterval
<1>1. Backwards(<<x, y>>) = <<y, x>>
  <2>1. <<x, y>> \in [1 .. 2 -> {x, y}] /\ <<y, x>> \in Seq({x, y})
        /\ Len(<<y, x>>) = 2
    OBVIOUS
  <2>2. /\ Backwards(<<x, y>>) \in [1 .. 2 -> {x, y}]
        /\ \A i \in 1 .. 2 : Backwards(<<x, y>>)[i] = <<x, y>>[2 + 1 - i]
    <3> DEFINE s == <<x, y>>
               T == {x, y}
    <3>1. DOMAIN s = 1 .. 2 /\ Len(s) = 2 /\ s \in [1 .. 2 -> T]
      BY <2>1
    <3> HIDE DEF s, T
    <3>2. Backwards(s) = [i \in 1 .. 2 |-> s[2 + 1 - i]]
      BY <3>1 DEF Backwards
    <3>3. \A i \in 1 .. 2 : 2 + 1 - i \in 1 .. 2  OBVIOUS
    <3>4. \A i \in 1 .. 2 : s[2 + 1 - i] \in T  BY <3>1, <3>3
    <3>5. /\ Backwards(s) \in [1 .. 2 -> T]
          /\ \A i \in 1 .. 2 : Backwards(s)[i] = s[2 + 1 - i]
      BY <3>2, <3>4
    <3> QED  BY <3>5 DEF s, T
  <2>3. /\ Backwards(<<x, y>>) \in Seq({x, y}) /\ Len(Backwards(<<x, y>>)) = 2
    BY <2>2, LenOf
  <2>4. \A i \in 1 .. 2 : Backwards(<<x, y>>)[i] = <<y, x>>[i]
    <3>1. Backwards(<<x, y>>)[1] = y /\ Backwards(<<x, y>>)[2] = x  BY <2>2
    <3>2. \A i \in 1 .. 2 : i = 1 \/ i = 2  OBVIOUS
    <3> QED  BY <3>1, <3>2
  <2> QED  BY <2>1, <2>3, <2>4, SeqEqual
<1>2. Backwards(NoInterval) = NoInterval
  <2>1. NoInterval \in [1 .. 0 -> {x}] /\ NoInterval \in Seq({x})
        /\ Len(NoInterval) = 0
    BY DEF NoInterval
  <2>2. Backwards(NoInterval) \in [1 .. 0 -> {x}]
    <3>1. 0 \in Nat  OBVIOUS
    <3> QED  BY <2>1, <3>1, BackwardsOf, Zenon
  <2>3. /\ Backwards(NoInterval) \in Seq({x}) /\ Len(Backwards(NoInterval)) = 0
    BY <2>2, LenOf
  <2> QED  BY <2>1, <2>3, SeqEqual
<1> QED  BY <1>1, <1>2

\* The terms f has over S are those g has over U, each in another place.
Paired(S, f, g, to, U) ==
  /\ IsFiniteSet(S) /\ \A x \in S : f[x] \in Int /\ f[x] = g[to[x]]
  /\ \A x \in S : \A y \in S : to[x] = to[y] => x = y
  /\ \A x \in S : to[x] \in U
  /\ \A u \in U : \E x \in S : to[x] = u

\* Sums whose terms pair off are equal.
LEMMA SumPaired ==
  ASSUME NEW S, NEW f, NEW g, NEW to, NEW U, Paired(S, f, g, to, U)
  PROVE  SumFunctionOnSet(f, S) = SumFunctionOnSet(g, U)
<1>1. /\ IsFiniteSet(S) /\ \A x \in S : f[x] \in Int /\ f[x] = g[to[x]]
      /\ \A x \in S : \A y \in S : to[x] = to[y] => x = y
  BY DEF Paired
<1>2. SumFunctionOnSet(f, S) = SumFunctionOnSet(g, {to[x] : x \in S})
  BY <1>1, SumReindexed
<1>3. {to[x] : x \in S} = U  BY DEF Paired
<1> QED  BY <1>2, <1>3

TurnedAround(m, f, g) ==
  /\ m \in Nat /\ f \in [1 .. m -> Nat] /\ g \in [1 .. m -> Nat]
  /\ \A i \in 1 .. m : g[i] = f[m + 1 - i]

\* Turned around, a sum over legs c..d is a sum over the same legs.
LEMMA SumTurned ==
  ASSUME NEW m, NEW f, NEW g, TurnedAround(m, f, g)
  PROVE  \A c, d \in Int : 1 <= c /\ d <= m =>
           SumFunctionOnSet(f, c .. d)
             = SumFunctionOnSet(g, m + 1 - d .. m + 1 - c)
<1>0. /\ m \in Nat /\ f \in [1 .. m -> Nat] /\ g \in [1 .. m -> Nat]
      /\ \A i \in 1 .. m : g[i] = f[m + 1 - i]
  BY DEF TurnedAround
<1> USE <1>0
<1> SUFFICES ASSUME NEW c \in Int, NEW d \in Int, 1 <= c, d <= m
             PROVE  SumFunctionOnSet(f, c .. d)
                      = SumFunctionOnSet(g, m + 1 - d .. m + 1 - c)
  OBVIOUS
<1> DEFINE to == [i \in c .. d |-> m + 1 - i]
<1>1. IsFiniteSet(c .. d)  BY FS_Interval
<1>2. \A i \in c .. d : f[i] \in Int /\ f[i] = g[to[i]]
  <2> TAKE i \in c .. d
  <2>1. i \in 1 .. m /\ m + 1 - i \in 1 .. m /\ m + 1 - (m + 1 - i) = i
    OBVIOUS
  <2>2. g[m + 1 - i] = f[i]  BY <2>1
  <2>3. to[i] = m + 1 - i  OBVIOUS
  <2> QED  BY <2>1, <2>2, <2>3
<1>3. \A i \in c .. d : \A j \in c .. d : to[i] = to[j] => i = j  OBVIOUS
<1>4. \A i \in c .. d : to[i] \in m + 1 - d .. m + 1 - c  OBVIOUS
<1>5. ASSUME NEW k \in m + 1 - d .. m + 1 - c
      PROVE  \E i \in c .. d : to[i] = k
  <2>1. m + 1 - k \in c .. d /\ to[m + 1 - k] = k  OBVIOUS
  <2> QED  BY <2>1
<1> HIDE DEF to
<1> DEFINE S == c .. d
           U == m + 1 - d .. m + 1 - c
<1> HIDE DEF S, U
<1>6. /\ IsFiniteSet(S) /\ \A i \in S : f[i] \in Int /\ f[i] = g[to[i]]
      /\ \A i \in S : \A j \in S : to[i] = to[j] => i = j
      /\ \A i \in S : to[i] \in U
  BY <1>1, <1>2, <1>3, <1>4, Zenon DEF S, U
<1>7. \A u \in U : \E i \in S : to[i] = u  BY <1>5, Zenon DEF S, U
<1>8. SumFunctionOnSet(f, S) = SumFunctionOnSet(g, U)
  <2>1. Paired(S, f, g, to, U)  BY <1>6, <1>7, Zenon DEF Paired
  <2> QED  BY <2>1, SumPaired
<1> QED  BY <1>8, Zenon DEF S, U

Turned(a) == [from |-> a.to, to |-> a.from, minutes |-> a.minutes]

\* Mirrored add-ons are add-ons again, each turned around.
LEMMA MirroredAddons ==
  ASSUME NEW overrides, NEW shift,
         IsFiniteSet(overrides.addons), overrides.addons \subseteq Addon
  PROVE  LET mirrored == MirrorOverrides(overrides, shift).addons
         IN  /\ mirrored = {Turned(a) : a \in overrides.addons}
             /\ IsFiniteSet(mirrored) /\ mirrored \subseteq Addon
<1> DEFINE addons == overrides.addons
           mirrored == {Turned(a) : a \in addons}
           to == [a \in addons |-> Turned(a)]
<1>1. MirrorOverrides(overrides, shift).addons = mirrored
  BY DEF MirrorOverrides, Turned
<1>2. to \in Surjection(addons, mirrored)
  BY DEF Surjection
<1>3. IsFiniteSet(mirrored)  BY <1>2, FS_Surjection
<1>4. mirrored \subseteq Addon  BY DEF Addon, Turned
<1> QED  BY <1>1, <1>3, <1>4

\* A mirrored departure is the automatic one, shifted the other way.
LEMMA MirroredDeparture ==
  ASSUME NEW overrides, NEW shift \in Int
  PROVE  LET departure == MirrorOverrides(overrides, shift).departure
         IN  /\ departure \in Departure
             /\ \A automatic \in Int :
                  ResolveDeparture(automatic, departure) = automatic - shift
<1> DEFINE departure == MirrorOverrides(overrides, shift).departure
<1>1. CASE shift = 0
  <2>1. departure = [mode |-> "automatic", minutes |-> 0]
    BY <1>1 DEF MirrorOverrides, NoDeparture
  <2> HIDE DEF departure
  <2>2. departure \in Departure  BY <2>1 DEF Departure
  <2>3. \A automatic \in Int :
          ResolveDeparture(automatic, departure) = automatic - shift
    BY <1>1, <2>1 DEF ResolveDeparture
  <2> QED  BY <2>2, <2>3 DEF departure
<1>2. CASE shift # 0
  <2>1. departure = [mode |-> "shift", minutes |-> -shift]
    BY <1>2 DEF MirrorOverrides
  <2> HIDE DEF departure
  <2>2. departure \in Departure  BY <2>1 DEF Departure
  <2>3. \A automatic \in Int :
          ResolveDeparture(automatic, departure) = automatic - shift
    BY <2>1 DEF ResolveDeparture
  <2> QED  BY <2>2, <2>3 DEF departure
<1> QED  BY <1>1, <1>2

\* The add-ons of the other direction sit on the same legs, turned around.
LEMMA AddonsTurn ==
  ASSUME NEW stops \in [1 .. LegCount + 1 -> Stop], NEW addons,
         IsFiniteSet(addons), addons \subseteq Addon
  PROVE  \A i \in 1 .. LegCount :
           ResolveAddons(Backwards(stops), {Turned(a) : a \in addons})[i]
             = ResolveAddons(stops, addons)[LegCount + 1 - i]
<1> DEFINE m == LegCount
           back == Backwards(stops)
           turned == {Turned(a) : a \in addons}
<1>1. /\ m \in Nat /\ m + 1 \in Nat /\ Len(stops) = m + 1
      /\ back \in [1 .. m + 1 -> Stop] /\ Len(back) = m + 1
      /\ \A i \in 1 .. m + 1 : back[i] = stops[m + 1 + 1 - i]
  <2>1. m \in Nat /\ m + 1 \in Nat  BY LineFacts
  <2>2. Len(stops) = m + 1  BY <2>1, LenOf
  <2>3. /\ back \in [1 .. m + 1 -> Stop]
        /\ \A i \in 1 .. m + 1 : back[i] = stops[m + 1 + 1 - i]
    BY <2>1, BackwardsOf, SMTT(30)
  <2>4. Len(back) = m + 1
    <3> HIDE DEF back
    <3> QED  BY <2>1, <2>3, LenOf
  <2> QED  BY <2>1, <2>2, <2>3, <2>4
<1> HIDE DEF back
<1> SUFFICES ASSUME NEW i \in 1 .. m
             PROVE  ResolveAddons(back, turned)[i]
                      = ResolveAddons(stops, addons)[m + 1 - i]
  BY DEF back
<1> DEFINE j == m + 1 - i
           here == {a \in addons : a.from = stops[j] /\ a.to = stops[j + 1]}
           there == {a \in turned : a.from = back[i] /\ a.to = back[i + 1]}
           f == [a \in here |-> a.minutes]
           g == [a \in there |-> a.minutes]
           to == [a \in here |-> Turned(a)]
<1>2. /\ i \in 1 .. Len(back) - 1 /\ j \in 1 .. Len(stops) - 1
      /\ i \in 1 .. m + 1 /\ i + 1 \in 1 .. m + 1
      /\ m + 1 + 1 - i = j + 1 /\ m + 1 + 1 - (i + 1) = j
  BY <1>1
<1>3. back[i] = stops[j + 1] /\ back[i + 1] = stops[j]
  <2>1. back[i] = stops[m + 1 + 1 - i]  BY <1>1, <1>2
  <2>2. back[i + 1] = stops[m + 1 + 1 - (i + 1)]  BY <1>1, <1>2
  <2> HIDE DEF j
  <2> QED  BY <1>2, <2>1, <2>2
<1>4. /\ ResolveAddons(stops, addons)[j] = SumFunction(f)
      /\ ResolveAddons(back, turned)[i] = SumFunction(g)
  <2> HIDE DEF j, turned
  <2> QED  BY <1>2, Zenon DEF ResolveAddons
<1> HIDE DEF j
<1>5. \A a \in addons : /\ Turned(a).from = a.to /\ Turned(a).to = a.from
                        /\ Turned(a).minutes = a.minutes
  BY DEF Turned
<1>6. there = {to[a] : a \in here}
  <2>1. ASSUME NEW a \in here  PROVE to[a] \in there
    <3>1. a \in addons /\ Turned(a) \in turned /\ to[a] = Turned(a)  OBVIOUS
    <3>2. Turned(a).from = back[i] /\ Turned(a).to = back[i + 1]
      BY <1>3, <1>5, <3>1
    <3> HIDE DEF turned, to
    <3> QED  BY <3>1, <3>2
  <2>2. ASSUME NEW x \in there  PROVE \E a \in here : to[a] = x
    <3>1. PICK a \in addons : x = Turned(a)  OBVIOUS
    <3>2. a.from = stops[j] /\ a.to = stops[j + 1]
      BY <1>3, <1>5, <3>1
    <3>3. a \in here /\ to[a] = x  BY <3>1, <3>2
    <3> HIDE DEF here, to
    <3> QED  BY <3>3
  <2> HIDE DEF there, here, to
  <2> QED  BY <2>1, <2>2
<1>7. \A a \in here : f[a] \in Int /\ f[a] = g[to[a]]
  <2> TAKE a \in here
  <2>1. to[a] \in there  BY <1>6
  <2>2. to[a] = Turned(a) /\ a \in addons  OBVIOUS
  <2>3. g[to[a]] = Turned(a).minutes /\ f[a] = a.minutes
    <3> HIDE DEF there, here
    <3> QED  BY <2>1, <2>2
  <2>4. a.minutes \in Nat  BY <2>2 DEF Addon
  <2> QED  BY <1>5, <2>2, <2>3, <2>4
<1>8. \A a \in here : \A b \in here : to[a] = to[b] => a = b
  <2> SUFFICES ASSUME NEW a \in here, NEW b \in here, to[a] = to[b]
               PROVE  a = b
    OBVIOUS
  <2>1. a \in Addon /\ b \in Addon /\ Turned(a) = Turned(b)  OBVIOUS
  <2>2. a.from = b.from /\ a.to = b.to /\ a.minutes = b.minutes
    BY <1>5, <2>1
  <2> QED  BY <2>1, <2>2 DEF Addon
<1>9. IsFiniteSet(here)  BY FS_Subset
<1>10. SumFunction(f) = SumFunctionOnSet(f, here)
       /\ SumFunction(g) = SumFunctionOnSet(g, there)
  <2>1. DOMAIN f = here /\ DOMAIN g = there  OBVIOUS
  <2> HIDE DEF f, g, here, there
  <2> QED  BY <2>1, SumIsOnDomain
<1>11. SumFunctionOnSet(f, here) = SumFunctionOnSet(g, {to[a] : a \in here})
  <2> HIDE DEF f, g, here, there, to
  <2> QED  BY <1>7, <1>8, <1>9, SumReindexed
<1>12. ResolveAddons(back, turned)[i] = ResolveAddons(stops, addons)[j]
  <2> HIDE DEF f, g, here, there, to
  <2> QED  BY <1>4, <1>6, <1>10, <1>11
<1> QED  BY <1>12 DEF j

\* What the legs S of a trip take, slack and add-ons included.
Took(trip, S) ==
  SumFunctionOnSet(trip.legs, S) + SumFunctionOnSet(trip.slack, S)
    + SumFunctionOnSet(trip.addon, S)

\* Legs never take a negative time.
LEMMA TookIsNatural ==
  ASSUME NEW trip, Timed(trip), NEW S, S \subseteq 1 .. LegCount
  PROVE  Took(trip, S) \in Nat
<1>1. /\ SumFunctionOnSet(trip.slack, S) \in Nat
      /\ SumFunctionOnSet(trip.addon, S) \in Nat
      /\ SumFunctionOnSet(trip.legs, S) \in Nat
  BY ExtraAddsUp
<1> QED  BY <1>1 DEF Took

\* No legs take no time.
LEMMA TookNothing ==
  ASSUME NEW trip, NEW S, S = {}
  PROVE  Took(trip, S) = 0
<1>1. /\ SumFunctionOnSet(trip.legs, S) = 0
      /\ SumFunctionOnSet(trip.slack, S) = 0
      /\ SumFunctionOnSet(trip.addon, S) = 0
  BY SumOfNone
<1> QED  BY <1>1 DEF Took

\* From one stop to a later one a plan spends the legs and the dwells between.
LEMMA PlanSpan ==
  ASSUME NEW trip, Timed(trip),
         NEW a \in 1 .. LegCount + 1, NEW b \in 1 .. LegCount + 1, a < b
  PROVE  /\ Plan(trip).arr[b] \in Int /\ Plan(trip).dep[a] \in Int
         /\ Plan(trip).arr[b] - Plan(trip).dep[a]
              = Took(trip, a .. b - 1) + (b - a - 1) * MinDwell
<1> DEFINE S == a .. b - 1
           extra == Plus(trip.slack, trip.addon)
           k == (b - a - 1) * MinDwell
           span == Plan(trip).arr[b] - Plan(trip).dep[a]
<1>1. /\ trip.legs \in [1 .. LegCount -> Nat]
      /\ extra \in [1 .. LegCount -> Nat]
  <2>1. /\ trip.legs \in [1 .. LegCount -> Nat]
        /\ trip.slack \in [1 .. LegCount -> Nat]
        /\ trip.addon \in [1 .. LegCount -> Nat]
        /\ LegCount \in Nat
    BY LineFacts DEF Timed
  <2> QED  BY <2>1, PlusOf
<1>2. /\ Plan(trip).arr[b] \in Int /\ Plan(trip).dep[a] \in Int
      /\ span = SumFunctionOnSet(trip.legs, S) + SumFunctionOnSet(extra, S) + k
  BY <1>1, OffsetsSpan, Zenon DEF Plan
<1>3. S \subseteq 1 .. LegCount  BY LineFacts
<1>4. k \in Int  BY MinDwellIsNatural
<1> HIDE DEF S, k, span
<1>5. /\ SumFunctionOnSet(extra, S)
           = SumFunctionOnSet(trip.slack, S) + SumFunctionOnSet(trip.addon, S)
      /\ SumFunctionOnSet(trip.slack, S) \in Nat
      /\ SumFunctionOnSet(trip.addon, S) \in Nat
      /\ SumFunctionOnSet(trip.legs, S) \in Nat
  BY <1>3, ExtraAddsUp
<1> HIDE DEF extra
<1>6. span = Took(trip, S) + k
  BY <1>2, <1>4, <1>5 DEF Took
<1> QED  BY <1>2, <1>6, Zenon DEF S, k, span

\* At a stop in between a plan stands the least dwell.
LEMMA PlanStands ==
  ASSUME NEW trip, Timed(trip), NEW i \in 2 .. LegCount
  PROVE  /\ Plan(trip).dep[i] = Plan(trip).arr[i] + MinDwell
         /\ Plan(trip).arr[i] \in Int
<1> DEFINE arr == Plan(trip).arr
           dep == Plan(trip).dep
<1>1. i \in 1 .. LegCount + 1 /\ i \notin {1, LegCount + 1}  BY LineFacts
<1>2. /\ arr \in [1 .. LegCount + 1 -> Int]
      /\ dep[i] = arr[i] + (IF i \in {1, LegCount + 1} THEN 0
                            ELSE LeastStand[i])
  BY <1>1 DEF Timed, IsWalk
<1>3. LeastStand[i] = MinDwell  BY <1>1 DEF LeastStand
<1> HIDE DEF arr, dep
<1>4. dep[i] = arr[i] + MinDwell /\ arr[i] \in Int
  BY <1>1, <1>2, <1>3
<1> QED  BY <1>4 DEF arr, dep

\* When a plan leaves a stop, and how far from the end it reaches one.
LEMMA PlanBefore ==
  ASSUME NEW trip, Timed(trip), NEW a \in 1 .. LegCount
  PROVE  /\ Plan(trip).dep[a] \in Int
         /\ Plan(trip).dep[a] = Took(trip, 1 .. a - 1) + (a - 1) * MinDwell
<1> DEFINE arr == Plan(trip).arr
           dep == Plan(trip).dep
           d == MinDwell
<1>0. d \in Int /\ LegCount \in Nat  BY LineFacts, MinDwellIsNatural
<1>1. dep[1] = 0  BY PlanGoesOn
<1>2. CASE a = 1
  <2>1. 1 .. a - 1 = {}  BY <1>2
  <2>2. Took(trip, 1 .. a - 1) = 0  BY <2>1, TookNothing
  <2> HIDE DEF dep, d
  <2>3. (a - 1) * d = 0  BY <1>0, <1>2
  <2>4. dep[a] = 0  BY <1>1, <1>2
  <2>5. dep[a] = Took(trip, 1 .. a - 1) + (a - 1) * d /\ dep[a] \in Int
    BY <2>2, <2>3, <2>4
  <2> QED  BY <2>5 DEF dep, d
<1>3. CASE a # 1
  <2>1. /\ a \in 2 .. LegCount /\ a \in 1 .. LegCount + 1
        /\ 1 \in 1 .. LegCount + 1 /\ 1 < a /\ 1 .. a - 1 \subseteq 1 .. LegCount
    BY <1>0, <1>3
  <2> DEFINE t == Took(trip, 1 .. a - 1)
             k == (a - 1 - 1) * d
  <2>2. arr[a] \in Int /\ arr[a] - dep[1] = t + k
    BY <2>1, PlanSpan
  <2>3. dep[a] = arr[a] + d  BY <2>1, PlanStands
  <2>4. t \in Int  BY <2>1, TookIsNatural
  <2>5. k \in Int /\ (a - 1) * d = k + d
    <3> HIDE DEF d
    <3> QED  BY <1>0
  <2> HIDE DEF arr, dep, t, k, d
  <2>6. dep[a] = t + (k + d) /\ dep[a] \in Int
    BY <1>0, <1>1, <2>2, <2>3, <2>4, <2>5
  <2>7. dep[a] = t + (a - 1) * d  BY <2>5, <2>6
  <2> QED  BY <2>6, <2>7, Zenon DEF dep, t, d
<1> QED  BY <1>2, <1>3

\* What is left of a plan from its arrival at a stop.
LEMMA PlanAfter ==
  ASSUME NEW trip, Timed(trip), NEW b \in 2 .. LegCount + 1
  PROVE  LET arr == Plan(trip).arr
             n == LegCount + 1
         IN  /\ arr[b] \in Int /\ arr[n] \in Int
             /\ arr[n] - arr[b] = Took(trip, b .. LegCount) + (n - b) * MinDwell
<1> DEFINE n == LegCount + 1
           arr == Plan(trip).arr
           dep == Plan(trip).dep
           d == MinDwell
<1>0. d \in Int /\ LegCount \in Nat /\ n \in 1 .. n /\ b \in 1 .. n
  BY LineFacts, MinDwellIsNatural
<1>1. arr[b] \in Int /\ arr[n] \in Int
  <2>1. arr \in [1 .. LegCount + 1 -> Int]  BY PlanGoesOn
  <2> HIDE DEF arr
  <2> QED  BY <1>0, <2>1
<1> SUFFICES arr[n] - arr[b] = Took(trip, b .. LegCount) + (n - b) * d
  <2> HIDE DEF arr, n, d
  <2>1. ASSUME arr[n] - arr[b] = Took(trip, b .. LegCount) + (n - b) * d
        PROVE  /\ arr[b] \in Int /\ arr[n] \in Int
               /\ arr[n] - arr[b] = Took(trip, b .. LegCount) + (n - b) * d
    BY <1>1, <2>1
  <2> QED  BY <2>1, Zenon DEF arr, n, d
<1>2. CASE b = n
  <2>1. b .. LegCount = {}  BY <1>0, <1>2
  <2>2. Took(trip, b .. LegCount) = 0  BY <2>1, TookNothing
  <2>3. (n - b) * d = 0
    <3> HIDE DEF d
    <3> QED  BY <1>0, <1>2
  <2> HIDE DEF arr, d
  <2>4. arr[n] - arr[b] = Took(trip, b .. LegCount) + (n - b) * d
    <3>1. arr[n] - arr[b] = 0  BY <1>1, <1>2
    <3> QED  BY <2>2, <2>3, <3>1
  <2> QED  BY <2>4 DEF arr, d
<1>3. CASE b # n
  <2>1. /\ b \in 2 .. LegCount /\ b < n /\ n - 1 = LegCount
        /\ b .. LegCount \subseteq 1 .. LegCount
    BY <1>0, <1>3
  <2> DEFINE t == Took(trip, b .. LegCount)
             k == (n - b - 1) * d
  <2>2. dep[b] \in Int /\ arr[n] - dep[b] = t + k
    <3>1. /\ dep[b] \in Int
          /\ arr[n] - dep[b] = Took(trip, b .. n - 1) + (n - b - 1) * d
      BY <1>0, <2>1, PlanSpan
    <3> HIDE DEF n, arr, dep, d
    <3> QED  BY <2>1, <3>1, Zenon
  <2>3. dep[b] = arr[b] + d  BY <2>1, PlanStands
  <2>4. t \in Int
    <3>1. Took(trip, b .. LegCount) \in Nat  BY <2>1, TookIsNatural
    <3> HIDE DEF arr, dep
    <3> QED  BY <3>1
  <2>5. k \in Int /\ (n - b) * d = k + d
    <3> HIDE DEF d
    <3> QED  BY <1>0
  <2> HIDE DEF arr, dep, t, k, d
  <2>6. arr[n] - arr[b] = t + (k + d)
    BY <1>0, <1>1, <2>2, <2>3, <2>4, <2>5
  <2>7. arr[n] - arr[b] = t + (n - b) * d  BY <2>5, <2>6
  <2> QED  BY <2>7 DEF arr, t, d
<1> QED  BY <1>2, <1>3

\* A posted line turned around is one that could have been posted.
LEMMA TurnedIsPosed ==
  ASSUME NEW stops, NEW legs, NEW interval, NEW overrides,
         Posed(stops, legs, interval, overrides),
         NEW back \in [1 .. LegCount -> Nat], NEW other,
         other.departure \in Departure,
         IsFiniteSet(other.addons), other.addons \subseteq Addon
  PROVE  Posed(Backwards(stops), back, Backwards(interval), other)
<1> DEFINE n == LegCount + 1
           turned == Backwards(stops)
<1>1. /\ n \in Nat /\ stops \in [1 .. n -> Stop]
      /\ \A i, j \in 1 .. n : stops[i] = stops[j] => i = j
  BY LineFacts DEF Posed
<1> HIDE DEF n
<1>2. /\ turned \in [1 .. n -> Stop]
      /\ \A i \in 1 .. n : turned[i] = stops[n + 1 - i]
  <2>1. n \in Nat  BY <1>1
  <2>2. stops \in [1 .. n -> Stop]  BY <1>1
  <2>3. Backwards(stops) \in [1 .. n -> Stop]  BY <2>1, <2>2, BackwardsOf
  <2>4. \A i \in 1 .. n : Backwards(stops)[i] = stops[n + 1 - i]
    <3>1. DOMAIN stops = 1 .. n /\ Len(stops) = n  BY <2>1, <2>2, LenOf
    <3> QED  BY <3>1 DEF Backwards
  <2> QED  BY <2>3, <2>4
<1>3. ASSUME NEW i \in 1 .. n, NEW j \in 1 .. n, turned[i] = turned[j]
      PROVE  i = j
  <2>1. n + 1 - i \in 1 .. n /\ n + 1 - j \in 1 .. n  BY <1>1
  <2>2. stops[n + 1 - i] = stops[n + 1 - j]  BY <1>2, <1>3
  <2>3. n + 1 - i = n + 1 - j  BY <1>1, <2>1, <2>2
  <2> QED  BY <1>1, <2>3
<1>4. \/ Backwards(interval) = NoInterval
      \/ \E a, b \in 1 .. n :
           a < b /\ Backwards(interval) = <<turned[a], turned[b]>>
  <2>1. CASE interval = NoInterval  BY <2>1, BackwardsInterval
  <2>2. CASE interval # NoInterval
    <3>1. PICK a, b \in 1 .. n : a < b /\ interval = <<stops[a], stops[b]>>
      BY <2>2 DEF Posed, n
    <3>2. Backwards(interval) = <<stops[b], stops[a]>>
      BY <3>1, BackwardsInterval
    <3> DEFINE c == n + 1 - b
               e == n + 1 - a
    <3>3. /\ c \in 1 .. n /\ e \in 1 .. n /\ c < e
          /\ n + 1 - c = b /\ n + 1 - e = a
      BY <1>1, <3>1
    <3> HIDE DEF c, e
    <3>4. turned[c] = stops[b] /\ turned[e] = stops[a]  BY <1>2, <3>3
    <3> QED  BY <3>2, <3>3, <3>4
  <2> QED  BY <2>1, <2>2
<1> QED  BY <1>2, <1>3, <1>4 DEF Posed, n

\* Two trips over the same legs in opposite directions.
Opposite(there, back) ==
  /\ Timed(there) /\ Timed(back)
  /\ \A i \in 1 .. LegCount :
       /\ back.legs[i] = there.legs[LegCount + 1 - i]
       /\ back.addon[i] = there.addon[LegCount + 1 - i]

\* Opposite trips spend the same on the same legs.
LEMMA OppositeSums ==
  ASSUME NEW there, NEW back, Opposite(there, back),
         NEW c \in Int, NEW d \in Int, 1 <= c, d <= LegCount
  PROVE  /\ SumFunctionOnSet(there.legs, c .. d)
              = SumFunctionOnSet(back.legs, LegCount + 1 - d .. LegCount + 1 - c)
         /\ SumFunctionOnSet(there.addon, c .. d)
              = SumFunctionOnSet(back.addon, LegCount + 1 - d .. LegCount + 1 - c)
<1> DEFINE l1 == there.legs
           l2 == back.legs
           a1 == there.addon
           a2 == back.addon
<1>1. /\ l1 \in [1 .. LegCount -> Nat] /\ l2 \in [1 .. LegCount -> Nat]
      /\ a1 \in [1 .. LegCount -> Nat] /\ a2 \in [1 .. LegCount -> Nat]
      /\ LegCount \in Nat
  BY LineFacts DEF Opposite, Timed
<1>2. /\ \A i \in 1 .. LegCount : l2[i] = l1[LegCount + 1 - i]
      /\ \A i \in 1 .. LegCount : a2[i] = a1[LegCount + 1 - i]
  BY Zenon DEF Opposite
<1> HIDE DEF l1, l2, a1, a2
<1>0. TurnedAround(LegCount, l1, l2) /\ TurnedAround(LegCount, a1, a2)
  BY <1>1, <1>2, Zenon DEF TurnedAround
<1>3. SumFunctionOnSet(l1, c .. d)
        = SumFunctionOnSet(l2, LegCount + 1 - d .. LegCount + 1 - c)
  BY <1>0, SumTurned
<1>4. SumFunctionOnSet(a1, c .. d)
        = SumFunctionOnSet(a2, LegCount + 1 - d .. LegCount + 1 - c)
  BY <1>0, SumTurned
<1> QED  BY <1>3, <1>4, Zenon DEF l1, l2, a1, a2

\* Where no slack is given, as much time passes there as on the same legs back.
LEMMA OppositeTook ==
  ASSUME NEW there, NEW back, Opposite(there, back),
         NEW c \in Int, NEW d \in Int, 1 <= c, d <= LegCount,
         SumFunctionOnSet(there.slack, c .. d)
           = SumFunctionOnSet(back.slack,
                              LegCount + 1 - d .. LegCount + 1 - c)
  PROVE  Took(there, c .. d)
           = Took(back, LegCount + 1 - d .. LegCount + 1 - c)
<1>1. /\ SumFunctionOnSet(there.legs, c .. d)
           = SumFunctionOnSet(back.legs, LegCount + 1 - d .. LegCount + 1 - c)
      /\ SumFunctionOnSet(there.addon, c .. d)
           = SumFunctionOnSet(back.addon, LegCount + 1 - d .. LegCount + 1 - c)
  BY OppositeSums
<1> QED  BY <1>1, Zenon DEF Took

\* A sum of zeros.
LEMMA SumOfZeros ==
  ASSUME NEW f, NEW S, IsFiniteSet(S), \A x \in S : f[x] = 0
  PROVE  SumFunctionOnSet(f, S) = 0
<1>1. \A x \in S : f[x] \in Int  OBVIOUS
<1>2. \A x \in S \ {} : f[x] = 0 /\ {} \subseteq S  OBVIOUS
<1>3. SumFunctionOnSet(f, S) = SumFunctionOnSet(f, {})
  BY <1>1, <1>2, SumZeroOutside
<1>4. SumFunctionOnSet(f, {}) = 0  BY SumOfNone
<1> QED  BY <1>3, <1>4

\* Opposite trips have the same natural span of the same interval.
LEMMA OppositeNatural ==
  ASSUME NEW there, NEW back, Opposite(there, back),
         NEW a \in 1 .. LegCount + 1, NEW b \in 1 .. LegCount + 1, a < b
  PROVE  Natural(back.legs, back.addon, LegCount + 2 - b, LegCount + 2 - a)
           = Natural(there.legs, there.addon, a, b)
<1> DEFINE c == LegCount + 2 - b
           e == LegCount + 2 - a
<1>1. /\ a \in Int /\ b - 1 \in Int /\ 1 <= a /\ b - 1 <= LegCount
      /\ LegCount + 1 - (b - 1) = c /\ LegCount + 1 - a = e - 1
      /\ b - a - 1 = e - c - 1
  BY LineFacts
<1> HIDE DEF c, e
<1>2. /\ SumFunctionOnSet(there.legs, a .. b - 1)
           = SumFunctionOnSet(back.legs, LegCount + 1 - (b - 1) .. LegCount + 1 - a)
      /\ SumFunctionOnSet(there.addon, a .. b - 1)
           = SumFunctionOnSet(back.addon, LegCount + 1 - (b - 1) .. LegCount + 1 - a)
  BY <1>1, OppositeSums
<1>3. /\ SumFunctionOnSet(there.legs, a .. b - 1)
           = SumFunctionOnSet(back.legs, c .. e - 1)
      /\ SumFunctionOnSet(there.addon, a .. b - 1)
           = SumFunctionOnSet(back.addon, c .. e - 1)
  BY <1>1, <1>2, Zenon
<1>4. Natural(back.legs, back.addon, c, e)
        = Natural(there.legs, there.addon, a, b)
  BY <1>1, <1>3, Zenon DEF Natural
<1> QED  BY <1>4, Zenon DEF c, e

\* A trip leaves when it should, and but for its longer stands arrives so.
LEMMA TripSettles ==
  ASSUME NEW trip, Timed(trip), trip.stops \in [1 .. LegCount + 1 -> Stop]
  PROVE  /\ trip.dep[1] = Leaves(trip)
         /\ trip.arr[LegCount + 1] - Excess(trip, LegCount + 1)
              = Leaves(trip) + Plan(trip).arr[LegCount + 1]
         /\ Leaves(trip) \in Int /\ Plan(trip).arr[LegCount + 1] \in Int
<1> DEFINE n == LegCount + 1
<1>1. /\ LegCount \in Nat /\ LegCount > 0 /\ n \in 1 .. n /\ 1 \in 1 .. LegCount
      /\ LegCount \in 1 .. LegCount
  BY LineFacts
<1>2. Leaves(trip) \in Int  BY DEF Timed, Leaves
<1>3. Plan(trip).arr[n] \in Int /\ Plan(trip).dep[1] = 0
  <2>1. Plan(trip).arr \in [1 .. LegCount + 1 -> Int] /\ Plan(trip).dep[1] = 0
    BY PlanGoesOn
  <2> DEFINE arr == Plan(trip).arr
  <2>2. arr \in [1 .. LegCount + 1 -> Int]  BY <2>1
  <2> HIDE DEF arr
  <2>3. arr[n] \in Int  BY <1>1, <2>2
  <2> QED  BY <2>1, <2>3 DEF arr
<1>4. Late(trip, 1) = 0
  <2>1. 2 .. 1 = {}  OBVIOUS
  <2> QED  BY <2>1, SumOfNone DEF Late
<1>5. trip.dep[1] = Leaves(trip) + Plan(trip).dep[1] + Late(trip, 1)
  BY <1>1, TripFollowsPlan, Zenon
<1>6. trip.dep[1] = Leaves(trip)  BY <1>2, <1>3, <1>4, <1>5
<1>7. /\ trip.arr[n] = Leaves(trip) + Plan(trip).arr[n] + Late(trip, LegCount)
      /\ Late(trip, LegCount) \in Nat
      /\ Excess(trip, n) = Late(trip, LegCount)
  BY <1>1, TripFollowsPlan, LateGrows, ExcessIsLate, Zenon
<1>8. trip.arr[n] - Excess(trip, n) = Leaves(trip) + Plan(trip).arr[n]
  <2> DEFINE l == Leaves(trip)
             p == Plan(trip).arr[n]
             x == Late(trip, LegCount)
  <2>1. l \in Int /\ p \in Int /\ x \in Nat  BY <1>2, <1>3, <1>7
  <2>2. trip.arr[n] = l + p + x /\ Excess(trip, n) = x  BY <1>7
  <2> HIDE DEF l, p, x, n
  <2>3. trip.arr[n] - Excess(trip, n) = l + p  BY <2>1, <2>2
  <2> QED  BY <2>3 DEF l, p
<1> QED  BY <1>2, <1>3, <1>6, <1>8

\* A trip and the one built from its mirrored overrides are opposite, and a
\* shift of the one is taken off the other.
LEMMA PairIsOpposite ==
  ASSUME NEW there, NEW back, NEW stops, NEW legs, NEW interval, NEW overrides,
         Posed(stops, legs, interval, overrides),
         Built(there, stops, legs, interval, overrides),
         Posed(Backwards(stops), Backwards(legs), Backwards(interval),
               MirrorOverrides(overrides, there.shift)),
         Built(back, Backwards(stops), Backwards(legs), Backwards(interval),
               MirrorOverrides(overrides, there.shift))
  PROVE  /\ Opposite(there, back)
         /\ Leaves(there) = Automatic(there) + there.shift
         /\ Leaves(back) = Automatic(back) - there.shift
         /\ Automatic(there) \in Int /\ Automatic(back) \in Int
         /\ there.shift \in Int
<1> DEFINE other == MirrorOverrides(overrides, there.shift)
<1>1. Timed(there)  BY TripIsTimed
<1>2. Timed(back)
      /\ Leaves(back) = ResolveDeparture(Automatic(back), other.departure)
  BY TripIsTimed
<1>3. /\ Automatic(there) \in Int /\ Automatic(back) \in Int
      /\ there.shift \in Int
      /\ Leaves(there) = Automatic(there) + there.shift
  BY <1>1, <1>2 DEF Timed, Leaves
<1>4. Leaves(back) = Automatic(back) - there.shift
  BY <1>2, <1>3, MirroredDeparture
<1>5. /\ there.legs = legs /\ back.legs = Backwards(legs)
      /\ there.addon = ResolveAddons(stops, overrides.addons)
      /\ back.addon = ResolveAddons(Backwards(stops), other.addons)
      /\ legs \in [1 .. LegCount -> Nat]
      /\ stops \in [1 .. LegCount + 1 -> Stop]
      /\ IsFiniteSet(overrides.addons) /\ overrides.addons \subseteq Addon
  BY DEF Built, Posed
<1>6. \A i \in 1 .. LegCount : back.legs[i] = there.legs[LegCount + 1 - i]
  <2>1. LegCount \in Nat  BY LineFacts
  <2>2. DOMAIN legs = 1 .. LegCount /\ Len(legs) = LegCount
    BY <1>5, <2>1, LenOf
  <2>3. \A i \in 1 .. LegCount : Backwards(legs)[i] = legs[LegCount + 1 - i]
    BY <2>2 DEF Backwards
  <2> QED  BY <1>5, <2>3
<1>7. \A i \in 1 .. LegCount : back.addon[i] = there.addon[LegCount + 1 - i]
  <2>1. other.addons = {Turned(a) : a \in overrides.addons}
    BY <1>5, MirroredAddons
  <2>2. \A i \in 1 .. LegCount :
          ResolveAddons(Backwards(stops), {Turned(a) : a \in overrides.addons})[i]
            = ResolveAddons(stops, overrides.addons)[LegCount + 1 - i]
    BY <1>5, AddonsTurn
  <2> QED  BY <1>5, <2>1, <2>2
<1> QED  BY <1>1, <1>2, <1>3, <1>4, <1>6, <1>7, Zenon DEF Opposite

\* A pair nothing stretches: each direction is centred, and equally long.
LEMMA SimplePairCentre ==
  ASSUME NEW there, NEW back, Opposite(there, back),
         there.interval = NoInterval, back.interval = NoInterval,
         \A i \in 1 .. LegCount : there.slack[i] = 0,
         \A i \in 1 .. LegCount : back.slack[i] = 0
  PROVE  /\ Plan(there).arr[LegCount + 1] = Plan(back).arr[LegCount + 1]
         /\ Automatic(there) + Automatic(back) + Plan(there).arr[LegCount + 1]
              - 2 * Mirror \in -1 .. 1
<1> DEFINE n == LegCount + 1
           m == LegCount
<1>1. /\ m \in Nat /\ m > 0 /\ n \in 1 .. n /\ 1 \in 1 .. n /\ 1 < n
      /\ n - 1 = m /\ m + 1 - m = 1 /\ m + 1 - 1 = m /\ n \in Nat
      /\ 1 \in Int /\ m \in Int /\ 1 <= 1 /\ m <= m
  BY LineFacts
<1>2. Timed(there) /\ Timed(back)  BY DEF Opposite
<1>3. IsFiniteSet(1 .. m)  BY <1>1, FS_Interval
<1>4. SumFunctionOnSet(there.slack, 1 .. m) = 0
      /\ SumFunctionOnSet(back.slack, 1 .. m) = 0
  BY <1>3, SumOfZeros
<1>5. Took(there, 1 .. m) = Took(back, 1 .. m)
  <2>1. SumFunctionOnSet(there.slack, 1 .. m)
          = SumFunctionOnSet(back.slack, m + 1 - m .. m + 1 - 1)
    BY <1>1, <1>4, Zenon
  <2>2. Took(there, 1 .. m) = Took(back, m + 1 - m .. m + 1 - 1)
    BY <1>1, <2>1, OppositeTook
  <2> QED  BY <1>1, <2>2, Zenon
<1>6. ASSUME NEW trip, Timed(trip)
      PROVE  /\ Plan(trip).arr[n] \in Int
             /\ Plan(trip).arr[n] = Took(trip, 1 .. m) + (n - 1 - 1) * MinDwell
             /\ Len(Plan(trip).arr) = n
  <2>1. /\ Plan(trip).arr[n] \in Int
        /\ Plan(trip).arr[n] - Plan(trip).dep[1]
             = Took(trip, 1 .. n - 1) + (n - 1 - 1) * MinDwell
    BY <1>1, <1>6, PlanSpan
  <2>2. Plan(trip).dep[1] = 0 /\ Plan(trip).arr \in [1 .. n -> Int]
    BY <1>6, PlanGoesOn
  <2>3. Plan(trip).arr[n] - Plan(trip).dep[1] = Plan(trip).arr[n]
    BY <2>1, <2>2
  <2>4. Len(Plan(trip).arr) = n  BY <1>1, <2>2, LenOf
  <2> QED  BY <1>1, <2>1, <2>3, <2>4, Zenon
<1>7. /\ Plan(there).arr[n] = Plan(back).arr[n]
      /\ Plan(there).arr[n] \in Int
  BY <1>2, <1>5, <1>6, Zenon
<1> DEFINE duration == Plan(there).arr[n]
<1>8. /\ Automatic(there) = SimpleDeparture(duration)
      /\ Automatic(back) = SimpleDeparture(duration)
  BY <1>2, <1>6, <1>7, Zenon DEF Automatic, AutomaticDeparture, SimpleAutomatic
<1> HIDE DEF duration
<1>9. duration \in Int  BY <1>7 DEF duration
<1>10. /\ SimpleDeparture(duration) \in Int
       /\ SimpleDeparture(duration) + (SimpleDeparture(duration) + duration)
            - 2 * Mirror \in -1 .. 1
  BY <1>9, SimpleIsCentred
<1>11. Automatic(there) + Automatic(back) + duration - 2 * Mirror \in -1 .. 1
  BY <1>8, <1>9, <1>10, NightAssumption
<1> QED  BY <1>7, <1>11 DEF duration

\* A pair stretched over the night: what one direction runs before the night
\* the other runs after it, and the night is centred.
LEMMA NightPairCentre ==
  ASSUME NEW there, NEW back, Opposite(there, back),
         NEW a \in 1 .. LegCount + 1, NEW b \in 1 .. LegCount + 1, a < b,
         NEW c, NEW e, c = LegCount + 2 - b, e = LegCount + 2 - a,
         \A i \in (1 .. LegCount) \ (a .. b - 1) : there.slack[i] = 0,
         \A i \in (1 .. LegCount) \ (c .. e - 1) : back.slack[i] = 0,
         NEW span \in Int, span >= RequiredSpan,
         Plan(there).arr[b] - Plan(there).dep[a] = span,
         Plan(back).arr[e] - Plan(back).dep[c] = span,
         Automatic(there) = FixedNightDeparture(span) - Plan(there).dep[a],
         Automatic(back) = FixedNightDeparture(span) - Plan(back).dep[c]
  PROVE  /\ Plan(there).arr[LegCount + 1] = Plan(back).arr[LegCount + 1]
         /\ Automatic(there) + Automatic(back) + Plan(there).arr[LegCount + 1]
              - 2 * Mirror \in -1 .. 1
<1> DEFINE n == LegCount + 1
           m == LegCount
           d == MinDwell
<1>1. /\ m \in Nat /\ m > 0 /\ d \in Int
      /\ a \in 1 .. m /\ b \in 2 .. n /\ c \in 1 .. m /\ e \in 2 .. n
      /\ c - 1 = n - b /\ n - e = a - 1
      /\ m + 1 - m = 1 /\ m + 1 - b = c - 1
      /\ m + 1 - (a - 1) = e /\ m + 1 - 1 = m
  BY LineFacts, MinDwellIsNatural
<1>2. Timed(there) /\ Timed(back)  BY DEF Opposite
\* the legs before and after the night, in one direction and in the other
<1>3. Took(there, b .. m) = Took(back, 1 .. c - 1)
  <2>0. b \in Int /\ m \in Int /\ c - 1 \in Int /\ 1 \in Int
        /\ 1 <= b /\ m <= m
    BY <1>1
  <2>1. IsFiniteSet(b .. m) /\ IsFiniteSet(1 .. c - 1)
    BY <2>0, FS_Interval
  <2>2. /\ \A i \in b .. m : there.slack[i] = 0
        /\ \A i \in 1 .. c - 1 : back.slack[i] = 0
    <3>1. b .. m \subseteq (1 .. m) \ (a .. b - 1)  BY <1>1
    <3>2. 1 .. c - 1 \subseteq (1 .. m) \ (c .. e - 1)  BY <1>1
    <3> QED  BY <3>1, <3>2
  <2>3. /\ SumFunctionOnSet(there.slack, b .. m) = 0
        /\ SumFunctionOnSet(back.slack, 1 .. c - 1) = 0
    BY <2>1, <2>2, SumOfZeros
  <2>4. SumFunctionOnSet(there.slack, b .. m)
          = SumFunctionOnSet(back.slack, m + 1 - m .. m + 1 - b)
    BY <1>1, <2>3, Zenon
  <2>5. Took(there, b .. m) = Took(back, m + 1 - m .. m + 1 - b)
    BY <2>0, <2>4, OppositeTook
  <2> QED  BY <1>1, <2>5, Zenon
<1>4. Took(there, 1 .. a - 1) = Took(back, e .. m)
  <2>0. e \in Int /\ m \in Int /\ 1 \in Int /\ a - 1 \in Int
        /\ 1 <= 1 /\ a - 1 <= m
    BY <1>1
  <2>1. IsFiniteSet(1 .. a - 1) /\ IsFiniteSet(e .. m)
    BY <2>0, FS_Interval
  <2>2. /\ \A i \in 1 .. a - 1 : there.slack[i] = 0
        /\ \A i \in e .. m : back.slack[i] = 0
    <3>1. 1 .. a - 1 \subseteq (1 .. m) \ (a .. b - 1)  BY <1>1
    <3>2. e .. m \subseteq (1 .. m) \ (c .. e - 1)  BY <1>1
    <3> QED  BY <3>1, <3>2
  <2>3. /\ SumFunctionOnSet(there.slack, 1 .. a - 1) = 0
        /\ SumFunctionOnSet(back.slack, e .. m) = 0
    BY <2>1, <2>2, SumOfZeros
  <2>4. SumFunctionOnSet(there.slack, 1 .. a - 1)
          = SumFunctionOnSet(back.slack, m + 1 - (a - 1) .. m + 1 - 1)
    BY <1>1, <2>3, Zenon
  <2>5. Took(there, 1 .. a - 1) = Took(back, m + 1 - (a - 1) .. m + 1 - 1)
    BY <2>0, <2>4, OppositeTook
  <2> QED  BY <1>1, <2>5, Zenon
<1> DEFINE A1 == Plan(there).dep[a]
           A2 == Plan(back).dep[c]
           B1 == Plan(there).arr[b]
           B2 == Plan(back).arr[e]
           D1 == Plan(there).arr[n]
           D2 == Plan(back).arr[n]
<1>5. /\ A1 \in Int /\ A1 = Took(there, 1 .. a - 1) + (a - 1) * d
      /\ A2 \in Int /\ A2 = Took(back, 1 .. c - 1) + (c - 1) * d
  BY <1>1, <1>2, PlanBefore
<1>6. /\ B1 \in Int /\ D1 \in Int
      /\ D1 - B1 = Took(there, b .. m) + (n - b) * d
  BY <1>1, <1>2, PlanAfter
<1>7. /\ B2 \in Int /\ D2 \in Int
      /\ D2 - B2 = Took(back, e .. m) + (n - e) * d
  BY <1>1, <1>2, PlanAfter
<1>8. D1 - B1 = A2 /\ D2 - B2 = A1
  BY <1>1, <1>3, <1>4, <1>5, <1>6, <1>7, Zenon
<1>9. B1 - A1 = span /\ B2 - A2 = span  OBVIOUS
<1> DEFINE F == FixedNightDeparture(span)
<1>10. F \in Int /\ 2 * F + span - 2 * Mirror \in -1 .. 1
  BY FixedNightIsInteger, FixedNightIsCentred
<1>11. Automatic(there) = F - A1 /\ Automatic(back) = F - A2  OBVIOUS
<1> HIDE DEF A1, A2, B1, B2, D1, D2, F
<1> DEFINE P == Automatic(there)
           Q == Automatic(back)
<1> HIDE DEF P, Q
<1>14. /\ A1 \in Int /\ A2 \in Int /\ B1 \in Int /\ B2 \in Int
       /\ D1 \in Int /\ D2 \in Int /\ span \in Int /\ F \in Int
       /\ Mirror \in Int
  BY <1>5, <1>6, <1>7, <1>10, Zenon, NightAssumption
<1>15. P = F - A1 /\ Q = F - A2  BY <1>11, Zenon DEF P, Q
<1>12. D1 = A1 + span + A2 /\ D2 = D1
  BY <1>8, <1>9, <1>14
<1>13. P + Q + D1 - 2 * Mirror \in -1 .. 1
  <2>2. P + Q + D1 - 2 * Mirror = 2 * F + span - 2 * Mirror
    BY <1>12, <1>14, <1>15
  <2> QED  BY <1>10, <2>2, Zenon
<1> QED  BY <1>12, <1>13, Zenon DEF D1, D2, P, Q

\* The arithmetic of a pair: what shifts one direction shifts the other back.
LEMMA BothCentred ==
  ASSUME NEW p \in Int, NEW q \in Int, NEW h \in Int, NEW d \in Int,
         NEW x1, NEW x2, NEW y1, NEW y2,
         x1 = p + h, x2 = q - h, y1 = p + h + d, y2 = q - h + d,
         p + q + d - 2 * Mirror \in -1 .. 1
  PROVE  Centred(x1, y2) /\ Centred(x2, y1)
<1>1. Mirror \in Int  BY NightAssumption
<1>2. /\ x1 + y2 - 2 * Mirror = p + q + d - 2 * Mirror
      /\ x2 + y1 - 2 * Mirror = p + q + d - 2 * Mirror
  BY <1>1
<1>3. /\ x1 + y2 - 2 * Mirror \in -1 .. 1
      /\ x2 + y1 - 2 * Mirror \in -1 .. 1
  BY <1>2
<1> QED  BY <1>3, Zenon DEF Centred

\* Over the same legs, a trip and the one its overrides are mirrored to are
\* placed around the mirror, and a shift of the one is taken off the other.
THEOREM PairIsCentred ==
  ASSUME NEW there, NEW back, NEW stops, NEW legs, NEW interval, NEW overrides,
         Posed(stops, legs, interval, overrides),
         Built(there, stops, legs, interval, overrides),
         Posed(Backwards(stops), Backwards(legs), Backwards(interval),
               MirrorOverrides(overrides, there.shift)),
         Built(back, Backwards(stops), Backwards(legs), Backwards(interval),
               MirrorOverrides(overrides, there.shift))
  PROVE  LET n == LegCount + 1
             Settled(trip) == trip.arr[n] - Excess(trip, n)
         IN  /\ Centred(there.dep[1], Settled(back))
             /\ Centred(back.dep[1], Settled(there))
<1> DEFINE n == LegCount + 1
           D1 == Plan(there).arr[n]
           D2 == Plan(back).arr[n]
           other == MirrorOverrides(overrides, there.shift)
           turned == Backwards(stops)
           night == Backwards(interval)
<1>1. /\ Opposite(there, back)
      /\ Leaves(there) = Automatic(there) + there.shift
      /\ Leaves(back) = Automatic(back) - there.shift
      /\ Automatic(there) \in Int /\ Automatic(back) \in Int
      /\ there.shift \in Int
  BY PairIsOpposite
<1>2. Timed(there) /\ Timed(back)  BY <1>1 DEF Opposite
<1>3. /\ there.stops = stops /\ there.interval = interval
      /\ back.stops = turned /\ back.interval = night
      /\ there.slack = AutomaticSlack(stops, legs, interval, there.addon)
      /\ back.slack = AutomaticSlack(turned, Backwards(legs), night, back.addon)
      /\ legs \in [1 .. LegCount -> Nat]
      /\ stops \in [1 .. n -> Stop] /\ turned \in [1 .. n -> Stop]
      /\ Backwards(legs) \in [1 .. LegCount -> Nat]
  BY DEF Built, Posed
<1>4. D1 = D2 /\ Automatic(there) + Automatic(back) + D1 - 2 * Mirror \in -1 .. 1
  <2>1. CASE interval = NoInterval
    <3>1. night = NoInterval  BY <2>1, BackwardsInterval
    <3>2. \A i \in 1 .. LegCount : there.slack[i] = 0
      <4>1. DOMAIN legs = 1 .. LegCount  BY <1>3
      <4>2. there.slack = [i \in 1 .. LegCount |-> 0]
        BY <1>3, <2>1, <4>1, Zenon DEF AutomaticSlack
      <4> QED  BY <4>2
    <3>3. \A i \in 1 .. LegCount : back.slack[i] = 0
      <4>1. DOMAIN Backwards(legs) = 1 .. LegCount  BY <1>3
      <4>2. back.slack = [i \in 1 .. LegCount |-> 0]
        BY <1>3, <3>1, <4>1, Zenon DEF AutomaticSlack
      <4> QED  BY <4>2
    <3> QED  BY <1>1, <1>3, <2>1, <3>1, <3>2, <3>3, SimplePairCentre
  <2>2. CASE interval # NoInterval
    <3>1. PICK a, b \in 1 .. n : a < b /\ interval = <<stops[a], stops[b]>>
      BY <2>2 DEF Posed
    <3> DEFINE c == LegCount + 2 - b
               e == LegCount + 2 - a
    <3>2. /\ n \in Nat /\ c \in 1 .. n /\ e \in 1 .. n /\ c < e
          /\ n + 1 - c = b /\ n + 1 - e = a
      <4>1. LegCount \in Nat /\ a \in 1 .. LegCount + 1
            /\ b \in 1 .. LegCount + 1 /\ a < b
        BY <3>1, LineFacts
      <4>2. n \in Nat /\ n + 1 - c = b /\ n + 1 - e = a  BY <4>1
      <4>3. c \in 1 .. n /\ e \in 1 .. n /\ c < e  BY <4>1
      <4> QED  BY <4>2, <4>3, Zenon
    <3>3. turned[c] = stops[b] /\ turned[e] = stops[a]
      <4>1. DOMAIN stops = 1 .. n /\ Len(stops) = n  BY <1>3, <3>2, LenOf
      <4>2. \A i \in 1 .. n : turned[i] = stops[n + 1 - i]
        BY <4>1 DEF Backwards
      <4> HIDE DEF c, e, turned, n
      <4> QED  BY <3>2, <4>2
    <3>4. night = <<turned[c], turned[e]>>
      BY <3>1, <3>3, BackwardsInterval, Zenon
    <3> HIDE DEF c, e
    <3> DEFINE span == Plan(there).arr[b] - Plan(there).dep[a]
               back1 == Plan(back).arr[e] - Plan(back).dep[c]
               nat1 == Natural(there.legs, there.addon, a, b)
               nat2 == Natural(back.legs, back.addon, c, e)
    <3>5. /\ \A i \in (1 .. LegCount) \ (a .. b - 1) : there.slack[i] = 0
          /\ Plan(there).arr[b] \in Int /\ Plan(there).dep[a] \in Int
          /\ span = nat1 + SlackNeeded(nat1) /\ span >= RequiredSpan
          /\ Automatic(there) = FixedNightDeparture(span) - Plan(there).dep[a]
      BY <1>2, <3>1, TripSlack, PlanFitsNight
    <3>6. /\ \A i \in (1 .. LegCount) \ (c .. e - 1) : back.slack[i] = 0
          /\ back1 = nat2 + SlackNeeded(nat2)
          /\ Automatic(back) = FixedNightDeparture(back1) - Plan(back).dep[c]
      BY <1>2, <3>2, <3>4, TripSlack, PlanFitsNight, SMTT(30)
    <3>7. nat2 = nat1
      BY <1>1, <3>1, OppositeNatural DEF c, e
    <3>8. back1 = span  BY <3>5, <3>6, <3>7, Zenon
    <3>9. span \in Int  BY <3>5
    <3>10. /\ Automatic(back) = FixedNightDeparture(span) - Plan(back).dep[c]
           /\ Plan(back).arr[e] - Plan(back).dep[c] = span
      BY <3>6, <3>8, Zenon
    <3>11. c = LegCount + 2 - b /\ e = LegCount + 2 - a  BY DEF c, e
    <3> QED  BY <1>1, <3>1, <3>5, <3>6, <3>9, <3>10, <3>11, NightPairCentre
  <2> QED  BY <2>1, <2>2
<1>5. /\ there.dep[1] = Leaves(there)
      /\ there.arr[n] - Excess(there, n) = Leaves(there) + D1 /\ D1 \in Int
  BY <1>2, <1>3, TripSettles
<1>6. /\ back.dep[1] = Leaves(back)
      /\ back.arr[n] - Excess(back, n) = Leaves(back) + D2
  BY <1>2, <1>3, TripSettles
<1> DEFINE P == Automatic(there)
           Q == Automatic(back)
           h == there.shift
           X1 == there.dep[1]
           X2 == back.dep[1]
           Y1 == there.arr[n] - Excess(there, n)
           Y2 == back.arr[n] - Excess(back, n)
<1>7. P \in Int /\ Q \in Int /\ h \in Int /\ D1 \in Int /\ Mirror \in Int
  BY <1>1, <1>5, NightAssumption
<1>8. X1 = P + h /\ X2 = Q - h /\ Y1 = P + h + D1 /\ Y2 = Q - h + D1
  BY <1>1, <1>4, <1>5, <1>6, Zenon
<1>9. P + Q + D1 - 2 * Mirror \in -1 .. 1  BY <1>4, Zenon
<1> HIDE DEF D1, D2, n, P, Q, h, X1, X2, Y1, Y2
<1>10. Centred(X1, Y2) /\ Centred(X2, Y1)
  BY <1>7, <1>8, <1>9, BothCentred
<1> QED  BY <1>10, Zenon DEF X1, X2, Y1, Y2, n

(***************************************************************************)
(* The invariant: each trip there is was built from the request.           *)
(***************************************************************************)
OutboundOverrides ==
  [departure |-> request.departure, addons |-> request.addons]

OutboundBuilt ==
  Built(trips[1], Line, request.legs, request.interval, OutboundOverrides)

ReturnBuilt ==
  Built(trips[2], Backwards(Line), ReturnLegs, Backwards(request.interval),
        ReturnOverrides)

PlanInv ==
  \/ trips = <<>> /\ request \in Requests \cup {NoRequest}
  \/ trips = <<trips[1]>> /\ request \in Requests /\ OutboundBuilt
  \/ /\ trips = <<trips[1], trips[2]>> /\ request \in Requests
     /\ OutboundBuilt /\ ReturnBuilt

\* The outbound trip is built from what could have been posted.
LEMMA OutboundIsPosed ==
  ASSUME request \in Requests
  PROVE  Posed(Line, request.legs, request.interval, OutboundOverrides)
<1>1. /\ request.legs \in [1 .. LegCount -> LegTimes]
      /\ request.interval \in Intervals /\ request.addons \in AddonSets
      /\ request.departure \in Departures
  BY DEF Requests, LegCount
<1>2. request.legs \in [1 .. LegCount -> Nat]  BY <1>1, TimeAssumption
<1>3. \/ request.interval = NoInterval
      \/ \E a, b \in 1 .. LegCount + 1 :
           a < b /\ request.interval = <<Line[a], Line[b]>>
  <2>1. DOMAIN Line = 1 .. LegCount + 1  BY LineFacts
  <2> QED  BY <1>1, <2>1, IntervalAssumption
<1>4. /\ OutboundOverrides.departure \in Departure
      /\ IsFiniteSet(OutboundOverrides.addons)
      /\ OutboundOverrides.addons \subseteq Addon
  BY <1>1, OverrideAssumption DEF OutboundOverrides
<1> QED  BY <1>2, <1>3, <1>4, LineFacts, Zenon DEF Posed

\* What the return is routed for, and the same legs where no detour is made.
LEMMA ReturnLegsAreNatural ==
  ASSUME request \in Requests
  PROVE  /\ ReturnLegs \in [1 .. LegCount -> Nat]
         /\ request.detour = 0 => ReturnLegs = Backwards(request.legs)
<1> DEFINE turned == Backwards(request.legs)
<1>1. request.legs \in [1 .. LegCount -> LegTimes] /\ request.detour \in Detours
  BY DEF Requests, LegCount
<1>2. request.legs \in [1 .. LegCount -> Nat] /\ request.detour \in Nat
  BY <1>1, TimeAssumption
<1>3. LegCount \in Nat /\ 1 \in 1 .. LegCount  BY LineFacts
<1>4. turned \in [1 .. LegCount -> Nat]  BY <1>2, <1>3, BackwardsOf
<1>5. ReturnLegs = [turned EXCEPT ![1] = turned[1] + request.detour]
  BY DEF ReturnLegs
<1> HIDE DEF turned
<1>6. ReturnLegs \in [1 .. LegCount -> Nat]
  <2>1. turned[1] + request.detour \in Nat  BY <1>2, <1>3, <1>4
  <2> QED  BY <1>4, <1>5, <2>1
<1>7. ASSUME request.detour = 0  PROVE  ReturnLegs = turned
  <2>1. turned[1] + request.detour = turned[1]  BY <1>3, <1>4, <1>7
  <2> QED  BY <1>4, <1>5, <2>1
<1> QED  BY <1>6, <1>7 DEF turned

\* So is the return trip, mirrored or with overrides of its own.
LEMMA ReturnIsPosed ==
  ASSUME request \in Requests, OutboundBuilt
  PROVE  Posed(Backwards(Line), ReturnLegs, Backwards(request.interval),
               ReturnOverrides)
<1>1. Posed(Line, request.legs, request.interval, OutboundOverrides)
  BY OutboundIsPosed
<1>2. ReturnLegs \in [1 .. LegCount -> Nat]  BY ReturnLegsAreNatural
<1>3. /\ ReturnOverrides.departure \in Departure
      /\ IsFiniteSet(ReturnOverrides.addons)
      /\ ReturnOverrides.addons \subseteq Addon
  <2>1. CASE request.return = Mirrored
    <3>1. ReturnOverrides = MirrorOverrides(OutboundOverrides, trips[1].shift)
      BY <2>1, Zenon DEF ReturnOverrides, OutboundOverrides
    <3>2. trips[1].shift \in Int
      <4>1. Timed(trips[1])  BY <1>1, TripIsTimed, Zenon DEF OutboundBuilt
      <4> QED  BY <4>1 DEF Timed
    <3>3. /\ IsFiniteSet(OutboundOverrides.addons)
          /\ OutboundOverrides.addons \subseteq Addon
      BY <1>1 DEF Posed
    <3> QED  BY <3>1, <3>2, <3>3, MirroredAddons, MirroredDeparture
  <2>2. CASE request.return # Mirrored
    <3>1. ReturnOverrides = request.return
      BY <2>2, Zenon DEF ReturnOverrides
    <3>2. request.return \in ReturnBlocks \ {Mirrored}
      BY <2>2 DEF Requests
    <3> QED  BY <3>1, <3>2, OverrideAssumption, Zenon
  <2> QED  BY <2>1, <2>2
<1> QED  BY <1>1, <1>2, <1>3, TurnedIsPosed

\* The invariant at the start.
LEMMA InitPlan == Init => PlanInv
BY DEF Init, PlanInv

\* _build_trip_pair() building the outbound trip.
LEMMA BuildOutboundPlan ==
  ASSUME PlanInv, BuildOutbound
  PROVE  PlanInv'
<1>1. request \in Requests /\ request' = request /\ trips = <<>>
  <2>1. trips = <<>> /\ request # NoRequest /\ request' = request
    BY DEF BuildOutbound
  <2>2. request \in Requests \cup {NoRequest}  BY <2>1 DEF PlanInv
  <2> QED  BY <2>1, <2>2
<1>2. PICK trip : /\ trips' = Append(trips, trip)
                  /\ Built(trip, Line, request.legs, request.interval,
                           OutboundOverrides)
  <2>1. BuildTrip(Line, request.legs, request.interval, OutboundOverrides)
    BY DEF BuildOutbound, OutboundOverrides
  <2> QED  BY <2>1, BuildTripBuilds
<1>3. trips' = <<trip>> /\ trips'[1] = trip  BY <1>1, <1>2
<1>4. OutboundOverrides' = OutboundOverrides
  BY <1>1, Zenon DEF OutboundOverrides
<1>5. OutboundBuilt'  BY <1>1, <1>2, <1>3, <1>4, Zenon DEF OutboundBuilt
<1> QED  BY <1>1, <1>3, <1>5, Zenon DEF PlanInv, Requests

\* Appending to a sequence of one.
LEMMA AppendOne ==
  ASSUME NEW t, NEW u
  PROVE  Append(<<t>>, u) = <<t, u>>
<1> DEFINE T == {t, u}
<1>1. <<t>> \in Seq(T) /\ u \in T /\ Len(<<t>>) = 1 /\ <<t>>[1] = t
  OBVIOUS
<1>2. <<t, u>> \in Seq(T) /\ Len(<<t, u>>) = 2
      /\ <<t, u>>[1] = t /\ <<t, u>>[2] = u
  OBVIOUS
<1> HIDE DEF T
<1>3. Append(<<t>>, u) \in Seq(T) /\ Len(Append(<<t>>, u)) = 2
      /\ Append(<<t>>, u)[1] = t /\ Append(<<t>>, u)[2] = u
  BY <1>1, AppendProperties
<1>4. \A i \in 1 .. 2 : Append(<<t>>, u)[i] = <<t, u>>[i]
  <2>1. \A i \in 1 .. 2 : i = 1 \/ i = 2  OBVIOUS
  <2> QED  BY <1>2, <1>3, <2>1
<1> QED  BY <1>2, <1>3, <1>4, SeqEqual

\* _build_trip_pair() building the return trip.
LEMMA BuildReturnPlan ==
  ASSUME PlanInv, BuildReturn
  PROVE  PlanInv'
<1>1. /\ trips = <<trips[1]>> /\ request \in Requests /\ OutboundBuilt
      /\ request' = request
  <2>1. Len(trips) = 1 /\ request' = request  BY DEF BuildReturn
  <2>2. trips # <<>>  BY <2>1
  <2>3. trips # <<trips[1], trips[2]>>  BY <2>1
  <2> QED  BY <2>1, <2>2, <2>3, Zenon DEF PlanInv
<1>2. trips[1].stops = Line  BY <1>1, Zenon DEF OutboundBuilt, Built
<1>3. PICK trip : /\ trips' = Append(trips, trip)
                  /\ Built(trip, Backwards(Line), ReturnLegs,
                           Backwards(request.interval), ReturnOverrides)
  <2>1. BuildTrip(Backwards(Line), ReturnLegs, Backwards(request.interval),
                  ReturnOverrides)
    BY <1>2, Zenon DEF BuildReturn
  <2> QED  BY <2>1, BuildTripBuilds
<1>4. /\ trips' = <<trips[1], trip>> /\ trips'[1] = trips[1]
      /\ trips'[2] = trip
  <2>1. Append(<<trips[1]>>, trip) = <<trips[1], trip>>  BY AppendOne, Zenon
  <2>2. trips' = <<trips[1], trip>>  BY <1>1, <1>3, <2>1, Zenon
  <2> QED  BY <2>2
<1>5. /\ OutboundOverrides' = OutboundOverrides /\ ReturnLegs' = ReturnLegs
      /\ ReturnOverrides' = ReturnOverrides
  BY <1>1, <1>4, Zenon DEF OutboundOverrides, ReturnLegs, ReturnOverrides
<1>6. OutboundBuilt'  BY <1>1, <1>4, <1>5, Zenon DEF OutboundBuilt
<1>7. ReturnBuilt'  BY <1>1, <1>3, <1>4, <1>5, Zenon DEF ReturnBuilt
<1> QED  BY <1>1, <1>4, <1>6, <1>7, Zenon DEF PlanInv, Requests

\* No step takes the invariant away.
LEMMA StepPlan ==
  ASSUME PlanInv, [Next]_vars
  PROVE  PlanInv'
<1>1. CASE BuildOutbound  BY <1>1, BuildOutboundPlan
<1>2. CASE BuildReturn  BY <1>2, BuildReturnPlan
<1>3. CASE StartService
  BY <1>3, Zenon DEF StartService, PlanInv
<1>4. CASE UNCHANGED <<request, trips>>
  <2>1. request' = request /\ trips' = trips  BY <1>4
  <2> QED  BY <2>1, Zenon DEF PlanInv, OutboundBuilt, ReturnBuilt,
            OutboundOverrides, ReturnOverrides, ReturnLegs, Requests
<1>5. CASE OutSlot  BY <1>4, <1>5 DEF OutSlot
<1>6. CASE RetSlot  BY <1>4, <1>6 DEF RetSlot
<1>7. CASE UNCHANGED vars  BY <1>4, <1>7 DEF vars
<1> QED  BY <1>1, <1>2, <1>3, <1>5, <1>6, <1>7 DEF Next

\* Every trip of every reachable plan is what BuildTrip() makes of the posted
\* line, in its direction: _build_trip_pair() mixes nothing up.
THEOREM PlansAreBuilt == Spec => []PlanInv
<1>1. Init => PlanInv  BY InitPlan
<1>2. PlanInv /\ [Next]_vars => PlanInv'  BY StepPlan
<1> QED  BY <1>1, <1>2, PTL DEF Spec
(***************************************************************************)
(* The properties.                                                         *)
(***************************************************************************)

\* A trip of the plan, whichever direction it is.
LEMMA TripsAreBuilt ==
  ASSUME PlanInv, NEW k \in DOMAIN trips
  PROVE  \E stops, legs, interval, overrides :
           /\ Posed(stops, legs, interval, overrides)
           /\ Built(trips[k], stops, legs, interval, overrides)
<1>1. trips # <<>>  OBVIOUS
<1>2. request \in Requests /\ OutboundBuilt  BY <1>1, Zenon DEF PlanInv
<1>3. Posed(Line, request.legs, request.interval, OutboundOverrides)
  BY <1>2, OutboundIsPosed
<1>4. CASE k = 1  BY <1>2, <1>3, <1>4, Zenon DEF OutboundBuilt
<1>5. CASE k # 1
  <2>1. trips # <<trips[1]>>
    <3>1. SUFFICES ASSUME trips = <<trips[1]>>  PROVE FALSE  OBVIOUS
    <3>2. DOMAIN <<trips[1]>> = {1}  OBVIOUS
    <3> QED  BY <1>5, <3>1, <3>2, Zenon
  <2>2. ReturnBuilt /\ trips = <<trips[1], trips[2]>>
    BY <1>1, <2>1, Zenon DEF PlanInv
  <2>3. k = 2
    <3>1. DOMAIN <<trips[1], trips[2]>> = {1, 2}  OBVIOUS
    <3> QED  BY <1>5, <2>2, <3>1, Zenon
  <2>4. Posed(Backwards(Line), ReturnLegs, Backwards(request.interval),
              ReturnOverrides)
    BY <1>2, ReturnIsPosed
  <2> QED  BY <2>2, <2>3, <2>4, Zenon DEF ReturnBuilt
<1> QED  BY <1>4, <1>5

\* Trip by trip, TypesFollowTheClock.
LEMMA PlannedTypesFollowTheClock ==
  ASSUME PlanInv
  PROVE  TypesFollowTheClock
<1> SUFFICES ASSUME NEW k \in DOMAIN trips,
                    NEW i \in 2 .. Len(trips[k].stops) - 1
             PROVE  LET trip == trips[k]
                    IN /\ trip.types[i] = "alighting" => trip.arr[i] >= NightEnd
                       /\ trip.types[i] = "night" => trip.dep[i] >= NightStart
                       /\ trip.dep[i] < NightStart => trip.types[i] = "boarding"
  BY DEF TypesFollowTheClock
<1>1. PICK stops, legs, interval, overrides :
        /\ Posed(stops, legs, interval, overrides)
        /\ Built(trips[k], stops, legs, interval, overrides)
  BY TripsAreBuilt
<1>2. Timed(trips[k])  BY <1>1, TripIsTimed
<1>3. i \in 2 .. LegCount
  <2>1. trips[k].stops \in [1 .. LegCount + 1 -> Stop]
    BY <1>1 DEF Posed, Built
  <2>2. LegCount \in Nat /\ LegCount + 1 \in Nat  BY LineFacts
  <2>3. Len(trips[k].stops) = LegCount + 1  BY <2>1, <2>2, LenOf
  <2> QED  BY <2>2, <2>3
<1> QED  BY <1>2, <1>3, TripTypesFollowTheClock

\* Trip by trip, SlackIsFair.
LEMMA PlannedSlackIsFair ==
  ASSUME PlanInv
  PROVE  SlackIsFair
<1>1. ASSUME NEW k \in Stretched
      PROVE  /\ k \in DOMAIN trips /\ trips[k].interval # NoInterval
             /\ \E stops, legs, interval, overrides :
                  /\ Posed(stops, legs, interval, overrides)
                  /\ Built(trips[k], stops, legs, interval, overrides)
                  /\ Timed(trips[k])
  <2>1. k \in DOMAIN trips /\ trips[k].interval # NoInterval
    BY <1>1 DEF Stretched
  <2>2. PICK stops, legs, interval, overrides :
          /\ Posed(stops, legs, interval, overrides)
          /\ Built(trips[k], stops, legs, interval, overrides)
    BY <2>1, TripsAreBuilt
  <2>3. Timed(trips[k])  BY <2>2, TripIsTimed
  <2> QED  BY <2>1, <2>2, <2>3, Zenon
<1> QED  BY <1>1, TripSlackIsFair, Zenon DEF SlackIsFair

\* Trip by trip, NightWindowHeld.
LEMMA PlannedNightsHold ==
  ASSUME PlanInv
  PROVE  NightWindowHeld
<1>1. ASSUME NEW k \in Stretched
      PROVE  /\ k \in DOMAIN trips /\ trips[k].interval # NoInterval
             /\ \E stops, legs, interval, overrides :
                  /\ Posed(stops, legs, interval, overrides)
                  /\ Built(trips[k], stops, legs, interval, overrides)
                  /\ Timed(trips[k])
  <2>1. k \in DOMAIN trips /\ trips[k].interval # NoInterval
    BY <1>1 DEF Stretched
  <2>2. PICK stops, legs, interval, overrides :
          /\ Posed(stops, legs, interval, overrides)
          /\ Built(trips[k], stops, legs, interval, overrides)
    BY <2>1, TripsAreBuilt
  <2>3. Timed(trips[k])  BY <2>2, TripIsTimed
  <2> QED  BY <2>1, <2>2, <2>3, Zenon
<1> QED  BY <1>1, TripHoldsWindow, Zenon DEF NightWindowHeld

\* PairStaysCentred from the two trips of a pair.
LEMMA PlannedPairIsCentred ==
  ASSUME PlanInv
  PROVE  PairStaysCentred
<1> SUFFICES ASSUME Len(trips) = 2, request.detour = 0,
                    request.return = Mirrored
             PROVE  LET Settled(trip) ==
                          trip.arr[Len(Line)] - Excess(trip, Len(Line))
                    IN /\ Centred(trips[1].dep[1], Settled(trips[2]))
                       /\ Centred(trips[2].dep[1], Settled(trips[1]))
  BY Zenon DEF PairStaysCentred
<1>1. request \in Requests /\ OutboundBuilt /\ ReturnBuilt
  <2>1. trips # <<>> /\ trips # <<trips[1]>>
    <3>1. Len(<<>>) = 0 /\ Len(<<trips[1]>>) = 1 /\ 2 # 0 /\ 2 # 1  OBVIOUS
    <3>2. CASE trips = <<>>
      <4>1. Len(trips) = 0  BY <3>1, <3>2, Zenon
      <4> QED  BY <4>1
    <3>3. CASE trips = <<trips[1]>>
      <4>1. Len(trips) = 1  BY <3>1, <3>3, Zenon
      <4> QED  BY <4>1
    <3> QED  BY <3>2, <3>3
  <2> QED  BY <2>1, Zenon DEF PlanInv
<1>2. /\ Posed(Line, request.legs, request.interval, OutboundOverrides)
      /\ Posed(Backwards(Line), ReturnLegs, Backwards(request.interval),
               ReturnOverrides)
  BY <1>1, OutboundIsPosed, ReturnIsPosed
<1>3. /\ ReturnLegs = Backwards(request.legs)
      /\ ReturnOverrides = MirrorOverrides(OutboundOverrides, trips[1].shift)
  BY <1>1, ReturnLegsAreNatural, Zenon DEF ReturnOverrides, OutboundOverrides
<1>4. Len(Line) = LegCount + 1
  <2>1. Len(Line) \in Nat  BY LineAssumption, LenProperties
  <2> QED  BY <2>1 DEF LegCount
<1>5. LET n == LegCount + 1
          Settled(trip) == trip.arr[n] - Excess(trip, n)
      IN  /\ Centred(trips[1].dep[1], Settled(trips[2]))
          /\ Centred(trips[2].dep[1], Settled(trips[1]))
  <2>1. /\ Posed(Backwards(Line), Backwards(request.legs),
                 Backwards(request.interval),
                 MirrorOverrides(OutboundOverrides, trips[1].shift))
        /\ Built(trips[2], Backwards(Line), Backwards(request.legs),
                 Backwards(request.interval),
                 MirrorOverrides(OutboundOverrides, trips[1].shift))
    BY <1>1, <1>2, <1>3, Zenon DEF ReturnBuilt
  <2>2. Built(trips[1], Line, request.legs, request.interval,
              OutboundOverrides)
    BY <1>1, Zenon DEF OutboundBuilt
  <2> QED  BY <1>2, <2>1, <2>2, PairIsCentred
<1> QED  BY <1>4, <1>5, Zenon

\* TypesFollowTheClock for every line, routing, override and dwell table: a
\* stop is never classified at a time the train only reaches the wrong side of.
THEOREM TypesAreRight == Spec => []TypesFollowTheClock
<1>1. PlanInv => TypesFollowTheClock  BY PlannedTypesFollowTheClock
<1> QED  BY <1>1, PlansAreBuilt, PTL

\* SlackIsFair for every line and routing: _distribute_slack() hands out exactly
\* what the night needs, each leg within one minute of its share.
THEOREM SlackSpreadsFairly == Spec => []SlackIsFair
<1>1. PlanInv => SlackIsFair  BY PlannedSlackIsFair
<1> QED  BY <1>1, PlansAreBuilt, PTL

\* NightWindowHeld for every line: a fixed interval nobody moved really spans
\* the night, in the final times of both directions.
THEOREM NightsAreHeld == Spec => []NightWindowHeld
<1>1. PlanInv => NightWindowHeld  BY PlannedNightsHold
<1> QED  BY <1>1, PlansAreBuilt, PTL

\* PairStaysCentred for every line: mirror_overrides() keeps a pair over the
\* same physics a mirror image around Mirror, to a rounding.
THEOREM PairsStayCentred == Spec => []PairStaysCentred
<1>1. PlanInv => PairStaysCentred  BY PlannedPairIsCentred
<1> QED  BY <1>1, PlansAreBuilt, PTL

(***************************************************************************)
(* Whole days.                                                             *)
(***************************************************************************)

\* Whole days: their arithmetic, in products with a constant Day.
LEMMA DayMultiples ==
  ASSUME NEW k \in Int, NEW l \in Int
  PROVE  /\ k * Day \in Int
         /\ (k + l) * Day = k * Day + l * Day
         /\ (k - l) * Day = k * Day - l * Day
         /\ 0 * Day = 0 /\ 1 * Day = Day
BY DayAssumption

\* A later day is at least a day later.
LEMMA DaysGrow ==
  ASSUME NEW k \in Int, NEW l \in Int, k < l
  PROVE  k * Day + Day <= l * Day
<1>1. /\ Day \in Int /\ Day > 0 /\ l - k >= 1 /\ l - k \in Int  BY DayAssumption
<1>2. (l - k) * Day = l * Day - k * Day /\ l * Day \in Int /\ k * Day \in Int
  BY DayMultiples
<1> DEFINE d == l - k
<1>3. d * Day >= Day
  <2> HIDE DEF d
  <2>1. d \in Int /\ d >= 1  BY <1>1 DEF d
  <2> QED  BY <1>1, <2>1
<1>4. (l - k) * Day >= Day  BY <1>3
<1> DEFINE x == (l - k) * Day
           y == l * Day
           z == k * Day
<1>5. x = y - z /\ x >= Day /\ y \in Int /\ z \in Int  BY <1>2, <1>4
<1> HIDE DEF x, y, z
<1>6. z + Day <= y  BY <1>1, <1>5
<1> QED  BY <1>6 DEF y, z

\* Two moments on the same clock, less than a day apart, are one.
LEMMA SameDay ==
  ASSUME NEW k \in Int, NEW l \in Int,
         k * Day < l * Day + Day, l * Day < k * Day + Day
  PROVE  k = l
<1>1. k * Day \in Int /\ l * Day \in Int /\ Day \in Int
  BY DayMultiples, DayAssumption
<1>2. CASE k < l
  <2>1. k * Day + Day <= l * Day  BY <1>2, DaysGrow
  <2> DEFINE y == l * Day
             z == k * Day
  <2>2. z + Day <= y /\ y < z + Day /\ y \in Int /\ z \in Int  BY <1>1, <2>1
  <2> HIDE DEF y, z
  <2> QED  BY <1>1, <2>2
<1>3. CASE l < k
  <2>1. l * Day + Day <= k * Day  BY <1>3, DaysGrow
  <2> DEFINE y == l * Day
             z == k * Day
  <2>2. y + Day <= z /\ z < y + Day /\ y \in Int /\ z \in Int  BY <1>1, <2>1
  <2> HIDE DEF y, z
  <2> QED  BY <1>1, <2>2
<1> QED  BY <1>2, <1>3

\* Whole days leave no remainder.
LEMMA DaysDivide ==
  ASSUME NEW k \in Int
  PROVE  (k * Day) % Day = 0
<1> DEFINE x == k * Day
           q == x \div Day
           r == x % Day
<1>1. x \in Int /\ Day \in Int /\ Day > 0  BY DayMultiples, DayAssumption
<1>2. q \in Int /\ r \in 0 .. Day - 1 /\ x = Day * q + r
  BY <1>1, DayDivision
<1>3. q * Day \in Int /\ Day * q = q * Day
  <2> HIDE DEF q
  <2> QED  BY <1>1, <1>2
<1> DEFINE p == q * Day
<1>4. x = p + r /\ p \in Int  BY <1>2, <1>3
<1>5. k = q
  <2>1. x < p + Day /\ p < x + Day
    <3> HIDE DEF x, p, r
    <3> QED  BY <1>1, <1>2, <1>4
  <2>2. k * Day < q * Day + Day /\ q * Day < k * Day + Day
    BY <2>1
  <2> HIDE DEF q
  <2> QED  BY <1>2, <2>2, SameDay
<1>6. x = p
  <2> HIDE DEF q
  <2> QED  BY <1>5
<1>7. r = 0
  <2> HIDE DEF x, p, r
  <2> QED  BY <1>1, <1>2, <1>4, <1>6
<1> QED  BY <1>7

\* How long a rake stands, from the layover and whole days.
LEMMA StoodFits ==
  ASSUME NEW k \in Int, NEW stood \in Int, NEW layover \in Nat,
         stood - layover = k * Day, stood >= 0
  PROVE  /\ (stood - layover) % Day = 0
         /\ layover < Day => stood >= layover
         /\ layover < Day /\ stood < layover + Day => stood = layover
<1>1. (stood - layover) % Day = 0  BY DaysDivide
<1>2. k * Day \in Int /\ 0 * Day = 0 /\ Day \in Int /\ Day > 0
  BY DayMultiples, DayAssumption
<1>3. ASSUME layover < Day  PROVE 0 <= k * Day
  <2>1. CASE k < 0
    <3>1. k * Day + Day <= 0  BY <1>2, <2>1, DaysGrow
    <3> DEFINE z == k * Day
    <3>2. z + Day <= 0 /\ stood - layover = z /\ z \in Int  BY <1>2, <3>1
    <3> HIDE DEF z
    <3> QED  BY <1>2, <1>3, <3>2
  <2>2. CASE 0 < k
    <3>1. 0 * Day + Day <= k * Day  BY <2>2, DaysGrow
    <3> QED  BY <1>2, <3>1
  <2> QED  BY <1>2, <2>1, <2>2
<1>4. ASSUME layover < Day, stood < layover + Day  PROVE k * Day <= 0
  <2>1. CASE 0 < k
    <3>1. 0 * Day + Day <= k * Day  BY <2>1, DaysGrow
    <3> DEFINE z == k * Day
    <3>2. 0 + Day <= z /\ stood - layover = z /\ z \in Int  BY <1>2, <3>1
    <3> HIDE DEF z
    <3> QED  BY <1>2, <1>4, <3>2
  <2>2. CASE k < 0
    <3>1. k * Day + Day <= 0 * Day  BY <2>2, DaysGrow
    <3> QED  BY <1>2, <3>1
  <2> QED  BY <1>2, <2>1, <2>2
<1> DEFINE z == k * Day
<1>5. /\ z \in Int /\ stood - layover = z
      /\ layover < Day => 0 <= z
      /\ layover < Day /\ stood < layover + Day => z <= 0
  BY <1>2, <1>3, <1>4
<1> HIDE DEF z
<1>6. /\ layover < Day => stood >= layover
      /\ layover < Day /\ stood < layover + Day => stood = layover
  BY <1>5
<1> QED  BY <1>1, <1>6

\* Of a finite set of rakes one has stood longest.
LEMMA EarliestExists ==
  ASSUME NEW S, IsFiniteSet(S), S # {}, NEW f, \A x \in S : f[x] \in Int
  PROVE  \E x \in S : \A y \in S : f[x] <= f[y]
<1> DEFINE First(T) == \E x \in T : \A y \in T : f[x] <= f[y]
           F == {T \in SUBSET S : T = {} \/ First(T)}
<1>1. {} \in F  OBVIOUS
<1>2. ASSUME NEW T \in F, NEW x \in S, T \in SUBSET S, x \notin T
      PROVE  T \cup {x} \in F
  <2>1. CASE T = {}
    <3>1. First(T \cup {x})  BY <2>1
    <3> QED  BY <3>1
  <2>2. CASE T # {}
    <3>1. PICK e \in T : \A y \in T : f[e] <= f[y]  BY <2>2
    <3>2. f[e] \in Int /\ f[x] \in Int /\ \A y \in T : f[y] \in Int  OBVIOUS
    <3>3. CASE f[e] <= f[x]
      <4>1. First(T \cup {x})  BY <3>1, <3>3
      <4> QED  BY <4>1
    <3>4. CASE ~(f[e] <= f[x])
      <4>1. \A y \in T \cup {x} : f[x] <= f[y]  BY <3>1, <3>2, <3>4
      <4>2. First(T \cup {x})  BY <4>1
      <4> QED  BY <4>2
    <3> QED  BY <3>3, <3>4
  <2> QED  BY <2>1, <2>2
<1>3. S \in F
  <2> HIDE DEF F
  <2>1. \A T \in F : \A x \in S :
          T \in SUBSET S /\ x \notin T => T \cup {x} \in F
    BY <1>2
  <2> QED  BY <1>1, <2>1, FiniteInduction
<1> QED  BY <1>3

(***************************************************************************)
(* The line in service.                                                    *)
(***************************************************************************)
OutDep == service.times.outDep
OutArr == service.times.outArr
RetDep == service.times.retDep
RetArr == service.times.retArr

\* The trip and the turnaround after it take time together.
Lasting == 0 \notin Turnarounds \/ 0 \notin LegTimes

Rake == [at : {"origin", "far"}, ready : Int, run : BOOLEAN]

\* The times the service was started with, and the layovers priced on them.
TimesKnown ==
  /\ OutDep \in Int /\ OutArr \in Int /\ RetDep \in Int /\ RetArr \in Int
  /\ service.turnaround \in Nat
  /\ OutArr + service.turnaround > OutDep
  /\ service.far = Layover(RetDep, OutArr)
  /\ service.origin = Layover(OutDep, RetArr)

\* The return is less than a day ahead.
SlotsKnown ==
  /\ nextOut \in Nat /\ nextRet \in Nat /\ RetTime - Day <= OutTime

\* Who stands at the far terminal came by one departure of its own, and has
\* not missed a return since it was ready.
FarKnown ==
  /\ \A r \in DOMAIN rakes : rakes[r].at = "far" =>
       /\ rakes[r].ready > RetTime - Day
       /\ \E k \in 0 .. nextOut - 1 :
            rakes[r].ready = k * Day + OutArr + service.turnaround
  /\ \A r, s \in DOMAIN rakes :
       /\ rakes[r].at = "far" /\ rakes[s].at = "far"
       /\ rakes[r].ready = rakes[s].ready
       => r = s

\* Who came back to the origin came by the clock of the return.
OriginKnown ==
  \A r \in DOMAIN rakes : rakes[r].at = "origin" /\ rakes[r].run =>
    \E k \in Int : rakes[r].ready = k * Day + RetArr + service.turnaround

RakesKnown ==
  /\ IsFiniteSet(DOMAIN rakes) /\ rakes \in [DOMAIN rakes -> Rake]

Running ==
  /\ trips = <<>> /\ request = NoRequest
  /\ TimesKnown /\ SlotsKnown /\ RakesKnown /\ FarKnown /\ OriginKnown

ServiceInv ==
  \/ rakes = <<>> /\ service = NoService /\ nextOut = 0 /\ nextRet = 0
  \/ Running

\* The two clocks, in whole days and the times of the day.
LEMMA ClocksKnown ==
  ASSUME TimesKnown, nextOut \in Nat, nextRet \in Nat
  PROVE  /\ OutTime = nextOut * Day + OutDep /\ OutTime \in Int
         /\ RetTime \in Int
         /\ \E j \in Int : RetTime = j * Day + RetDep
<1>1. /\ OutDep \in Int /\ RetDep \in Int /\ nextOut \in Int /\ nextRet \in Int
      /\ Day \in Int
  BY DayAssumption DEF TimesKnown
<1> DEFINE q == OutDep \div Day
           p == RetDep \div Day
           c == RetDep % Day
           n == nextRet + q
<1>2. q \in Int /\ p \in Int /\ c \in Int /\ RetDep = Day * p + c
  <2>1. q \in Int  BY <1>1, DayDivision
  <2>2. p \in Int /\ c \in 0 .. Day - 1 /\ RetDep = Day * p + c
    BY <1>1, DayDivision
  <2> QED  BY <1>1, <2>1, <2>2
<1>3. OutTime = nextOut * Day + OutDep  BY DEF OutTime, OutDep
<1>4. RetTime = n * Day + c  BY DEF RetTime, OutDep, RetDep
<1>5. nextOut * Day \in Int /\ n \in Int
  <2>1. n \in Int
    <3> HIDE DEF q
    <3> QED  BY <1>1, <1>2
  <2> QED  BY <1>1, <2>1, DayMultiples
<1> HIDE DEF q, n, c, p
<1>6. OutTime \in Int  BY <1>1, <1>3, <1>5
<1>7. n * Day \in Int /\ (n - p) * Day = n * Day - p * Day /\ p * Day \in Int
  BY <1>2, <1>5, DayMultiples
<1>8. Day * p = p * Day  BY <1>1, <1>2
<1> DEFINE x == n * Day
           y == p * Day
<1>9. /\ x \in Int /\ y \in Int /\ RetDep = y + c /\ RetTime = x + c
      /\ (n - p) * Day = x - y
  BY <1>2, <1>4, <1>7, <1>8
<1> HIDE DEF x, y
<1>10. RetTime \in Int /\ RetTime = (x - y) + RetDep  BY <1>1, <1>2, <1>9
<1>11. RetTime = (n - p) * Day + RetDep  BY <1>9, <1>10, Zenon
<1>12. n - p \in Int  BY <1>2, <1>5
<1> QED  BY <1>3, <1>6, <1>10, <1>11, <1>12

\* At most one rake can take a return.
LEMMA OneReturns ==
  ASSUME Running, NEW r \in Ready("far", RetTime), NEW s \in Ready("far", RetTime)
  PROVE  r = s
<1>1. /\ r \in DOMAIN rakes /\ rakes[r].at = "far" /\ rakes[r].ready <= RetTime
      /\ s \in DOMAIN rakes /\ rakes[s].at = "far" /\ rakes[s].ready <= RetTime
  BY DEF Ready
<1>2. /\ rakes[r].ready > RetTime - Day /\ rakes[s].ready > RetTime - Day
  BY <1>1 DEF Running, FarKnown
<1>3. PICK k \in 0 .. nextOut - 1 :
        rakes[r].ready = k * Day + OutArr + service.turnaround
  BY <1>1 DEF Running, FarKnown
<1>4. PICK l \in 0 .. nextOut - 1 :
        rakes[s].ready = l * Day + OutArr + service.turnaround
  BY <1>1 DEF Running, FarKnown
<1>5. /\ k \in Int /\ l \in Int /\ OutArr \in Int /\ service.turnaround \in Int
      /\ RetTime \in Int /\ Day \in Int
  <2>1. nextOut \in Nat /\ nextRet \in Nat /\ TimesKnown
    BY DEF Running, SlotsKnown
  <2>2. OutArr \in Int /\ service.turnaround \in Nat  BY <2>1 DEF TimesKnown
  <2>3. RetTime \in Int  BY <2>1, ClocksKnown
  <2> QED  BY <2>1, <2>2, <2>3, DayAssumption
<1>6. k * Day \in Int /\ l * Day \in Int  BY <1>5, DayMultiples
<1> DEFINE x == k * Day
           y == l * Day
           a == rakes[r].ready
           b == rakes[s].ready
<1>7. x < y + Day /\ y < x + Day
  <2>1. /\ a = x + OutArr + service.turnaround
        /\ b = y + OutArr + service.turnaround
        /\ a <= RetTime /\ b <= RetTime
        /\ a > RetTime - Day /\ b > RetTime - Day
        /\ x \in Int /\ y \in Int
    BY <1>1, <1>2, <1>3, <1>4, <1>6
  <2> HIDE DEF x, y, a, b
  <2> QED  BY <1>5, <2>1
<1>8. k = l
  <2>1. k * Day < l * Day + Day /\ l * Day < k * Day + Day  BY <1>7
  <2> QED  BY <1>5, <2>1, SameDay
<1>9. rakes[r].ready = rakes[s].ready  BY <1>3, <1>4, <1>8
<1> QED  BY <1>1, <1>9, Zenon DEF Running, FarKnown

\* The rake that has stood longest is one of those that are ready.
LEMMA LongestIsReady ==
  ASSUME RakesKnown, NEW ready, ready \subseteq DOMAIN rakes, ready # {}
  PROVE  LongestStanding(ready) \in ready
<1> DEFINE f == [r \in ready |-> rakes[r].ready]
<1>1. IsFiniteSet(ready)
  <2>1. IsFiniteSet(DOMAIN rakes)  BY DEF RakesKnown
  <2> QED  BY <2>1, FS_Subset
<1>2. \A r \in ready : f[r] \in Int  BY DEF RakesKnown, Rake
<1>3. \E r \in ready : \A s \in ready : f[r] <= f[s]
  <2> HIDE DEF f
  <2> QED  BY <1>1, <1>2, EarliestExists
<1>4. \E r \in ready : \A s \in ready : rakes[r].ready <= rakes[s].ready
  BY <1>3
<1> QED  BY <1>4 DEF LongestStanding

\* What a running service has of numbers.
LEMMA NumbersKnown ==
  ASSUME Running
  PROVE  /\ OutDep \in Int /\ OutArr \in Int /\ RetDep \in Int /\ RetArr \in Int
         /\ service.turnaround \in Int /\ service.turnaround >= 0
         /\ OutArr + service.turnaround > OutDep
         /\ nextOut \in Nat /\ nextRet \in Nat /\ Day \in Int /\ Day > 0
         /\ OutTime \in Int /\ RetTime \in Int
         /\ OutTime = nextOut * Day + OutDep
         /\ RetTime - Day <= OutTime
<1>1. /\ nextOut \in Nat /\ nextRet \in Nat /\ TimesKnown
      /\ RetTime - Day <= OutTime
  BY DEF Running, SlotsKnown
<1>2. /\ OutDep \in Int /\ OutArr \in Int /\ RetDep \in Int /\ RetArr \in Int
      /\ service.turnaround \in Nat
      /\ OutArr + service.turnaround > OutDep
  BY <1>1, Zenon DEF TimesKnown
<1>3. /\ OutTime \in Int /\ RetTime \in Int
      /\ OutTime = nextOut * Day + OutDep
  BY <1>1, ClocksKnown
<1> QED  BY <1>1, <1>2, <1>3, DayAssumption

\* A day further, on either clock.
LEMMA NextDay ==
  ASSUME NEW n \in Int
  PROVE  (n + 1) * Day = n * Day + Day /\ n * Day \in Int
<1>1. 1 \in Int /\ 1 * Day = Day /\ n * Day \in Int  BY DayMultiples
<1>2. (n + 1) * Day = n * Day + 1 * Day  BY <1>1, DayMultiples
<1> QED  BY <1>1, <1>2, Zenon

\* The rakes after one of them has left for place, ready there at moment.
LEMMA RakeLeaves ==
  ASSUME RakesKnown, NEW r \in DOMAIN rakes, NEW place \in {"origin", "far"},
         NEW moment \in Int,
         rakes' = [rakes EXCEPT ![r] =
                     [at |-> place, run |-> TRUE, ready |-> moment]]
  PROVE  /\ RakesKnown' /\ DOMAIN rakes' = DOMAIN rakes
         /\ rakes'[r].at = place /\ rakes'[r].run /\ rakes'[r].ready = moment
         /\ \A s \in DOMAIN rakes : s # r => rakes'[s] = rakes[s]
<1> DEFINE new == [at |-> place, run |-> TRUE, ready |-> moment]
<1>1. new \in Rake  BY DEF Rake
<1>2. IsFiniteSet(DOMAIN rakes) /\ rakes \in [DOMAIN rakes -> Rake]
  BY DEF RakesKnown
<1>3. rakes' \in [DOMAIN rakes -> Rake] /\ DOMAIN rakes' = DOMAIN rakes
  BY <1>1, <1>2
<1>4. RakesKnown'  BY <1>2, <1>3 DEF RakesKnown
<1>5. rakes'[r] = new /\ \A s \in DOMAIN rakes : s # r => rakes'[s] = rakes[s]
  BY <1>2
<1> QED  BY <1>3, <1>4, <1>5

\* A slot at the origin: whoever leaves is at the far terminal by a departure
\* nobody else came by, and in time for the next return.
LEMMA OutSlotRuns ==
  ASSUME Running, OutSlot
  PROVE  Running'
<1>1. /\ OutTime < RetTime /\ nextOut' = nextOut + 1
      /\ request' = request /\ trips' = trips /\ service' = service
      /\ nextRet' = nextRet
  BY DEF OutSlot
<1>2. /\ OutDep \in Int /\ OutArr \in Int /\ service.turnaround \in Int
      /\ OutArr + service.turnaround > OutDep
      /\ nextOut \in Nat /\ nextRet \in Nat /\ Day \in Int /\ Day > 0
      /\ OutTime \in Int /\ RetTime \in Int
      /\ OutTime = nextOut * Day + OutDep
      /\ RetTime - Day <= OutTime
  BY NumbersKnown
<1>3. /\ OutDep' = OutDep /\ OutArr' = OutArr /\ RetDep' = RetDep
      /\ RetArr' = RetArr
  BY <1>1 DEF OutDep, OutArr, RetDep, RetArr
<1>4. TimesKnown'  BY <1>1, <1>3, Zenon DEF Running, TimesKnown
<1>5. /\ RetTime' = RetTime /\ OutTime' = OutTime + Day
  <2>1. RetTime' = RetTime  BY <1>1 DEF RetTime
  <2>2. OutTime' = (nextOut + 1) * Day + OutDep
    BY <1>1 DEF OutTime, OutDep
  <2>3. (nextOut + 1) * Day = nextOut * Day + Day /\ nextOut * Day \in Int
    BY <1>2, NextDay
  <2> DEFINE x == nextOut * Day
  <2>4. x \in Int /\ OutTime = x + OutDep /\ OutTime' = (x + Day) + OutDep
    BY <1>2, <2>2, <2>3
  <2> HIDE DEF x
  <2>5. OutTime' = OutTime + Day  BY <1>2, <2>4
  <2> QED  BY <2>1, <2>5
<1>6. SlotsKnown'  BY <1>1, <1>2, <1>5 DEF SlotsKnown
<1>7. /\ RakesKnown /\ FarKnown /\ OriginKnown  BY DEF Running
<1>8. trips' = <<>> /\ request' = NoRequest  BY <1>1 DEF Running
<1>9. CASE rakes' = rakes
  <2>1. RakesKnown'  BY <1>7, <1>9, Zenon DEF RakesKnown
  <2>2. FarKnown'
    <3>1. \A k \in 0 .. nextOut - 1 : k \in 0 .. nextOut' - 1
      BY <1>1, <1>2
    <3>2. \A r \in DOMAIN rakes : rakes[r].at = "far" =>
            /\ rakes[r].ready > RetTime - Day
            /\ \E k \in 0 .. nextOut' - 1 :
                 rakes[r].ready = k * Day + OutArr + service.turnaround
      BY <1>7, <3>1, Zenon DEF FarKnown
    <3> QED  BY <1>1, <1>3, <1>5, <1>7, <1>9, <3>2, Zenon DEF FarKnown
  <2>3. OriginKnown'
    BY <1>1, <1>3, <1>7, <1>9, Zenon DEF OriginKnown
  <2> QED  BY <1>4, <1>6, <1>8, <2>1, <2>2, <2>3 DEF Running
<1>10. CASE rakes' # rakes
  <2> DEFINE ready == Ready("origin", OutTime)
             q == LongestStanding(ready)
             moment == OutTime + service.times.outArr - service.times.outDep
                         + service.turnaround
  <2>1. /\ ready # {}
        /\ rakes' = [rakes EXCEPT ![q] =
                       [at |-> "far", run |-> TRUE, ready |-> moment]]
    BY <1>10 DEF OutSlot
  <2>2. q \in ready
    <3>1. ready \subseteq DOMAIN rakes  BY DEF Ready
    <3> QED  BY <1>7, <2>1, <3>1, LongestIsReady
  <2>3. q \in DOMAIN rakes /\ rakes[q].at = "origin"  BY <2>2 DEF Ready
  <2>4. moment \in Int /\ moment = OutTime + OutArr - OutDep + service.turnaround
    BY <1>2 DEF OutArr, OutDep
  <2> HIDE DEF ready, q, moment
  <2>5. /\ RakesKnown' /\ DOMAIN rakes' = DOMAIN rakes
        /\ rakes'[q].at = "far" /\ rakes'[q].run /\ rakes'[q].ready = moment
        /\ \A s \in DOMAIN rakes : s # q => rakes'[s] = rakes[s]
    BY <1>7, <2>1, <2>3, <2>4, RakeLeaves
  <2> DEFINE x == nextOut * Day
  <2>6. /\ x \in Int /\ moment = x + OutArr + service.turnaround
        /\ moment > RetTime - Day
    <3>1. x \in Int /\ OutTime = x + OutDep  BY <1>2, NextDay
    <3> HIDE DEF x
    <3> QED  BY <1>2, <2>4, <3>1
  <2>7. ASSUME NEW r \in DOMAIN rakes, rakes[r].at = "far"
        PROVE  /\ rakes[r].ready # moment
               /\ rakes[r].ready > RetTime - Day
               /\ \E k \in 0 .. nextOut' - 1 :
                    rakes[r].ready = k * Day + OutArr + service.turnaround
    <3>1. PICK k \in 0 .. nextOut - 1 :
            rakes[r].ready = k * Day + OutArr + service.turnaround
      BY <1>7, <2>7 DEF FarKnown
    <3>2. rakes[r].ready > RetTime - Day  BY <1>7, <2>7 DEF FarKnown
    <3>3. k \in Int /\ nextOut \in Int /\ k < nextOut /\ k \in 0 .. nextOut' - 1
      BY <1>1, <1>2
    <3>4. k * Day + Day <= nextOut * Day /\ k * Day \in Int
      BY <3>3, DaysGrow, DayMultiples
    <3> DEFINE y == k * Day
               was == rakes[r].ready
    <3>5. /\ y + Day <= x /\ y \in Int
          /\ was = y + OutArr + service.turnaround
      BY <3>1, <3>4
    <3> HIDE DEF x, y, was
    <3>6. was # moment  BY <1>2, <2>6, <3>5
    <3> QED  BY <3>1, <3>2, <3>3, <3>6 DEF was
  <2>8. /\ moment > RetTime - Day
        /\ \E k \in 0 .. nextOut' - 1 :
             moment = k * Day + OutArr + service.turnaround
    <3>1. nextOut \in 0 .. nextOut' - 1  BY <1>1, <1>2
    <3> QED  BY <2>6, <3>1
  <2>9. FarKnown'
    <3>1. ASSUME NEW r \in DOMAIN rakes, rakes'[r].at = "far"
          PROVE  /\ rakes'[r].ready > RetTime - Day
                 /\ \E k \in 0 .. nextOut' - 1 :
                      rakes'[r].ready = k * Day + OutArr + service.turnaround
      <4>1. CASE r = q  BY <2>5, <2>8, <4>1, Zenon
      <4>2. CASE r # q  BY <2>5, <2>7, <3>1, <4>2, Zenon
      <4> QED  BY <4>1, <4>2
    <3>2. ASSUME NEW r \in DOMAIN rakes, NEW s \in DOMAIN rakes,
                 rakes'[r].at = "far", rakes'[s].at = "far",
                 rakes'[r].ready = rakes'[s].ready
          PROVE  r = s
      <4>1. CASE r # q /\ s # q
        BY <1>7, <2>5, <3>2, <4>1, Zenon DEF FarKnown
      <4>2. CASE r = q /\ s # q  BY <2>5, <2>7, <3>2, <4>2, Zenon
      <4>3. CASE r # q /\ s = q  BY <2>5, <2>7, <3>2, <4>3, Zenon
      <4> QED  BY <4>1, <4>2, <4>3
    <3> QED  BY <1>1, <1>3, <1>5, <2>5, <3>1, <3>2, Zenon DEF FarKnown
  <2>10. OriginKnown'
    <3>1. ASSUME NEW r \in DOMAIN rakes, rakes'[r].at = "origin", rakes'[r].run
          PROVE  \E k \in Int :
                   rakes'[r].ready = k * Day + RetArr + service.turnaround
      <4>1. r # q
        <5>1. "origin" # "far"  OBVIOUS
        <5> QED  BY <2>5, <3>1, <5>1, Zenon
      <4> QED  BY <1>7, <2>5, <3>1, <4>1, Zenon DEF OriginKnown
    <3> QED  BY <1>1, <1>3, <2>5, <3>1, Zenon DEF OriginKnown
  <2> QED  BY <1>4, <1>6, <1>8, <2>5, <2>9, <2>10 DEF Running
<1> QED  BY <1>9, <1>10

\* A return slot: the one rake that can take it does, and nobody else missed it.
LEMMA RetSlotRuns ==
  ASSUME Running, RetSlot
  PROVE  Running'
<1>1. /\ RetTime <= OutTime /\ nextRet' = nextRet + 1
      /\ request' = request /\ trips' = trips /\ service' = service
      /\ nextOut' = nextOut
  BY DEF RetSlot
<1>2. /\ OutDep \in Int /\ OutArr \in Int /\ service.turnaround \in Int
      /\ RetArr \in Int /\ RetDep \in Int
      /\ nextOut \in Nat /\ nextRet \in Nat /\ Day \in Int /\ Day > 0
      /\ OutTime \in Int /\ RetTime \in Int
  BY NumbersKnown
<1>3. /\ OutDep' = OutDep /\ OutArr' = OutArr /\ RetDep' = RetDep
      /\ RetArr' = RetArr
  BY <1>1 DEF OutDep, OutArr, RetDep, RetArr
<1>4. TimesKnown'  BY <1>1, <1>3, Zenon DEF Running, TimesKnown
<1>5. /\ RetTime' = RetTime + Day /\ OutTime' = OutTime
  <2>1. OutTime' = OutTime  BY <1>1 DEF OutTime
  <2> DEFINE q == OutDep \div Day
             c == RetDep % Day
             n == nextRet + q
  <2>2. q \in Int /\ c \in 0 .. Day - 1  BY <1>2, DayDivision
  <2>3. RetTime = (nextRet + q) * Day + c /\ RetTime' = (nextRet + 1 + q) * Day + c
    BY <1>1 DEF RetTime, OutDep, RetDep
  <2> HIDE DEF q, c
  <2>4. n \in Int /\ nextRet + 1 + q = n + 1  BY <1>2, <2>2
  <2>5. RetTime = n * Day + c /\ RetTime' = (n + 1) * Day + c
    BY <2>3, <2>4, Zenon
  <2> HIDE DEF n
  <2>6. (n + 1) * Day = n * Day + Day /\ n * Day \in Int  BY <2>4, NextDay
  <2> DEFINE x == n * Day
  <2>7. x \in Int /\ RetTime = x + c /\ RetTime' = (x + Day) + c
    BY <2>5, <2>6
  <2> HIDE DEF x
  <2>8. RetTime' = RetTime + Day
    <3>1. c \in Int  BY <1>2, <2>2
    <3> QED  BY <1>2, <2>7, <3>1
  <2> QED  BY <2>1, <2>8
<1>6. SlotsKnown'
  <2>1. RetTime' - Day <= OutTime'  BY <1>1, <1>2, <1>5
  <2>2. nextOut' \in Nat /\ nextRet' \in Nat  BY <1>1, <1>2
  <2> QED  BY <2>1, <2>2 DEF SlotsKnown
<1>7. /\ RakesKnown /\ FarKnown /\ OriginKnown  BY DEF Running
<1>8. trips' = <<>> /\ request' = NoRequest  BY <1>1 DEF Running
<1> DEFINE ready == Ready("far", RetTime)
           q == LongestStanding(ready)
           moment == RetTime + service.times.retArr - service.times.retDep
                       + service.turnaround
<1>9. rakes' = IF ready = {} THEN rakes
               ELSE [rakes EXCEPT ![q] =
                       [at |-> "origin", run |-> TRUE, ready |-> moment]]
  BY DEF RetSlot
\* whoever is not ready yet does not miss the next return
<1>10. ASSUME NEW r \in DOMAIN rakes, rakes[r].at = "far", r \notin ready
       PROVE  rakes[r].ready > RetTime' - Day
  <2>1. ~(rakes[r].ready <= RetTime)  BY <1>10 DEF Ready
  <2>2. rakes[r].ready \in Int  BY <1>7 DEF RakesKnown, Rake
  <2>3. rakes[r].ready > RetTime  BY <1>2, <2>1, <2>2
  <2>4. RetTime' - Day = RetTime  BY <1>2, <1>5
  <2> QED  BY <2>3, <2>4, Zenon
<1>11. CASE ready = {}
  <2>1. rakes' = rakes  BY <1>9, <1>11
  <2>2. RakesKnown'  BY <1>7, <2>1, Zenon DEF RakesKnown
  <2>3. FarKnown'
    <3>1. \A r \in DOMAIN rakes : rakes[r].at = "far" =>
            rakes[r].ready > RetTime' - Day
      BY <1>10, <1>11
    <3> QED  BY <1>1, <1>3, <1>7, <2>1, <3>1, Zenon DEF FarKnown
  <2>4. OriginKnown'  BY <1>1, <1>3, <1>7, <2>1, Zenon DEF OriginKnown
  <2> QED  BY <1>4, <1>6, <1>8, <2>2, <2>3, <2>4 DEF Running
<1>12. CASE ready # {}
  <2>1. q \in ready
    <3>1. ready \subseteq DOMAIN rakes  BY DEF Ready
    <3> QED  BY <1>7, <1>12, <3>1, LongestIsReady
  <2>2. q \in DOMAIN rakes  BY <2>1 DEF Ready
  <2>3. moment \in Int /\ moment = RetTime + RetArr - RetDep + service.turnaround
    BY <1>2 DEF RetArr, RetDep
  <2>4. \A r \in ready : r = q  BY <2>1, OneReturns
  <2>5. rakes' = [rakes EXCEPT ![q] =
                    [at |-> "origin", run |-> TRUE, ready |-> moment]]
    BY <1>9, <1>12
  <2> HIDE DEF ready, q, moment
  <2>6. /\ RakesKnown' /\ DOMAIN rakes' = DOMAIN rakes
        /\ rakes'[q].at = "origin" /\ rakes'[q].run /\ rakes'[q].ready = moment
        /\ \A s \in DOMAIN rakes : s # q => rakes'[s] = rakes[s]
    BY <1>7, <2>2, <2>3, <2>5, RakeLeaves
  <2>7. ASSUME NEW r \in DOMAIN rakes, rakes'[r].at = "far"
        PROVE  r # q /\ rakes'[r] = rakes[r] /\ r \notin ready
    <3>1. "origin" # "far"  OBVIOUS
    <3>2. r # q  BY <2>6, <2>7, <3>1, Zenon
    <3> QED  BY <2>4, <2>6, <3>2
  <2>8. FarKnown'
    <3>1. ASSUME NEW r \in DOMAIN rakes, rakes'[r].at = "far"
          PROVE  /\ rakes'[r].ready > RetTime' - Day
                 /\ \E k \in 0 .. nextOut - 1 :
                      rakes'[r].ready = k * Day + OutArr + service.turnaround
      <4>1. rakes'[r] = rakes[r] /\ r \notin ready /\ rakes[r].at = "far"
        BY <2>7, <3>1
      <4>2. rakes[r].ready > RetTime' - Day  BY <1>10, <4>1
      <4>3. \E k \in 0 .. nextOut - 1 :
              rakes[r].ready = k * Day + OutArr + service.turnaround
        BY <1>7, <4>1, Zenon DEF FarKnown
      <4> QED  BY <4>1, <4>2, <4>3, Zenon
    <3>2. ASSUME NEW r \in DOMAIN rakes, NEW s \in DOMAIN rakes,
                 rakes'[r].at = "far", rakes'[s].at = "far",
                 rakes'[r].ready = rakes'[s].ready
          PROVE  r = s
      <4>1. rakes'[r] = rakes[r] /\ rakes'[s] = rakes[s]  BY <2>7, <3>2
      <4> QED  BY <1>7, <3>2, <4>1, Zenon DEF FarKnown
    <3> QED  BY <1>1, <1>3, <2>6, <3>1, <3>2, Zenon DEF FarKnown
  <2>9. \E k \in Int : moment = k * Day + RetArr + service.turnaround
    <3>1. PICK j \in Int : RetTime = j * Day + RetDep
      <4>1. TimesKnown  BY DEF Running
      <4> QED  BY <1>2, <4>1, ClocksKnown
    <3>2. j * Day \in Int  BY DayMultiples
    <3> DEFINE x == j * Day
    <3>3. x \in Int /\ RetTime = x + RetDep  BY <3>1, <3>2
    <3> HIDE DEF x
    <3>4. moment = x + RetArr + service.turnaround  BY <1>2, <2>3, <3>3
    <3> QED  BY <3>4 DEF x
  <2>10. OriginKnown'
    <3>1. ASSUME NEW r \in DOMAIN rakes, rakes'[r].at = "origin", rakes'[r].run
          PROVE  \E k \in Int :
                   rakes'[r].ready = k * Day + RetArr + service.turnaround
      <4>1. CASE r = q  BY <2>6, <2>9, <4>1, Zenon
      <4>2. CASE r # q
        BY <1>7, <2>6, <3>1, <4>2, Zenon DEF OriginKnown
      <4> QED  BY <4>1, <4>2
    <3> QED  BY <1>1, <1>3, <2>6, <3>1, Zenon DEF OriginKnown
  <2> QED  BY <1>4, <1>6, <1>8, <2>6, <2>8, <2>10 DEF Running
<1> QED  BY <1>11, <1>12

\* The times a trip starts and ends at.
LEMMA TripTakesTime ==
  ASSUME NEW trip, Timed(trip)
  PROVE  /\ trip.dep[1] \in Int /\ Len(trip.arr) = LegCount + 1
         /\ trip.arr[LegCount + 1] \in Int
         /\ trip.arr[LegCount + 1] >= trip.dep[1]
         /\ trip.legs[1] > 0 => trip.arr[LegCount + 1] > trip.dep[1]
<1> DEFINE n == LegCount + 1
           m == LegCount
           A == Plan(trip).arr[n]
           B == Plan(trip).arr[2]
           C == Plan(trip).dep[2]
           L == Late(trip, m)
           S == Late(trip, 1)
<1>1. /\ m \in Nat /\ m > 0 /\ n \in 1 .. n /\ 1 \in 1 .. m /\ m \in 1 .. m
      /\ 2 \in 1 .. n /\ n \in Nat /\ 1 + 1 = 2 /\ 1 \in 1 .. n /\ 1 < n
  BY LineFacts
<1>2. Leaves(trip) \in Int  BY DEF Timed, Leaves
<1>3. /\ Plan(trip).dep[1] = 0 /\ A \in Int /\ B \in Int /\ C \in Int
      /\ 0 <= A /\ B <= C /\ (2 < n => C <= A)
  <2> DEFINE arr == Plan(trip).arr
             dep == Plan(trip).dep
  <2>1. /\ arr \in [1 .. LegCount + 1 -> Int] /\ dep \in [1 .. LegCount + 1 -> Int]
        /\ dep[1] = 0
        /\ \A i \in 1 .. LegCount + 1 : arr[i] <= dep[i]
        /\ \A i, j \in 1 .. LegCount + 1 : i < j => dep[i] <= arr[j]
    BY PlanGoesOn
  <2> HIDE DEF arr, dep
  <2>2. /\ dep[1] = 0 /\ arr[n] \in Int /\ arr[2] \in Int /\ dep[2] \in Int
        /\ dep[1] <= arr[n] /\ arr[2] <= dep[2] /\ (2 < n => dep[2] <= arr[n])
    BY <1>1, <2>1
  <2>3. 0 <= arr[n]  BY <2>2
  <2> QED  BY <2>2, <2>3, Zenon DEF arr, dep
<1>4. L \in Nat /\ S \in Nat  BY <1>1, LateGrows
<1>5. /\ trip.dep[1] = Leaves(trip) + Plan(trip).dep[1] + S
      /\ trip.arr[m + 1] = Leaves(trip) + Plan(trip).arr[m + 1] + L
  BY <1>1, TripFollowsPlan
<1>6. S = 0
  <2>1. 2 .. 1 = {}  OBVIOUS
  <2> QED  BY <2>1, SumOfNone DEF Late
<1>7. Len(trip.arr) = LegCount + 1
  <2>1. trip.arr \in [1 .. LegCount + 1 -> Int]  BY DEF Timed, IsWalk
  <2> QED  BY <1>1, <2>1, LenOf
<1>8. ASSUME trip.legs[1] > 0  PROVE 0 < A
  <2>1. B = Minutes(trip)[1]
    <3>1. IsWalk(Plan(trip).arr, Plan(trip).dep, LegCount, 0, Minutes(trip),
                 LeastStand)
      BY DEF Timed
    <3>2. Minutes(trip)[1] \in Int /\ B = Plan(trip).dep[1] + Minutes(trip)[1]
      BY <1>1, <3>1 DEF IsWalk
    <3> QED  BY <1>3, <3>2
  <2>2. Minutes(trip)[1] > 0
    <3>1. /\ trip.legs \in [1 .. m -> Nat] /\ trip.slack \in [1 .. m -> Nat]
          /\ trip.addon \in [1 .. m -> Nat]
      BY DEF Timed
    <3>2. /\ Plus(trip.slack, trip.addon) \in [1 .. m -> Nat]
      BY <1>1, <3>1, PlusOf
    <3>3. Minutes(trip)[1] = trip.legs[1] + Plus(trip.slack, trip.addon)[1]
      BY <1>1, <3>1, <3>2, PlusOf DEF Minutes
    <3>4. trip.legs[1] \in Nat /\ Plus(trip.slack, trip.addon)[1] \in Nat
      BY <1>1, <3>1, <3>2
    <3> QED  BY <1>8, <3>3, <3>4
  <2>3. CASE n = 2  BY <1>3, <2>1, <2>2, <2>3
  <2>4. CASE n # 2
    <3>1. 2 < n  BY <1>1, <2>4
    <3> HIDE DEF A, B, C
    <3> QED  BY <1>3, <2>1, <2>2, <3>1
  <2> QED  BY <2>3, <2>4
<1> DEFINE t == trip.arr[n]
           u == trip.dep[1]
<1>9. /\ u = Leaves(trip) /\ t = Leaves(trip) + A + L
  <2>1. u = Leaves(trip) + 0 + 0  BY <1>3, <1>5, <1>6
  <2> QED  BY <1>2, <1>5, <2>1
<1> HIDE DEF A, B, C, L, S, t, u
<1>10. /\ u \in Int /\ t \in Int /\ t >= u /\ (trip.legs[1] > 0 => t > u)
  BY <1>2, <1>3, <1>4, <1>8, <1>9
<1> QED  BY <1>7, <1>10 DEF t, u

\* The pair a service is started from.
LEMMA PairTakesTime ==
  ASSUME PlanInv, Len(trips) = 2
  PROVE  LET t == TerminalTimes(trips)
         IN  /\ t.outDep \in Int /\ t.outArr \in Int
             /\ t.retDep \in Int /\ t.retArr \in Int
             /\ t.outArr >= t.outDep /\ t.retArr >= t.retDep
             /\ 0 \notin LegTimes => t.outArr > t.outDep
<1>1. request \in Requests /\ OutboundBuilt /\ ReturnBuilt
  <2>1. trips # <<>> /\ trips # <<trips[1]>>
    <3>1. Len(<<>>) = 0 /\ Len(<<trips[1]>>) = 1 /\ 2 # 0 /\ 2 # 1  OBVIOUS
    <3>2. CASE trips = <<>>
      <4>1. Len(trips) = 0  BY <3>1, <3>2, Zenon
      <4> QED  BY <4>1
    <3>3. CASE trips = <<trips[1]>>
      <4>1. Len(trips) = 1  BY <3>1, <3>3, Zenon
      <4> QED  BY <4>1
    <3> QED  BY <3>2, <3>3
  <2> QED  BY <2>1, Zenon DEF PlanInv
<1>2. Timed(trips[1]) /\ Timed(trips[2])
  <2>1. /\ Posed(Line, request.legs, request.interval, OutboundOverrides)
        /\ Posed(Backwards(Line), ReturnLegs, Backwards(request.interval),
                 ReturnOverrides)
    BY <1>1, OutboundIsPosed, ReturnIsPosed
  <2>2. Timed(trips[1])  BY <1>1, <2>1, TripIsTimed, Zenon DEF OutboundBuilt
  <2>3. Timed(trips[2])  BY <1>1, <2>1, TripIsTimed, Zenon DEF ReturnBuilt
  <2> QED  BY <2>2, <2>3
<1> DEFINE out == trips[1]
           ret == trips[2]
           n == LegCount + 1
<1>3. /\ out.dep[1] \in Int /\ Len(out.arr) = n /\ out.arr[n] \in Int
      /\ out.arr[n] >= out.dep[1]
      /\ out.legs[1] > 0 => out.arr[n] > out.dep[1]
      /\ ret.dep[1] \in Int /\ Len(ret.arr) = n /\ ret.arr[n] \in Int
      /\ ret.arr[n] >= ret.dep[1]
  BY <1>2, TripTakesTime
<1>4. 0 \notin LegTimes => out.legs[1] > 0
  <2>1. out.legs = request.legs  BY <1>1, Zenon DEF OutboundBuilt, Built
  <2>2. request.legs \in [1 .. LegCount -> LegTimes] /\ 1 \in 1 .. LegCount
    BY <1>1, LineFacts DEF Requests, LegCount
  <2>3. request.legs[1] \in LegTimes /\ request.legs[1] \in Nat
    BY <2>2, TimeAssumption
  <2> QED  BY <2>1, <2>3
<1> DEFINE t == TerminalTimes(trips)
<1>5. /\ t.outDep = out.dep[1] /\ t.outArr = out.arr[n]
      /\ t.retDep = ret.dep[1] /\ t.retArr = ret.arr[n]
  <2> HIDE DEF out, ret, n
  <2>1. t = [outDep |-> out.dep[1], outArr |-> out.arr[Len(out.arr)],
             retDep |-> ret.dep[1], retArr |-> ret.arr[Len(ret.arr)]]
    BY Zenon DEF TerminalTimes, out, ret
  <2>2. Len(out.arr) = n /\ Len(ret.arr) = n  BY <1>3
  <2> QED  BY <2>1, <2>2
<1> HIDE DEF out, ret, n, t
<1>6. /\ t.outDep \in Int /\ t.outArr \in Int /\ t.retDep \in Int
      /\ t.retArr \in Int /\ t.outArr >= t.outDep /\ t.retArr >= t.retDep
      /\ 0 \notin LegTimes => t.outArr > t.outDep
  BY <1>3, <1>4, <1>5, Zenon
<1> QED  BY <1>6 DEF t

\* plan_route() hands over a line that can run.
LEMMA StartServiceRuns ==
  ASSUME PlanInv, ServiceInv, StartService, Lasting
  PROVE  Running'
<1>1. Len(trips) = 2  BY DEF StartService
<1>2. nextOut = 0 /\ nextRet = 0
  <2>1. trips # <<>>
    <3>1. Len(<<>>) = 0 /\ 2 # 0  OBVIOUS
    <3> QED  BY <1>1, <3>1, Zenon
  <2> QED  BY <2>1, Zenon DEF ServiceInv, Running
<1> DEFINE t == TerminalTimes(trips)
<1>3. /\ t.outDep \in Int /\ t.outArr \in Int
      /\ t.retDep \in Int /\ t.retArr \in Int
      /\ t.outArr >= t.outDep
      /\ 0 \notin LegTimes => t.outArr > t.outDep
  BY <1>1, PairTakesTime
<1>4. PICK turnaround \in Turnarounds, days \in DaysPerWeek :
        /\ service' = [times |-> t, turnaround |-> turnaround, days |-> days,
                       far |-> Layover(t.retDep, t.outArr),
                       origin |-> Layover(t.outDep, t.retArr)]
        /\ rakes' = [r \in 1 .. TrainsetsForCycle(
                                  CycleDaysBetween(t, turnaround), days) |->
                       [at |-> "origin", ready |-> t.outDep, run |-> FALSE]]
  BY Zenon DEF StartService
<1>5. /\ request' = NoRequest /\ trips' = <<>>
      /\ nextOut' = 0 /\ nextRet' = 0
  BY <1>2 DEF StartService
<1>6. turnaround \in Nat /\ days \in Nat /\ (0 \notin Turnarounds => turnaround > 0)
  BY TimeAssumption
<1> DEFINE cycle == CycleDaysBetween(t, turnaround)
           n == TrainsetsForCycle(cycle, days)
<1> HIDE DEF t
<1>7. n \in Int
  <2>1. \A ready, slot \in Int : NextSlot(ready, slot) \in Int
    <3> TAKE ready, slot \in Int
    <3>1. slot - ready \in Int  OBVIOUS
    <3>2. (slot - ready) \div Day \in Int  BY <3>1, DayDivision
    <3> DEFINE k == Greatest(0, -((slot - ready) \div Day))
    <3>3. k \in Int  BY <3>2 DEF Greatest
    <3> HIDE DEF k
    <3>4. k * Day \in Int  BY <3>3, DayMultiples
    <3>5. k * Day + slot \in Int  BY <3>4
    <3> QED  BY <3>5 DEF NextSlot, k
  <2>2. \A x \in Int : x % Day \in Int /\ x \div Day \in Int
    BY DayDivision, DayAssumption
  <2> DEFINE leaves == NextSlot(t.outArr + turnaround, t.retDep % Day)
             arrives == leaves + t.retArr - t.retDep
             next == NextSlot(arrives + turnaround, t.outDep % Day)
  <2>3. leaves \in Int
    <3>1. t.outArr + turnaround \in Int /\ t.retDep % Day \in Int
      BY <1>3, <1>6, <2>2
    <3> QED  BY <2>1, <3>1
  <2>4. next \in Int
    <3> HIDE DEF leaves
    <3>1. arrives + turnaround \in Int /\ t.outDep % Day \in Int
      BY <1>3, <1>6, <2>2, <2>3
    <3> HIDE DEF arrives
    <3> QED  BY <2>1, <3>1
  <2>5. cycle = Greatest(1, (next - t.outDep) \div Day)
    BY Zenon DEF CycleDaysBetween
  <2> HIDE DEF next, cycle
  <2>6. next - t.outDep \in Int  BY <1>3, <2>4
  <2>7. cycle \in Nat
    <3>1. (next - t.outDep) \div Day \in Int  BY <2>2, <2>6
    <3> QED  BY <2>5, <3>1 DEF Greatest
  <2>8. 7 * TrainsetsForCycle(cycle, days) >= cycle * days
    BY <1>6, <2>7, RakesCoverTheCycle
  <2> DEFINE work == cycle * days
  <2>9. work \in Int  BY <1>6, <2>7
  <2>10. n = -((-work) \div 7)  BY Zenon DEF TrainsetsForCycle
  <2> HIDE DEF work
  <2> QED  BY <2>9, <2>10
<1> HIDE DEF n, cycle
<1>8. rakes' = [r \in 1 .. n |->
                  [at |-> "origin", ready |-> t.outDep, run |-> FALSE]]
  BY <1>4 DEF n, cycle
<1>9. /\ OutDep' = t.outDep /\ OutArr' = t.outArr /\ RetDep' = t.retDep
      /\ RetArr' = t.retArr
      /\ (service.turnaround)' = turnaround
      /\ (service.far)' = Layover(t.retDep, t.outArr)
      /\ (service.origin)' = Layover(t.outDep, t.retArr)
      /\ (service.times)' = t
  BY <1>4 DEF OutDep, OutArr, RetDep, RetArr
<1>10. TimesKnown'
  <2>1. t.outArr + turnaround > t.outDep  BY <1>3, <1>6 DEF Lasting
  <2> QED  BY <1>3, <1>6, <1>9, <2>1 DEF TimesKnown
<1>11. SlotsKnown'
  <2> DEFINE q == t.outDep \div Day
             c == t.retDep % Day
             x == q * Day
  <2>0. Day \in Int /\ Day > 0  BY DayAssumption
  <2>1. /\ q \in Int /\ c \in 0 .. Day - 1 /\ t.outDep % Day \in 0 .. Day - 1
        /\ t.outDep = Day * q + (t.outDep % Day)
    BY <1>3, DayDivision
  <2>2. x \in Int /\ Day * q = x /\ 0 * Day = 0
    <3> HIDE DEF q
    <3> QED  BY <2>0, <2>1, DayMultiples
  <2>3. RetTime' = (0 + q) * Day + c /\ OutTime' = 0 * Day + t.outDep
    BY <1>5, <1>9 DEF RetTime, OutTime
  <2>4. RetTime' = x + c
    <3> HIDE DEF q, c
    <3>1. 0 + q = q  BY <2>1
    <3> QED  BY <2>3, <3>1 DEF x
  <2>5. OutTime' = t.outDep  BY <1>3, <2>2, <2>3
  <2> DEFINE rest == t.outDep % Day
  <2>6. t.outDep = x + rest /\ rest \in 0 .. Day - 1  BY <2>1, <2>2
  <2> HIDE DEF x, q, c, rest
  <2>7. RetTime' - Day <= OutTime'
    BY <1>3, <2>0, <2>1, <2>2, <2>4, <2>5, <2>6
  <2>8. nextOut' \in Nat /\ nextRet' \in Nat  BY <1>5
  <2> QED  BY <2>7, <2>8 DEF SlotsKnown
<1>12. DOMAIN rakes' = 1 .. n /\ \A r \in DOMAIN rakes' :
         /\ rakes'[r].at = "origin" /\ rakes'[r].run = FALSE
         /\ rakes'[r] \in Rake
  BY <1>3, <1>8 DEF Rake
<1>13. RakesKnown'
  <2>1. IsFiniteSet(1 .. n)  BY <1>7, FS_Interval
  <2>2. rakes' \in [DOMAIN rakes' -> Rake]
    <3>1. rakes' = [r \in DOMAIN rakes' |-> rakes'[r]]  BY <1>8
    <3> QED  BY <1>12, <3>1
  <2> QED  BY <1>12, <2>1, <2>2 DEF RakesKnown
<1>14. FarKnown' /\ OriginKnown'
  <2>1. \A r \in DOMAIN rakes' : rakes'[r].at # "far" /\ ~rakes'[r].run
    BY <1>12
  <2> QED  BY <2>1, Zenon DEF FarKnown, OriginKnown
<1> QED  BY <1>5, <1>10, <1>11, <1>13, <1>14 DEF Running

\* The invariant at the start.
LEMMA InitService == Init => ServiceInv
BY DEF Init, ServiceInv

\* No step takes the invariant away.
LEMMA StepService ==
  ASSUME PlanInv, ServiceInv, [Next]_vars, Lasting
  PROVE  ServiceInv'
<1>1. CASE StartService  BY <1>1, StartServiceRuns DEF ServiceInv
<1>2. CASE UNCHANGED <<request, trips, service, rakes, nextOut, nextRet>>
  <2>1. /\ request' = request /\ trips' = trips /\ service' = service
        /\ rakes' = rakes /\ nextOut' = nextOut /\ nextRet' = nextRet
    BY <1>2
  <2> QED  BY <2>1, Zenon DEF ServiceInv, Running, TimesKnown, SlotsKnown,
            RakesKnown, FarKnown, OriginKnown, RetTime, OutTime,
            OutDep, OutArr, RetDep, RetArr
<1>3. ASSUME rakes = <<>> /\ service = NoService /\ nextOut = 0 /\ nextRet = 0,
             BuildOutbound \/ BuildReturn
      PROVE  ServiceInv'
  BY <1>3 DEF BuildOutbound, BuildReturn, ServiceInv
<1>4. ASSUME Running, BuildOutbound \/ BuildReturn  PROVE FALSE
  <2>1. trips = <<>> /\ request = NoRequest  BY <1>4 DEF Running
  <2>2. Len(<<>>) = 0 /\ 0 # 1  OBVIOUS
  <2> QED  BY <1>4, <2>1, <2>2, Zenon DEF BuildOutbound, BuildReturn
<1>5. ASSUME OutSlot \/ RetSlot  PROVE Running
  <2>1. service # NoService  BY <1>5 DEF OutSlot, RetSlot, InService
  <2> QED  BY <2>1, Zenon DEF ServiceInv
<1>6. CASE OutSlot  BY <1>5, <1>6, OutSlotRuns DEF ServiceInv
<1>7. CASE RetSlot  BY <1>5, <1>7, RetSlotRuns DEF ServiceInv
<1>8. CASE UNCHANGED vars  BY <1>2, <1>8 DEF vars
<1>9. CASE BuildOutbound \/ BuildReturn
  BY <1>3, <1>4, <1>9, Zenon DEF ServiceInv
<1> QED  BY <1>1, <1>6, <1>7, <1>8, <1>9 DEF Next

\* What LayoverIsTheWait says of a rake that leaves.
WaitFits(r) ==
  LET far == rakes[r].at = "far"
      layover == IF far THEN service.far ELSE service.origin
      stood == (IF far THEN RetTime ELSE OutTime)
                 - (rakes[r].ready - service.turnaround)
  IN /\ (stood - layover) % Day = 0
     /\ layover < Day => stood >= layover
     /\ far /\ layover \in service.turnaround .. Day - 1 => stood = layover

\* The slots at the origin only let rakes leave that are ready there.
LEMMA OutLeaves ==
  ASSUME Running, OutSlot, NEW r \in DOMAIN rakes, rakes'[r] # rakes[r]
  PROVE  rakes[r].at = "origin" /\ rakes[r].ready <= OutTime
<1> DEFINE ready == Ready("origin", OutTime)
           q == LongestStanding(ready)
           moment == OutTime + service.times.outArr - service.times.outDep
                       + service.turnaround
<1>1. /\ ready # {}
      /\ rakes' = [rakes EXCEPT ![q] =
                     [at |-> "far", run |-> TRUE, ready |-> moment]]
  BY DEF OutSlot
<1>2. RakesKnown  BY DEF Running
<1>3. q \in ready
  <2>1. ready \subseteq DOMAIN rakes  BY DEF Ready
  <2> QED  BY <1>1, <1>2, <2>1, LongestIsReady
<1>4. r = q
  <2> HIDE DEF q
  <2>1. r # q => rakes'[r] = rakes[r]  BY <1>1, <1>2 DEF RakesKnown
  <2> QED  BY <2>1
<1> QED  BY <1>3, <1>4 DEF Ready

\* The return slots only let rakes leave that are ready at the far terminal.
LEMMA RetLeaves ==
  ASSUME Running, RetSlot, NEW r \in DOMAIN rakes, rakes'[r] # rakes[r]
  PROVE  rakes[r].at = "far" /\ rakes[r].ready <= RetTime
<1> DEFINE ready == Ready("far", RetTime)
           q == LongestStanding(ready)
           moment == RetTime + service.times.retArr - service.times.retDep
                       + service.turnaround
<1>1. /\ ready # {}
      /\ rakes' = [rakes EXCEPT ![q] =
                     [at |-> "origin", run |-> TRUE, ready |-> moment]]
  BY DEF RetSlot
<1>2. RakesKnown  BY DEF Running
<1>3. q \in ready
  <2>1. ready \subseteq DOMAIN rakes  BY DEF Ready
  <2> QED  BY <1>1, <1>2, <2>1, LongestIsReady
<1>4. r = q
  <2> HIDE DEF q
  <2>1. r # q => rakes'[r] = rakes[r]  BY <1>1, <1>2 DEF RakesKnown
  <2> QED  BY <2>1
<1> QED  BY <1>3, <1>4 DEF Ready

\* At the origin: the wait is the layover up to whole days, and no less.
LEMMA OriginWaits ==
  ASSUME Running, NEW r \in DOMAIN rakes, rakes[r].run,
         rakes[r].at = "origin", rakes[r].ready <= OutTime
  PROVE  WaitFits(r)
<1> DEFINE layover == service.origin
           was == rakes[r].ready
           stood == OutTime - (was - service.turnaround)
<1>1. /\ OutDep \in Int /\ RetArr \in Int /\ Day \in Int /\ Day > 0
      /\ service.turnaround \in Int /\ service.turnaround >= 0
      /\ nextOut \in Int /\ OutTime \in Int
      /\ OutTime = nextOut * Day + OutDep
  BY NumbersKnown
<1>2. PICK k \in Int : was = k * Day + RetArr + service.turnaround
  BY DEF Running, OriginKnown
<1>3. /\ layover \in Nat
      /\ \E l \in Int : layover = OutDep - RetArr + l * Day
  <2>1. layover = Layover(OutDep, RetArr)  BY DEF Running, TimesKnown
  <2>2. OutDep \in Int /\ RetArr \in Int  BY <1>1
  <2>3. /\ Layover(OutDep, RetArr) \in Nat
        /\ \E l \in Int : Layover(OutDep, RetArr) = OutDep - RetArr + l * Day
    BY <2>2, LayoverReadsTheClock
  <2> QED  BY <2>1, <2>3, Zenon
<1>4. PICK l \in Int : layover = OutDep - RetArr + l * Day  BY <1>3
<1>5. was \in Int  BY DEF Running, RakesKnown, Rake
<1> HIDE DEF layover, was
<1> DEFINE j == (nextOut - k) - l
<1>6. /\ j \in Int /\ nextOut * Day \in Int /\ k * Day \in Int /\ l * Day \in Int
      /\ j * Day = nextOut * Day - k * Day - l * Day
  <2>1. nextOut - k \in Int  BY <1>1
  <2>2. (nextOut - k) * Day = nextOut * Day - k * Day
    BY <1>1, DayMultiples
  <2>3. j * Day = (nextOut - k) * Day - l * Day  BY <2>1, DayMultiples
  <2> QED  BY <1>1, <2>1, <2>2, <2>3, DayMultiples
<1> DEFINE x == nextOut * Day
           y == k * Day
           z == l * Day
           w == j * Day
<1>7. /\ x \in Int /\ y \in Int /\ z \in Int /\ w = x - y - z
      /\ OutTime = x + OutDep /\ was = y + RetArr + service.turnaround
      /\ layover = OutDep - RetArr + z /\ layover \in Int
  BY <1>1, <1>2, <1>3, <1>4, <1>6
<1>8. was <= OutTime  BY DEF was
<1> HIDE DEF x, y, z, w, j
<1>9. /\ stood \in Int /\ stood >= 0 /\ stood - layover = w
  BY <1>1, <1>5, <1>7, <1>8
<1> HIDE DEF stood
<1>10. /\ (stood - layover) % Day = 0 /\ (layover < Day => stood >= layover)
  <2>1. stood - layover = j * Day  BY <1>9 DEF w
  <2>2. j \in Int /\ stood \in Int /\ stood >= 0 /\ layover \in Nat
    BY <1>3, <1>6, <1>9
  <2> QED  BY <2>1, <2>2, StoodFits
<1>11. rakes[r].at # "far"  OBVIOUS
<1> QED  BY <1>10, <1>11, Zenon DEF WaitFits, stood, layover, was

\* At the far terminal it is the layover itself, where a rake can turn in it.
LEMMA FarWaits ==
  ASSUME Running, NEW r \in DOMAIN rakes,
         rakes[r].at = "far", rakes[r].ready <= RetTime
  PROVE  WaitFits(r)
<1> DEFINE layover == service.far
           was == rakes[r].ready
           stood == RetTime - (was - service.turnaround)
<1>1. /\ OutArr \in Int /\ RetDep \in Int /\ Day \in Int /\ Day > 0
      /\ service.turnaround \in Int /\ service.turnaround >= 0
      /\ RetTime \in Int
  BY NumbersKnown
<1>2. PICK k \in Int : was = k * Day + OutArr + service.turnaround
  <2>1. PICK k \in 0 .. nextOut - 1 :
          was = k * Day + OutArr + service.turnaround
    BY DEF Running, FarKnown
  <2>2. k \in Int  OBVIOUS
  <2> QED  BY <2>1, <2>2
<1>3. /\ layover \in Nat
      /\ \E l \in Int : layover = RetDep - OutArr + l * Day
  <2>1. layover = Layover(RetDep, OutArr)  BY DEF Running, TimesKnown
  <2>2. RetDep \in Int /\ OutArr \in Int  BY <1>1
  <2>3. /\ Layover(RetDep, OutArr) \in Nat
        /\ \E l \in Int : Layover(RetDep, OutArr) = RetDep - OutArr + l * Day
    BY <2>2, LayoverReadsTheClock
  <2> QED  BY <2>1, <2>3, Zenon
<1>4. PICK l \in Int : layover = RetDep - OutArr + l * Day  BY <1>3
<1>5. was \in Int  BY DEF Running, RakesKnown, Rake
<1>6. PICK i \in Int : RetTime = i * Day + RetDep
  <2>1. TimesKnown /\ nextOut \in Nat /\ nextRet \in Nat
    BY DEF Running, SlotsKnown
  <2> QED  BY <2>1, ClocksKnown
<1>7. was <= RetTime /\ was > RetTime - Day  BY DEF Running, FarKnown
<1> HIDE DEF layover, was
<1> DEFINE j == (i - k) - l
<1>8. /\ j \in Int /\ i * Day \in Int /\ k * Day \in Int /\ l * Day \in Int
      /\ j * Day = i * Day - k * Day - l * Day
  <2>1. i - k \in Int  OBVIOUS
  <2>2. (i - k) * Day = i * Day - k * Day  BY DayMultiples
  <2>3. j * Day = (i - k) * Day - l * Day  BY <2>1, DayMultiples
  <2> QED  BY <2>1, <2>2, <2>3, DayMultiples
<1> DEFINE x == i * Day
           y == k * Day
           z == l * Day
           w == j * Day
<1>9. /\ x \in Int /\ y \in Int /\ z \in Int /\ w = x - y - z
      /\ RetTime = x + RetDep /\ was = y + OutArr + service.turnaround
      /\ layover = RetDep - OutArr + z /\ layover \in Int
  BY <1>2, <1>3, <1>4, <1>6, <1>8
<1> HIDE DEF x, y, z, w, j
<1>10. /\ stood \in Int /\ stood >= 0 /\ stood - layover = w
       /\ stood < service.turnaround + Day
  BY <1>1, <1>5, <1>7, <1>9
<1> HIDE DEF stood
<1>11. /\ (stood - layover) % Day = 0
       /\ layover < Day => stood >= layover
       /\ layover < Day /\ stood < layover + Day => stood = layover
  <2>1. stood - layover = j * Day  BY <1>10 DEF w
  <2>2. j \in Int /\ stood \in Int /\ stood >= 0 /\ layover \in Nat
    BY <1>3, <1>8, <1>10
  <2> QED  BY <2>1, <2>2, StoodFits
<1>12. layover \in service.turnaround .. Day - 1 => stood = layover
  BY <1>1, <1>9, <1>10, <1>11
<1> QED  BY <1>11, <1>12, Zenon DEF WaitFits, stood, layover, was

\* Any step that lets a rake leave.
LEMMA StepWaits ==
  ASSUME PlanInv, ServiceInv, Next, NEW r \in DOMAIN rakes,
         rakes[r].run, rakes'[r] # rakes[r]
  PROVE  WaitFits(r)
<1>1. rakes' # rakes  OBVIOUS
<1>2. DOMAIN rakes # {}  OBVIOUS
<1>3. rakes # <<>>
  <2>1. DOMAIN <<>> = {}  OBVIOUS
  <2> QED  BY <1>2, <2>1, Zenon
<1>4. Running  BY <1>3, Zenon DEF ServiceInv
<1>5. CASE BuildOutbound \/ BuildReturn
  BY <1>1, <1>5 DEF BuildOutbound, BuildReturn
<1>6. CASE StartService
  <2>1. Len(trips) = 2 /\ trips = <<>>
    BY <1>4, <1>6 DEF StartService, Running
  <2>2. Len(<<>>) = 0 /\ 0 # 2  OBVIOUS
  <2> QED  BY <2>1, <2>2, Zenon
<1>7. CASE OutSlot
  <2>1. rakes[r].at = "origin" /\ rakes[r].ready <= OutTime
    BY <1>4, <1>7, OutLeaves
  <2> QED  BY <1>4, <2>1, OriginWaits
<1>8. CASE RetSlot
  <2>1. rakes[r].at = "far" /\ rakes[r].ready <= RetTime
    BY <1>4, <1>8, RetLeaves
  <2> QED  BY <1>4, <2>1, FarWaits
<1> QED  BY <1>5, <1>6, <1>7, <1>8 DEF Next

\* The invariant of the service, in every reachable state.
THEOREM ServicesRun ==
  ASSUME Lasting
  PROVE  Spec => [](PlanInv /\ ServiceInv)
<1>1. Init => PlanInv /\ ServiceInv  BY InitPlan, InitService
<1>2. PlanInv /\ ServiceInv /\ [Next]_vars => PlanInv' /\ ServiceInv'
  BY StepPlan, StepService
<1> QED  BY <1>1, <1>2, PTL DEF Spec

\* LayoverIsTheWait, for every line that takes time to run or to turn on.
THEOREM LayoversAreWaits ==
  ASSUME Lasting
  PROVE  Spec => LayoverIsTheWait
<1>1. PlanInv /\ ServiceInv /\ [Next]_vars
        => [\A r \in DOMAIN rakes : rakes[r].run /\ rakes'[r] # rakes[r]
              => WaitFits(r)]_vars
  <2> SUFFICES ASSUME PlanInv, ServiceInv, Next
               PROVE  \A r \in DOMAIN rakes :
                        rakes[r].run /\ rakes'[r] # rakes[r] => WaitFits(r)
    BY Zenon
  <2> QED  BY StepWaits
<1>2. Spec => [](PlanInv /\ ServiceInv)  BY ServicesRun
<1> QED  BY <1>1, <1>2, PTL DEF Spec, LayoverIsTheWait, WaitFits

(***************************************************************************)
(* The fleet: a departure left unserved would need one rake more than the  *)
(* days of a cycle have departures.                                        *)
(***************************************************************************)

\* The departures of the days before one, spread evenly, and whether it has one.
Spread(days, day) == (day * days) \div 7
RunsOn(days, day) == Spread(days, day + 1) > Spread(days, day)

\* Counting days forward never takes a departure back.
LEMMA SpreadGrows ==
  ASSUME NEW days \in Nat, NEW day \in Int
  PROVE  /\ Spread(days, day) \in Int /\ Spread(days, day + 1) \in Int
         /\ Spread(days, day) <= Spread(days, day + 1)
         /\ 7 * Spread(days, day) <= day * days
         /\ day * days < 7 * Spread(days, day) + 7
<1> DEFINE x == day * days
           y == (day + 1) * days
<1>1. x \in Int /\ y \in Int /\ y = x + days  OBVIOUS
<1>2. Spread(days, day) = x \div 7 /\ Spread(days, day + 1) = y \div 7
  BY Zenon DEF Spread
<1> HIDE DEF x, y
<1>3. /\ x \div 7 \in Int /\ y \div 7 \in Int /\ x \div 7 <= y \div 7
      /\ 7 * (x \div 7) <= x /\ x < 7 * (x \div 7) + 7
  BY <1>1
<1> QED  BY <1>2, <1>3, Zenon DEF x

\* Of m days in a row no more have a departure than the spread grows by.
LEMMA DeparturesCount ==
  ASSUME NEW days \in Nat, NEW a \in Int, NEW m \in Nat
  PROVE  LET with == {d \in a .. a + m - 1 : RunsOn(days, d)}
         IN  /\ IsFiniteSet(with) /\ Cardinality(with) \in Nat
             /\ Cardinality(with) <= Spread(days, a + m) - Spread(days, a)
<1> DEFINE With(k) == {d \in a .. a + k - 1 : RunsOn(days, d)}
           T == {k \in Nat :
                   /\ IsFiniteSet(With(k)) /\ Cardinality(With(k)) \in Nat
                   /\ Cardinality(With(k))
                        <= Spread(days, a + k) - Spread(days, a)}
<1>1. 0 \in T
  <2>1. With(0) = {}
    <3>1. a .. a + 0 - 1 = {}  OBVIOUS
    <3> QED  BY <3>1
  <2>2. Spread(days, a + 0) - Spread(days, a) = 0
    <3>1. a + 0 = a /\ Spread(days, a) \in Int  BY SpreadGrows
    <3>2. Spread(days, a + 0) = Spread(days, a)  BY <3>1, Zenon
    <3> QED  BY <3>1, <3>2
  <2>3. IsFiniteSet({}) /\ Cardinality({}) = 0  BY FS_EmptySet
  <2> HIDE DEF With
  <2>4. IsFiniteSet(With(0)) /\ Cardinality(With(0)) = 0  BY <2>1, <2>3, Zenon
  <2> QED  BY <2>2, <2>4
<1>2. ASSUME NEW k \in Nat, k \in T  PROVE k + 1 \in T
  <2>1. /\ IsFiniteSet(With(k)) /\ Cardinality(With(k)) \in Nat
        /\ Cardinality(With(k)) <= Spread(days, a + k) - Spread(days, a)
    BY <1>2
  <2> DEFINE last == a + k
  <2>2. /\ last \in Int /\ a + (k + 1) = last + 1
        /\ Spread(days, last) \in Int /\ Spread(days, last + 1) \in Int
        /\ Spread(days, a) \in Int
        /\ Spread(days, last) <= Spread(days, last + 1)
    <3>1. last \in Int  OBVIOUS
    <3> HIDE DEF last
    <3>2. /\ Spread(days, last) \in Int /\ Spread(days, last + 1) \in Int
          /\ Spread(days, a) \in Int
          /\ Spread(days, last) <= Spread(days, last + 1)
      BY <3>1, SpreadGrows
    <3> QED  BY <3>1, <3>2 DEF last
  <2>3. a .. a + (k + 1) - 1 = (a .. a + k - 1) \cup {last}
        /\ last \notin a .. a + k - 1
    OBVIOUS
  <2>4. /\ IsFiniteSet(With(k + 1)) /\ Cardinality(With(k + 1)) \in Nat
        /\ Cardinality(With(k + 1))
             <= Spread(days, a + (k + 1)) - Spread(days, a)
    <3>1. CASE RunsOn(days, last)
      <4>1. With(k + 1) = With(k) \cup {last} /\ last \notin With(k)
        BY <2>3, <3>1
      <4> HIDE DEF With
      <4>2. /\ IsFiniteSet(With(k) \cup {last})
            /\ Cardinality(With(k) \cup {last}) = Cardinality(With(k)) + 1
        BY <2>1, <4>1, FS_AddElement
      <4>3. Spread(days, last) + 1 <= Spread(days, last + 1)
        BY <2>2, <3>1 DEF RunsOn
      <4> DEFINE s == Spread(days, last)
                 s1 == Spread(days, last + 1)
                 s0 == Spread(days, a)
                 c == Cardinality(With(k))
      <4>4. c <= s - s0 /\ s + 1 <= s1 /\ c \in Nat /\ s \in Int /\ s1 \in Int
            /\ s0 \in Int
        BY <2>1, <2>2, <4>3
      <4> HIDE DEF s, s0, s1, c
      <4>5. c + 1 <= s1 - s0 /\ c + 1 \in Nat  BY <4>4
      <4> QED  BY <2>2, <4>1, <4>2, <4>5, Zenon DEF s0, s1, c
    <3>2. CASE ~RunsOn(days, last)
      <4>1. With(k + 1) = With(k)
        BY <2>3, <3>2
      <4> HIDE DEF With
      <4> DEFINE s == Spread(days, last)
                 s1 == Spread(days, last + 1)
                 s0 == Spread(days, a)
                 c == Cardinality(With(k))
      <4>4. c <= s - s0 /\ s <= s1 /\ c \in Nat /\ s \in Int /\ s1 \in Int
            /\ s0 \in Int
        BY <2>1, <2>2
      <4> HIDE DEF s, s0, s1, c
      <4>5. c <= s1 - s0  BY <4>4
      <4> QED  BY <2>1, <2>2, <4>1, <4>5, Zenon DEF s0, s1, c
    <3> QED  BY <3>1, <3>2
  <2> HIDE DEF With
  <2> QED  BY <2>4
<1>3. m \in T
  <2> HIDE DEF T
  <2> QED  BY <1>1, <1>2, Climb
<1> QED  BY <1>3

\* Whoever is counted by trainsets_for_cycle(), of a cycle's days in a row no
\* more have a departure.
LEMMA CycleDepartures ==
  ASSUME NEW days \in Nat, NEW a \in Int, NEW cycle \in Nat
  PROVE  LET with == {d \in a .. a + cycle - 1 : RunsOn(days, d)}
             n == TrainsetsForCycle(cycle, days)
         IN  /\ IsFiniteSet(with) /\ n \in Nat /\ Cardinality(with) <= n
<1> DEFINE with == {d \in a .. a + cycle - 1 : RunsOn(days, d)}
           n == TrainsetsForCycle(cycle, days)
           work == cycle * days
<1>1. work \in Nat  OBVIOUS
<1>2. n \in Int
  <2>1. n = -((-work) \div 7)  BY Zenon DEF TrainsetsForCycle
  <2> HIDE DEF work
  <2> QED  BY <1>1, <2>1
<1>3. 7 * n >= work  BY RakesCoverTheCycle
<1>4. /\ IsFiniteSet(with) /\ Cardinality(with) \in Nat
      /\ Cardinality(with) <= Spread(days, a + cycle) - Spread(days, a)
  BY DeparturesCount
<1> DEFINE b == a + cycle
           x == a * days
           y == b * days
           s == Spread(days, a)
           t == Spread(days, b)
<1>5. x \in Int /\ y \in Int /\ y = x + work  OBVIOUS
<1>6. b \in Int  OBVIOUS
<1>7. /\ s \in Int /\ t \in Int /\ x < 7 * s + 7 /\ 7 * t <= y
  <2> HIDE DEF b
  <2> QED  BY <1>6, SpreadGrows
<1> HIDE DEF n, work, x, y, s, t
<1>8. t - s <= n /\ n >= 0  BY <1>1, <1>2, <1>3, <1>5, <1>7
<1>9. Cardinality(with) <= t - s  BY <1>4 DEF t, s
<1> HIDE DEF with
<1> QED  BY <1>2, <1>4, <1>7, <1>8, <1>9 DEF n, with

\* Days keep their order, and a day that starts before another ends is no later.
LEMMA DaysKeepOrder ==
  ASSUME NEW k \in Int, NEW l \in Int
  PROVE  /\ k <= l => k * Day <= l * Day
         /\ k * Day < l * Day + Day => k <= l
<1>1. k * Day \in Int /\ l * Day \in Int /\ Day \in Int /\ Day > 0
  BY DayMultiples, DayAssumption
<1> DEFINE x == k * Day
           y == l * Day
<1>2. k < l => x + Day <= y  BY DaysGrow
<1>3. l < k => y + Day <= x  BY DaysGrow
<1>4. k = l => x = y  OBVIOUS
<1>5. x \in Int /\ y \in Int  BY <1>1
<1> HIDE DEF x, y
<1>6. k <= l => x <= y  BY <1>1, <1>2, <1>4, <1>5
<1>7. x < y + Day => k <= l  BY <1>1, <1>3, <1>5
<1> QED  BY <1>6, <1>7 DEF x, y

\* Whole days, counted.
LEMMA DaysQuotient ==
  ASSUME NEW k \in Int
  PROVE  (k * Day) \div Day = k
<1> DEFINE x == k * Day
           q == x \div Day
           r == x % Day
<1>1. x \in Int /\ Day \in Int /\ Day > 0  BY DayMultiples, DayAssumption
<1>2. q \in Int /\ r \in 0 .. Day - 1 /\ x = Day * q + r
  BY <1>1, DayDivision
<1>3. r = 0  BY DaysDivide
<1>4. Day * q = q * Day /\ q * Day \in Int
  <2> HIDE DEF q
  <2> QED  BY <1>1, <1>2
<1> DEFINE p == q * Day
<1>5. x = p
  <2> HIDE DEF x, q, r
  <2>1. p \in Int /\ x = p + r /\ r = 0  BY <1>2, <1>3, <1>4
  <2> HIDE DEF p
  <2> QED  BY <1>1, <2>1
<1>6. k * Day < q * Day + Day /\ q * Day < k * Day + Day
  <2>1. x < p + Day /\ p < x + Day
    <3>1. x \in Int /\ x = p  BY <1>1, <1>5
    <3> HIDE DEF x, p
    <3> QED  BY <1>1, <3>1
  <2> QED  BY <2>1
<1>7. k = q
  <2> HIDE DEF q
  <2> QED  BY <1>2, <1>6, SameDay
<1> QED  BY <1>7

\* Whatever its proviso, a slot is never before the rake is ready.
LEMMA SlotFits ==
  ASSUME NEW ready \in Int, NEW slot \in Int
  PROVE  /\ NextSlot(ready, slot) \in Int
         /\ NextSlot(ready, slot) >= ready
         /\ \E k \in Nat : NextSlot(ready, slot) = k * Day + slot
<1> DEFINE x == slot - ready
           q == x \div Day
           k == Greatest(0, -q)
           p == Day * q
           y == k * Day
<1>1. x \in Int /\ Day \in Int /\ Day > 0  BY DayAssumption
<1>2. q \in Int /\ x % Day \in 0 .. Day - 1 /\ x = p + (x % Day)
  BY <1>1, DayDivision
<1>3. NextSlot(ready, slot) = y + slot  BY DEF NextSlot
<1>4. k \in Nat /\ -q <= k
  <2> HIDE DEF q
  <2> QED  BY <1>2 DEF Greatest
<1>5. /\ p \in Int /\ (-q) * Day = -p
  <2> HIDE DEF q
  <2> QED  BY <1>1, <1>2
<1>6. y \in Int /\ (-q) * Day <= y
  <2> DEFINE m == -q
  <2>1. m \in Int /\ k \in Int /\ m <= k
    <3> HIDE DEF q, k
    <3> QED  BY <1>2, <1>4
  <2> HIDE DEF m, k
  <2>2. m * Day <= k * Day /\ k * Day \in Int  BY <2>1, DaysKeepOrder, DayMultiples
  <2> QED  BY <2>2 DEF m
<1>7. y + slot \in Int /\ y + slot >= ready
  <2>1. -p <= y /\ p <= slot - ready
    <3>1. p <= x
      <4> HIDE DEF p, x
      <4> QED  BY <1>1, <1>2, <1>5
    <3> QED  BY <1>5, <1>6, <3>1
  <2> HIDE DEF p, y
  <2> QED  BY <1>5, <1>6, <2>1
<1> HIDE DEF k
<1> QED  BY <1>3, <1>4, <1>7

\* A moment on the clock of time, read off the clock of its remainder.
LEMMA ClockShifts ==
  ASSUME NEW time \in Int, NEW k \in Int
  PROVE  \E i \in Int : k * Day + (time % Day) = i * Day + time
<1> DEFINE p == time \div Day
           c == time % Day
           i == k - p
<1>1. p \in Int /\ c \in 0 .. Day - 1 /\ time = Day * p + c /\ Day \in Int
  BY DayDivision, DayAssumption
<1>2. Day * p = p * Day
  <2> HIDE DEF p
  <2> QED  BY <1>1
<1>3. i \in Int
  <2> HIDE DEF p
  <2> QED  BY <1>1
<1>4. (k - p) * Day = k * Day - p * Day /\ k * Day \in Int /\ p * Day \in Int
  BY <1>1, DayMultiples
<1> DEFINE x == k * Day
           y == p * Day
<1>5. time = y + c /\ i * Day = x - y /\ x \in Int /\ y \in Int
  BY <1>1, <1>2, <1>4
<1> HIDE DEF c, i
<1> DEFINE z == i * Day
<1>6. z = x - y  BY <1>5
<1> HIDE DEF x, y, z
<1>7. x + c = z + time
  <2>1. c \in Int  BY <1>1
  <2> QED  BY <1>5, <1>6, <2>1
<1> QED  BY <1>3, <1>7 DEF x, z, c

\* One cycle reaches from a departure past the first return a rake can take,
\* the ride back and the turnaround.
LEMMA CycleCovers ==
  ASSUME NEW t, NEW turnaround \in Nat,
         t.outDep \in Int, t.outArr \in Int, t.retDep \in Int, t.retArr \in Int
  PROVE  LET cycle == CycleDaysBetween(t, turnaround)
         IN  /\ cycle \in Nat /\ cycle > 0
             /\ \E i \in Int :
                  /\ i * Day + t.retDep >= t.outArr + turnaround
                  /\ i * Day + t.retArr + turnaround <= cycle * Day + t.outDep
<1> DEFINE u == t.outArr + turnaround
           retSlot == t.retDep % Day
           outSlot == t.outDep % Day
           leaves == NextSlot(u, retSlot)
           arrives == leaves + t.retArr - t.retDep
           back == arrives + turnaround
           next == NextSlot(back, outSlot)
           cycle == CycleDaysBetween(t, turnaround)
<1>1. u \in Int /\ retSlot \in Int /\ outSlot \in Int
  <2>1. retSlot \in 0 .. Day - 1 /\ outSlot \in 0 .. Day - 1  BY DayDivision
  <2> QED  BY <2>1, DayAssumption
<1>2. leaves \in Int /\ leaves >= u /\ \E k \in Nat : leaves = k * Day + retSlot
  <2> HIDE DEF u, retSlot
  <2> QED  BY <1>1, SlotFits
<1>3. PICK i \in Int : leaves = i * Day + t.retDep
  <2>1. PICK k \in Nat : leaves = k * Day + retSlot  BY <1>2
  <2>2. k \in Int  OBVIOUS
  <2>3. \E i \in Int : k * Day + retSlot = i * Day + t.retDep
    BY <2>2, ClockShifts
  <2> QED  BY <2>1, <2>3, Zenon
<1> DEFINE x == i * Day
<1>4. x \in Int  BY DayMultiples
<1>5. leaves = x + t.retDep  BY <1>3
<1>6. back \in Int /\ back = x + t.retArr + turnaround
  <2> HIDE DEF leaves, x
  <2> QED  BY <1>4, <1>5
<1>7. next \in Int /\ next >= back /\ \E k \in Nat : next = k * Day + outSlot
  <2> HIDE DEF back, outSlot
  <2> QED  BY <1>1, <1>6, SlotFits
<1>8. PICK j \in Int : next = j * Day + t.outDep
  <2>1. PICK k \in Nat : next = k * Day + outSlot  BY <1>7
  <2>2. k \in Int  OBVIOUS
  <2>3. \E j \in Int : k * Day + outSlot = j * Day + t.outDep
    BY <2>2, ClockShifts
  <2> QED  BY <2>1, <2>3, Zenon
<1> DEFINE y == j * Day
<1>9. y \in Int /\ y \div Day = j  BY DayMultiples, DaysQuotient
<1>10. cycle = Greatest(1, (next - t.outDep) \div Day)
  BY Zenon DEF CycleDaysBetween
<1> HIDE DEF leaves, back, next, cycle
<1>11. next - t.outDep = y
  <2>1. next = y + t.outDep  BY <1>8
  <2> HIDE DEF y
  <2> QED  BY <1>7, <1>9, <2>1
<1>12. cycle = Greatest(1, j)  BY <1>9, <1>10, <1>11, Zenon
<1>13. cycle \in Nat /\ cycle > 0 /\ cycle \in Int /\ j <= cycle
  BY <1>12 DEF Greatest
<1>14. y <= cycle * Day /\ cycle * Day \in Int
  BY <1>13, DaysKeepOrder, DayMultiples
<1> DEFINE z == cycle * Day
<1>15. /\ x + t.retDep >= t.outArr + turnaround
       /\ x + t.retArr + turnaround <= z + t.outDep
  <2>1. y <= z /\ z \in Int /\ next = y + t.outDep  BY <1>8, <1>14
  <2>2. u = t.outArr + turnaround  OBVIOUS
  <2> HIDE DEF x, y, z, u
  <2> QED  BY <1>1, <1>2, <1>4, <1>5, <1>6, <1>7, <1>9, <2>1, <2>2
<1> QED  BY <1>13, <1>15 DEF x, z, cycle

Cycle == CycleDaysBetween(service.times, service.turnaround)

\* The day each rake that has run left the origin last: no two left on one day,
\* and within a cycle of it the rake is back and turned.
LeftOn(left) ==
  /\ \A r \in DOMAIN rakes : rakes[r].run =>
       /\ left[r] \in 0 .. nextOut - 1 /\ RunsOn(service.days, left[r])
       /\ rakes[r].at = "far" =>
            rakes[r].ready = left[r] * Day + OutArr + service.turnaround
       /\ rakes[r].at = "origin" =>
            rakes[r].ready <= (left[r] + Cycle) * Day + OutDep
  /\ \A r \in DOMAIN rakes : ~rakes[r].run =>
       rakes[r].at = "origin" /\ rakes[r].ready = OutDep
  /\ \A r, s \in DOMAIN rakes :
       rakes[r].run /\ rakes[s].run /\ left[r] = left[s] => r = s

FleetKnown ==
  /\ service.days \in Nat /\ RetArr >= RetDep
  /\ DOMAIN rakes = 1 .. TrainsetsForCycle(Cycle, service.days)
  /\ \E left \in [DOMAIN rakes -> Int] : LeftOn(left)

FleetInv ==
  \/ rakes = <<>> /\ service = NoService
  \/ FleetKnown

\* The return a rake can take within the cycle of its departure.
LEMMA ReturnInCycle ==
  ASSUME Running
  PROVE  /\ Cycle \in Nat /\ Cycle > 0
         /\ \E i \in Int :
              /\ i * Day + RetDep >= OutArr + service.turnaround
              /\ i * Day + RetArr + service.turnaround <= Cycle * Day + OutDep
<1> DEFINE t == service.times
           u == service.turnaround
<1>1. /\ t.outDep \in Int /\ t.outArr \in Int /\ t.retDep \in Int
      /\ t.retArr \in Int /\ u \in Nat
  BY DEF Running, TimesKnown, OutDep, OutArr, RetDep, RetArr
<1>2. /\ CycleDaysBetween(t, u) \in Nat /\ CycleDaysBetween(t, u) > 0
      /\ \E i \in Int :
           /\ i * Day + t.retDep >= t.outArr + u
           /\ i * Day + t.retArr + u <= CycleDaysBetween(t, u) * Day + t.outDep
  <2> HIDE DEF t, u
  <2> QED  BY <1>1, CycleCovers
<1> QED  BY <1>2 DEF Cycle, OutDep, OutArr, RetDep, RetArr

\* Days apart on both clocks, from a departure on.
LEMMA DaysAfter ==
  ASSUME NEW d \in Int, NEW i \in Int
  PROVE  /\ d * Day \in Int /\ i * Day \in Int
         /\ (d + i) * Day = d * Day + i * Day
BY DayMultiples

\* A rake at the far terminal misses no return, so it takes one within the
\* cycle, and is back and turned when the cycle ends.
LEMMA BackInCycle ==
  ASSUME Running, NEW d \in Int,
         d * Day + OutArr + service.turnaround > RetTime - Day
  PROVE  RetTime + RetArr - RetDep + service.turnaround
           <= (d + Cycle) * Day + OutDep
<1> DEFINE u == service.turnaround
<1>1. /\ OutDep \in Int /\ OutArr \in Int /\ RetDep \in Int /\ RetArr \in Int
      /\ u \in Int /\ u >= 0 /\ Day \in Int /\ Day > 0 /\ RetTime \in Int
  BY NumbersKnown
<1>2. PICK j \in Int : RetTime = j * Day + RetDep
  BY ClocksKnown DEF Running, SlotsKnown
<1>3. Cycle \in Int  BY ReturnInCycle
<1>4. PICK i \in Int : /\ i * Day + RetDep >= OutArr + u
                       /\ i * Day + RetArr + u <= Cycle * Day + OutDep
  BY ReturnInCycle
<1> DEFINE a == d * Day
           b == i * Day
           c == j * Day
           e == Cycle * Day
           m == d + i
<1>5. /\ a \in Int /\ b \in Int /\ c \in Int /\ e \in Int
      /\ m * Day = a + b /\ (d + Cycle) * Day = a + e /\ m \in Int
  <2>1. a \in Int /\ b \in Int /\ c \in Int /\ m * Day = a + b
    BY DayMultiples
  <2>2. e \in Int /\ (d + Cycle) * Day = a + e  BY <1>3, DayMultiples
  <2>3. m \in Int  OBVIOUS
  <2> QED  BY <2>1, <2>2, <2>3
<1>6. /\ b + RetDep >= OutArr + u /\ b + RetArr + u <= e + OutDep
      /\ RetTime = c + RetDep /\ a + OutArr + u > RetTime - Day
  BY <1>2, <1>4
<1> HIDE DEF a, b, c, e, u, m
<1>7. c < (a + b) + Day  BY <1>1, <1>5, <1>6
<1>8. j <= m
  <2>1. j * Day < m * Day + Day  BY <1>5, <1>7 DEF c
  <2> QED  BY <1>5, <2>1, DaysKeepOrder
<1>9. c <= a + b
  <2>1. j * Day <= m * Day  BY <1>5, <1>8, DaysKeepOrder
  <2> QED  BY <1>5, <2>1 DEF c
<1>10. RetTime + RetArr - RetDep + u <= (a + e) + OutDep
  BY <1>1, <1>5, <1>6, <1>9
<1> QED  BY <1>5, <1>10 DEF u

\* A rake that is away at a departure left within the cycle before it.
LEMMA AwayInCycle ==
  ASSUME Running, FleetKnown, OutTime < RetTime,
         NEW left \in [DOMAIN rakes -> Int], LeftOn(left),
         NEW r \in DOMAIN rakes, r \notin Ready("origin", OutTime)
  PROVE  rakes[r].run /\ left[r] + Cycle > nextOut
<1> DEFINE u == service.turnaround
           d == left[r]
           was == rakes[r].ready
<1>1. /\ OutDep \in Int /\ OutArr \in Int /\ RetDep \in Int /\ RetArr \in Int
      /\ u \in Int /\ u >= 0 /\ Day \in Int /\ Day > 0 /\ RetTime \in Int
      /\ OutTime \in Int /\ nextOut \in Nat /\ OutTime = nextOut * Day + OutDep
  BY NumbersKnown
<1>2. was \in Int /\ rakes[r].at \in {"origin", "far"}
      /\ rakes[r].run \in BOOLEAN
  BY DEF Running, RakesKnown, Rake
<1>3. rakes[r].at = "origin" => was > OutTime
  <2>1. rakes[r].at = "origin" => ~(was <= OutTime)  BY DEF Ready
  <2> QED  BY <1>1, <1>2, <2>1
<1>4. rakes[r].run
  <2>1. nextOut \in Int /\ 0 <= nextOut /\ 0 \in Int  BY <1>1
  <2>2. 0 * Day <= nextOut * Day  BY <2>1, DaysKeepOrder
  <2>3. 0 * Day = 0 /\ nextOut * Day \in Int  BY <2>1, DayMultiples
  <2> DEFINE x == nextOut * Day
  <2>4. 0 <= x /\ x \in Int /\ OutTime = x + OutDep  BY <1>1, <2>2, <2>3
  <2> HIDE DEF x, was
  <2>5. OutDep <= OutTime  BY <1>1, <2>4
  <2> SUFFICES ASSUME ~rakes[r].run  PROVE FALSE  OBVIOUS
  <2>6. rakes[r].at = "origin" /\ was = OutDep  BY DEF LeftOn, was
  <2> QED  BY <1>1, <1>2, <1>3, <2>5, <2>6
<1>5. d \in Int /\ Cycle \in Int /\ nextOut \in Int
  <2>1. Cycle \in Nat  BY ReturnInCycle
  <2> QED  BY <1>1, <2>1
<1> DEFINE a == d * Day
           e == Cycle * Day
           x == nextOut * Day
           m == d + Cycle
<1>6. a \in Int /\ e \in Int /\ x \in Int /\ m * Day = a + e /\ m \in Int
  <2> HIDE DEF d
  <2>1. x \in Int /\ m \in Int  BY <1>5, DayMultiples
  <2>2. a \in Int /\ e \in Int /\ m * Day = a + e  BY <1>5, DayMultiples
  <2> QED  BY <2>1, <2>2
<1>7. OutTime = x + OutDep  BY <1>1
<1>8. SUFFICES ASSUME ~(m > nextOut)  PROVE FALSE
  BY <1>4
<1>9. m * Day <= x
  <2>1. m <= nextOut
    <3> HIDE DEF m
    <3> QED  BY <1>5, <1>6, <1>8
  <2> HIDE DEF m
  <2> QED  BY <1>5, <1>6, <2>1, DaysKeepOrder
<1>10. CASE rakes[r].at = "origin"
  <2>1. was <= m * Day + OutDep  BY <1>4, <1>10 DEF LeftOn
  <2> DEFINE y == m * Day
  <2>2. was <= y + OutDep /\ y <= x /\ y \in Int
    BY <1>6, <1>9, <2>1
  <2>3. was > OutTime  BY <1>3, <1>10
  <2> HIDE DEF was, y, x
  <2> QED  BY <1>1, <1>2, <1>6, <1>7, <2>2, <2>3
<1>11. CASE rakes[r].at = "far"
  <2>1. was = a + OutArr + u  BY <1>4, <1>11 DEF LeftOn
  <2>2. was > RetTime - Day  BY <1>11 DEF Running, FarKnown
  <2> HIDE DEF was, a, e, x, m, d
  <2>3. d * Day + OutArr + u > RetTime - Day  BY <2>1, <2>2 DEF a
  <2>4. RetTime + RetArr - RetDep + u <= (d + Cycle) * Day + OutDep
    <3> HIDE DEF u
    <3>1. d * Day + OutArr + service.turnaround > RetTime - Day
      BY <2>3 DEF u
    <3> QED  BY <1>5, <3>1, BackInCycle DEF u
  <2>5. RetTime + RetArr - RetDep + u <= (a + e) + OutDep
    BY <1>6, <2>4 DEF m
  <2>6. RetArr >= RetDep  BY DEF FleetKnown
  <2>7. a + e <= x  BY <1>6, <1>9
  <2> HIDE DEF u
  <2> QED  BY <1>1, <1>6, <1>7, <2>5, <2>6, <2>7
<1> QED  BY <1>2, <1>10, <1>11

\* Were every rake away, they would have left on more days than a cycle runs.
LEMMA SomeoneIsReady ==
  ASSUME Running, FleetKnown, OutTime < RetTime, Runs(nextOut)
  PROVE  Ready("origin", OutTime) # {}
<1> SUFFICES ASSUME Ready("origin", OutTime) = {}  PROVE FALSE
  OBVIOUS
<1> DEFINE days == service.days
           n == TrainsetsForCycle(Cycle, days)
           a == nextOut + 1 - Cycle
           with == {d \in a .. a + Cycle - 1 : RunsOn(days, d)}
<1>1. PICK left \in [DOMAIN rakes -> Int] : LeftOn(left)  BY DEF FleetKnown
<1>2. /\ days \in Nat /\ DOMAIN rakes = 1 .. n /\ Cycle \in Nat /\ nextOut \in Nat
  BY ReturnInCycle DEF FleetKnown, Running, SlotsKnown
<1>3. a \in Int /\ a + Cycle - 1 = nextOut  BY <1>2
<1>4. IsFiniteSet(with) /\ n \in Nat /\ Cardinality(with) <= n
  <2> HIDE DEF a, days
  <2> QED  BY <1>2, <1>3, CycleDepartures
<1>5. nextOut \in with
  <2>1. RunsOn(days, nextOut)  BY DEF Runs, RunsOn, Spread
  <2>2. nextOut \in a .. a + Cycle - 1
    <3>1. Cycle > 0  BY ReturnInCycle
    <3> QED  BY <1>2, <3>1
  <2> QED  BY <2>1, <2>2
<1>6. \A r \in DOMAIN rakes : left[r] \in with /\ left[r] < nextOut /\ rakes[r].run
  <2> TAKE r \in DOMAIN rakes
  <2>1. rakes[r].run /\ left[r] + Cycle > nextOut  BY <1>1, AwayInCycle
  <2>2. left[r] \in 0 .. nextOut - 1 /\ RunsOn(days, left[r])
    BY <1>1, <2>1 DEF LeftOn
  <2> QED  BY <1>2, <2>1, <2>2
<1> DEFINE S == 0 .. n
           f == [k \in S |-> IF k = 0 THEN nextOut ELSE left[k]]
<1>7. IsFiniteSet(S) /\ Cardinality(S) = n + 1
  <2> HIDE DEF n
  <2> QED  BY <1>4, FS_Interval
<1>8. f \in [S -> with]
  <2> HIDE DEF with, n
  <2>1. \A k \in S : k # 0 => k \in DOMAIN rakes  BY <1>2, <1>4
  <2> QED  BY <1>5, <1>6, <2>1
<1>9. Cardinality(with) < Cardinality(S)
  <2>1. Cardinality(with) \in Nat  BY <1>4, FS_CardinalityType
  <2> HIDE DEF with, S, n
  <2> QED  BY <1>4, <1>7, <2>1
<1>10. PICK k \in S, l \in S : k # l /\ f[k] = f[l]
  <2> HIDE DEF with, S, f
  <2> QED  BY <1>4, <1>7, <1>8, <1>9, FS_PigeonHole
<1>11. \A r \in DOMAIN rakes : left[r] # nextOut
  <2> HIDE DEF with
  <2>1. nextOut \in Int  BY <1>2
  <2> QED  BY <1>6, <2>1
<1>12. (k # 0 => k \in DOMAIN rakes) /\ (l # 0 => l \in DOMAIN rakes)
  <2> HIDE DEF n
  <2> QED  BY <1>2, <1>4
<1>13. f[k] = (IF k = 0 THEN nextOut ELSE left[k])
       /\ f[l] = (IF l = 0 THEN nextOut ELSE left[l])
  OBVIOUS
<1>14. k # 0 /\ l # 0 /\ left[k] = left[l]
  <2> HIDE DEF f, S
  <2> QED  BY <1>10, <1>11, <1>12, <1>13
<1>15. k = l
  <2> HIDE DEF f, S
  <2>1. rakes[k].run /\ rakes[l].run  BY <1>6, <1>12, <1>14
  <2> QED  BY <1>1, <1>12, <1>14, <2>1 DEF LeftOn
<1> QED  BY <1>10, <1>15

\* What a slot leaves alone: the days, the times and the number of rakes.
LEMMA FleetStays ==
  ASSUME FleetKnown, service' = service, DOMAIN rakes' = DOMAIN rakes,
         \E left \in [DOMAIN rakes -> Int] : LeftOn(left)'
  PROVE  FleetKnown'
BY Zenon DEF FleetKnown, Cycle, RetArr, RetDep

\* A slot at the origin: whoever leaves is the only one to have left that day.
LEMMA OutSlotFleet ==
  ASSUME Running, FleetKnown, OutSlot
  PROVE  FleetKnown'
<1>1. service' = service /\ nextOut' = nextOut + 1  BY DEF OutSlot
<1>2. /\ OutDep' = OutDep /\ OutArr' = OutArr /\ Cycle' = Cycle
      /\ (service.days)' = service.days
      /\ (service.turnaround)' = service.turnaround
  BY <1>1 DEF OutDep, OutArr, Cycle
<1>3. /\ OutDep \in Int /\ OutArr \in Int /\ service.turnaround \in Int
      /\ nextOut \in Nat /\ OutTime \in Int /\ OutTime = nextOut * Day + OutDep
  BY NumbersKnown
<1>4. PICK left \in [DOMAIN rakes -> Int] : LeftOn(left)  BY DEF FleetKnown
<1>5. \A d \in 0 .. nextOut - 1 : d \in 0 .. nextOut' - 1 /\ d # nextOut
  BY <1>1, <1>3
<1>6. nextOut \in 0 .. nextOut' - 1 /\ nextOut \in Int  BY <1>1, <1>3
<1>7. CASE rakes' = rakes
  <2>1. LeftOn(left)'
    BY <1>2, <1>4, <1>5, <1>7, Zenon DEF LeftOn
  <2> QED  BY <1>1, <1>7, <2>1, FleetStays
<1>8. CASE rakes' # rakes
  <2> DEFINE ready == Ready("origin", OutTime)
             q == LongestStanding(ready)
             moment == OutTime + service.times.outArr - service.times.outDep
                         + service.turnaround
  <2>1. /\ ready # {} /\ Runs(nextOut)
        /\ rakes' = [rakes EXCEPT ![q] =
                       [at |-> "far", run |-> TRUE, ready |-> moment]]
    BY <1>8 DEF OutSlot
  <2>2. RakesKnown  BY DEF Running
  <2>3. q \in DOMAIN rakes
    <3>1. ready \subseteq DOMAIN rakes  BY DEF Ready
    <3>2. q \in ready
      <4> HIDE DEF ready
      <4> QED  BY <2>1, <2>2, <3>1, LongestIsReady
    <3> QED  BY <3>1, <3>2
  <2>4. moment \in Int /\ moment = OutTime + OutArr - OutDep + service.turnaround
    BY <1>3 DEF OutArr, OutDep
  <2> DEFINE x == nextOut * Day
  <2>5. moment = x + OutArr + service.turnaround
    <3>1. x \in Int /\ OutTime = x + OutDep  BY <1>3, <1>6, DayMultiples
    <3> HIDE DEF x, moment
    <3> QED  BY <1>3, <2>4, <3>1
  <2> HIDE DEF ready, q, moment
  <2>6. /\ DOMAIN rakes' = DOMAIN rakes
        /\ rakes'[q].at = "far" /\ rakes'[q].run /\ rakes'[q].ready = moment
        /\ \A s \in DOMAIN rakes : s # q => rakes'[s] = rakes[s]
    BY <2>1, <2>2, <2>3, <2>4, RakeLeaves
  <2>7. RunsOn(service.days, nextOut)  BY <2>1 DEF Runs, RunsOn, Spread
  <2>8. PICK now \in [DOMAIN rakes -> Int] :
          /\ now[q] = nextOut
          /\ \A s \in DOMAIN rakes : s # q => now[s] = left[s]
    <3> DEFINE f == [left EXCEPT ![q] = nextOut]
    <3>1. /\ f \in [DOMAIN rakes -> Int] /\ f[q] = nextOut
          /\ \A s \in DOMAIN rakes : s # q => f[s] = left[s]
      BY <1>6, <2>3
    <3> QED  BY <3>1, Zenon
  <2>9. ASSUME NEW r \in DOMAIN rakes, rakes'[r].run
        PROVE  /\ now[r] \in 0 .. nextOut' - 1 /\ RunsOn(service.days, now[r])
               /\ rakes'[r].at = "far" =>
                    rakes'[r].ready = now[r] * Day + OutArr + service.turnaround
               /\ rakes'[r].at = "origin" =>
                    rakes'[r].ready <= (now[r] + Cycle) * Day + OutDep
    <3>1. CASE r = q
      <4>1. "far" # "origin"  OBVIOUS
      <4>2. rakes'[r].at # "origin"  BY <2>6, <3>1, <4>1, Zenon
      <4> QED  BY <1>6, <2>5, <2>6, <2>7, <2>8, <3>1, <4>2, Zenon
    <3>2. CASE r # q
      <4>1. rakes'[r] = rakes[r] /\ now[r] = left[r] /\ rakes[r].run
        BY <2>6, <2>8, <2>9, <3>2
      <4>2. /\ left[r] \in 0 .. nextOut - 1 /\ RunsOn(service.days, left[r])
            /\ rakes[r].at = "far" =>
                 rakes[r].ready = left[r] * Day + OutArr + service.turnaround
            /\ rakes[r].at = "origin" =>
                 rakes[r].ready <= (left[r] + Cycle) * Day + OutDep
        BY <1>4, <4>1, Zenon DEF LeftOn
      <4> QED  BY <1>5, <4>1, <4>2, Zenon
    <3> QED  BY <3>1, <3>2
  <2>10. ASSUME NEW r \in DOMAIN rakes, ~rakes'[r].run
         PROVE  rakes'[r].at = "origin" /\ rakes'[r].ready = OutDep
    <3>1. r # q  BY <2>6, <2>10, Zenon
    <3>2. rakes'[r] = rakes[r]  BY <2>6, <3>1
    <3> QED  BY <1>4, <2>10, <3>2, Zenon DEF LeftOn
  <2>11. ASSUME NEW r \in DOMAIN rakes, r # q, rakes'[r].run
         PROVE  now[r] # nextOut /\ now[r] = left[r] /\ rakes[r].run
    <3>1. rakes'[r] = rakes[r] /\ now[r] = left[r] /\ rakes[r].run
      BY <2>6, <2>8, <2>11
    <3>2. left[r] \in 0 .. nextOut - 1  BY <1>4, <3>1, Zenon DEF LeftOn
    <3> QED  BY <1>5, <3>1, <3>2, Zenon
  <2>12. ASSUME NEW r \in DOMAIN rakes, NEW s \in DOMAIN rakes,
                rakes'[r].run, rakes'[s].run, now[r] = now[s]
         PROVE  r = s
    <3>1. CASE r = q /\ s = q  BY <3>1
    <3>2. CASE r = q /\ s # q  BY <2>8, <2>11, <2>12, <3>2, Zenon
    <3>3. CASE r # q /\ s = q  BY <2>8, <2>11, <2>12, <3>3, Zenon
    <3>4. CASE r # q /\ s # q
      BY <1>4, <2>11, <2>12, <3>4, Zenon DEF LeftOn
    <3> QED  BY <3>1, <3>2, <3>3, <3>4
  <2>13. LeftOn(now)'
    BY <1>2, <2>6, <2>9, <2>10, <2>12, Zenon DEF LeftOn
  <2> QED  BY <1>1, <2>6, <2>8, <2>13, FleetStays
<1> QED  BY <1>7, <1>8

\* A return slot: who takes it is back and turned within its cycle.
LEMMA RetSlotFleet ==
  ASSUME Running, FleetKnown, RetSlot
  PROVE  FleetKnown'
<1>1. service' = service /\ nextOut' = nextOut  BY DEF RetSlot
<1>2. /\ OutDep' = OutDep /\ OutArr' = OutArr /\ Cycle' = Cycle
      /\ (service.days)' = service.days
      /\ (service.turnaround)' = service.turnaround
  BY <1>1 DEF OutDep, OutArr, Cycle
<1>3. /\ RetDep \in Int /\ RetArr \in Int /\ service.turnaround \in Int
      /\ RetTime \in Int
  BY NumbersKnown
<1>4. PICK left \in [DOMAIN rakes -> Int] : LeftOn(left)  BY DEF FleetKnown
<1> DEFINE ready == Ready("far", RetTime)
           q == LongestStanding(ready)
           moment == RetTime + service.times.retArr - service.times.retDep
                       + service.turnaround
<1>5. rakes' = IF ready = {} THEN rakes
               ELSE [rakes EXCEPT ![q] =
                       [at |-> "origin", run |-> TRUE, ready |-> moment]]
  BY DEF RetSlot
<1>6. CASE ready = {}
  <2>1. rakes' = rakes  BY <1>5, <1>6
  <2>2. LeftOn(left)'  BY <1>1, <1>2, <1>4, <2>1, Zenon DEF LeftOn
  <2> QED  BY <1>1, <2>1, <2>2, FleetStays
<1>7. CASE ready # {}
  <2>1. RakesKnown  BY DEF Running
  <2>2. q \in DOMAIN rakes /\ rakes[q].at = "far"
    <3>1. ready \subseteq DOMAIN rakes /\ \A r \in ready : rakes[r].at = "far"
      BY DEF Ready
    <3>2. q \in ready
      <4> HIDE DEF ready
      <4> QED  BY <1>7, <2>1, <3>1, LongestIsReady
    <3> QED  BY <3>1, <3>2
  <2>3. moment \in Int /\ moment = RetTime + RetArr - RetDep + service.turnaround
    BY <1>3 DEF RetArr, RetDep
  <2>4. rakes' = [rakes EXCEPT ![q] =
                    [at |-> "origin", run |-> TRUE, ready |-> moment]]
    BY <1>5, <1>7
  <2> HIDE DEF ready, q, moment
  <2>5. /\ DOMAIN rakes' = DOMAIN rakes
        /\ rakes'[q].at = "origin" /\ rakes'[q].run /\ rakes'[q].ready = moment
        /\ \A s \in DOMAIN rakes : s # q => rakes'[s] = rakes[s]
    BY <2>1, <2>2, <2>3, <2>4, RakeLeaves
  <2>6. rakes[q].run
    <3>1. "far" # "origin"  OBVIOUS
    <3> QED  BY <1>4, <2>2, <3>1, Zenon DEF LeftOn
  <2>7. /\ left[q] \in 0 .. nextOut - 1 /\ RunsOn(service.days, left[q])
        /\ rakes[q].ready = left[q] * Day + OutArr + service.turnaround
    BY <1>4, <2>2, <2>6, Zenon DEF LeftOn
  <2>8. moment <= (left[q] + Cycle) * Day + OutDep
    <3>1. rakes[q].ready > RetTime - Day  BY <2>2 DEF Running, FarKnown
    <3>2. left[q] \in Int  BY <2>2
    <3>3. left[q] * Day + OutArr + service.turnaround > RetTime - Day
      BY <2>7, <3>1, Zenon
    <3> DEFINE d == left[q]
    <3> HIDE DEF d
    <3>4. RetTime + RetArr - RetDep + service.turnaround
            <= (d + Cycle) * Day + OutDep
      BY <3>2, <3>3, BackInCycle DEF d
    <3> QED  BY <2>3, <3>4 DEF d
  <2>9. ASSUME NEW r \in DOMAIN rakes, rakes'[r].run
        PROVE  /\ left[r] \in 0 .. nextOut - 1 /\ RunsOn(service.days, left[r])
               /\ rakes'[r].at = "far" =>
                    rakes'[r].ready = left[r] * Day + OutArr + service.turnaround
               /\ rakes'[r].at = "origin" =>
                    rakes'[r].ready <= (left[r] + Cycle) * Day + OutDep
    <3>1. CASE r = q
      <4>1. "far" # "origin"  OBVIOUS
      <4>2. rakes'[r].at # "far"  BY <2>5, <3>1, <4>1, Zenon
      <4> QED  BY <2>5, <2>7, <2>8, <3>1, <4>2, Zenon
    <3>2. CASE r # q
      <4>1. rakes'[r] = rakes[r] /\ rakes[r].run  BY <2>5, <2>9, <3>2
      <4> QED  BY <1>4, <4>1, Zenon DEF LeftOn
    <3> QED  BY <3>1, <3>2
  <2>10. ASSUME NEW r \in DOMAIN rakes
         PROVE  rakes'[r].run <=> rakes[r].run
    <3>1. CASE r = q  BY <2>5, <2>6, <3>1, Zenon
    <3>2. CASE r # q  BY <2>5, <3>2, Zenon
    <3> QED  BY <3>1, <3>2
  <2>11. ASSUME NEW r \in DOMAIN rakes, ~rakes'[r].run
         PROVE  rakes'[r].at = "origin" /\ rakes'[r].ready = OutDep
    <3>1. r # q /\ rakes'[r] = rakes[r]  BY <2>5, <2>11, Zenon
    <3> QED  BY <1>4, <2>11, <3>1, Zenon DEF LeftOn
  <2>12. \A r, s \in DOMAIN rakes :
           rakes'[r].run /\ rakes'[s].run /\ left[r] = left[s] => r = s
    BY <1>4, <2>10, Zenon DEF LeftOn
  <2>13. LeftOn(left)'
    BY <1>1, <1>2, <2>5, <2>9, <2>11, <2>12, Zenon DEF LeftOn
  <2> QED  BY <1>1, <2>5, <2>13, FleetStays
<1> QED  BY <1>6, <1>7

\* At the start of the service no rake has left.
LEMMA StartServiceFleet ==
  ASSUME PlanInv, StartService
  PROVE  FleetKnown'
<1> DEFINE t == TerminalTimes(trips)
<1>1. Len(trips) = 2  BY DEF StartService
<1>2. t.retArr >= t.retDep  BY <1>1, PairTakesTime
<1>3. PICK turnaround \in Turnarounds, days \in DaysPerWeek :
        /\ service' = [times |-> t, turnaround |-> turnaround, days |-> days,
                       far |-> Layover(t.retDep, t.outArr),
                       origin |-> Layover(t.outDep, t.retArr)]
        /\ rakes' = [r \in 1 .. TrainsetsForCycle(
                                  CycleDaysBetween(t, turnaround), days) |->
                       [at |-> "origin", ready |-> t.outDep, run |-> FALSE]]
  BY Zenon DEF StartService
<1> HIDE DEF t
<1>4. days \in Nat  BY TimeAssumption
<1>5. /\ (service.days)' = days /\ (service.times)' = t
      /\ (service.turnaround)' = turnaround
  BY <1>3
<1>6. /\ RetArr' = t.retArr /\ RetDep' = t.retDep /\ OutDep' = t.outDep
      /\ Cycle' = CycleDaysBetween(t, turnaround)
  BY <1>5 DEF RetArr, RetDep, OutDep, Cycle
<1>7. DOMAIN rakes' = 1 .. TrainsetsForCycle(Cycle', days)
  BY <1>3, <1>6
<1>8. \A r \in DOMAIN rakes' :
        /\ rakes'[r].at = "origin" /\ rakes'[r].ready = t.outDep
        /\ rakes'[r].run = FALSE
  BY <1>3
<1>9. PICK left : left \in [DOMAIN rakes' -> Int]
  <2>1. [r \in DOMAIN rakes' |-> 0] \in [DOMAIN rakes' -> Int]  OBVIOUS
  <2> QED  BY <2>1, Zenon
<1>10. LeftOn(left)'  BY <1>6, <1>8, Zenon DEF LeftOn
<1> QED  BY <1>2, <1>4, <1>5, <1>6, <1>7, <1>9, <1>10 DEF FleetKnown

\* No step takes the invariant of the fleet away.
LEMMA StepFleet ==
  ASSUME PlanInv, ServiceInv, FleetInv, [Next]_vars
  PROVE  FleetInv'
<1>1. CASE StartService  BY <1>1, StartServiceFleet DEF FleetInv
<1>2. CASE UNCHANGED <<service, rakes, nextOut>>
  <2>1. service' = service /\ rakes' = rakes /\ nextOut' = nextOut  BY <1>2
  <2>2. \A left : LeftOn(left) => LeftOn(left)'
    BY <2>1, Zenon DEF LeftOn, Cycle, OutDep, OutArr
  <2>3. FleetKnown => FleetKnown'
    <3> SUFFICES ASSUME FleetKnown  PROVE FleetKnown'  OBVIOUS
    <3>1. \E left \in [DOMAIN rakes -> Int] : LeftOn(left)'
      BY <2>2, Zenon DEF FleetKnown
    <3> QED  BY <2>1, <3>1, FleetStays
  <2> QED  BY <2>1, <2>3, Zenon DEF FleetInv
<1>3. ASSUME OutSlot \/ RetSlot  PROVE Running /\ FleetKnown
  <2>1. service # NoService  BY <1>3 DEF OutSlot, RetSlot, InService
  <2> QED  BY <2>1, Zenon DEF ServiceInv, FleetInv
<1>4. CASE OutSlot  BY <1>3, <1>4, OutSlotFleet DEF FleetInv
<1>5. CASE RetSlot  BY <1>3, <1>5, RetSlotFleet DEF FleetInv
<1>6. CASE UNCHANGED vars  BY <1>2, <1>6 DEF vars
<1>7. CASE BuildOutbound \/ BuildReturn
  BY <1>2, <1>7 DEF BuildOutbound, BuildReturn
<1> QED  BY <1>1, <1>4, <1>5, <1>6, <1>7 DEF Next

\* The counted fleet is enough: at every departure due a rake is ready.
THEOREM DeparturesAreServed ==
  ASSUME Lasting
  PROVE  Spec => []DeparturesServed
<1>1. Init => FleetInv  BY DEF Init, FleetInv
<1>2. PlanInv /\ ServiceInv /\ FleetInv /\ [Next]_vars => FleetInv'
  BY StepFleet
<1>3. PlanInv /\ ServiceInv /\ FleetInv => DeparturesServed
  <2> SUFFICES ASSUME ServiceInv, FleetInv, service # NoService,
                      OutTime < RetTime, Runs(nextOut)
               PROVE  Ready("origin", OutTime) # {}
    BY Zenon DEF DeparturesServed, InService
  <2>1. Running /\ FleetKnown  BY Zenon DEF ServiceInv, FleetInv
  <2> QED  BY <2>1, SomeoneIsReady
<1>4. Spec => [](PlanInv /\ ServiceInv)  BY ServicesRun
<1> QED  BY <1>1, <1>2, <1>3, <1>4, PTL DEF Spec

(***************************************************************************)
(* The other half: the line needs every rake that was counted.             *)
(*                                                                         *)
(* A departure binds a rake until the last day of its cycle, since no      *)
(* return it could take is back sooner (CycleIsLeast).  So the departures  *)
(* of one cycle bind a rake each (CycleBinds); in a week that is counted   *)
(* out evenly some cycle has as many as there are rakes (FullCycle).       *)
(***************************************************************************)

\* No return before the first one a rake can take brings it back in time for
\* a departure within the cycle, and that one does not either: the cycle is
\* the first day the rake can leave again.  The proviso is that of
\* SlotIsTheFirst.
LEMMA CycleIsLeast ==
  ASSUME NEW t, NEW turnaround \in Nat,
         t.outDep \in Int, t.outArr \in Int, t.retDep \in Int, t.retArr \in Int,
         t.retArr >= t.retDep, t.outArr + turnaround >= 0,
         CycleDaysBetween(t, turnaround) > 1,
         NEW i \in Int, i * Day + t.retDep >= t.outArr + turnaround
  PROVE  i * Day + t.retArr + turnaround
           > (CycleDaysBetween(t, turnaround) - 1) * Day + t.outDep
<1> DEFINE u == t.outArr + turnaround
           retSlot == t.retDep % Day
           outSlot == t.outDep % Day
           leaves == NextSlot(u, retSlot)
           arrives == leaves + t.retArr - t.retDep
           back == arrives + turnaround
           next == NextSlot(back, outSlot)
           cycle == CycleDaysBetween(t, turnaround)
<1>1. /\ u \in Int /\ u >= 0 /\ Day \in Int /\ Day > 0
      /\ retSlot \in 0 .. Day - 1 /\ outSlot \in 0 .. Day - 1
  <2>1. retSlot \in 0 .. Day - 1 /\ outSlot \in 0 .. Day - 1  BY DayDivision
  <2> QED  BY <2>1, DayAssumption
<1>2. /\ leaves \in Int /\ leaves >= u /\ leaves < u + Day
      /\ \E k \in Nat : leaves = k * Day + retSlot
  <2> HIDE DEF u, retSlot
  <2>1. u > retSlot - Day  BY <1>1
  <2> QED  BY <1>1, <2>1, SlotIsTheFirst
<1>3. PICK l \in Int : leaves = l * Day + t.retDep
  <2>1. PICK k \in Nat : leaves = k * Day + retSlot  BY <1>2
  <2>2. k \in Int  OBVIOUS
  <2>3. \E l \in Int : k * Day + retSlot = l * Day + t.retDep
    BY <2>2, ClockShifts
  <2> QED  BY <2>1, <2>3, Zenon
<1> DEFINE x == l * Day
           y == i * Day
<1>4. x \in Int /\ y \in Int  BY DayMultiples
<1>5. leaves = x + t.retDep /\ y + t.retDep >= u  BY <1>3
<1>6. x <= y
  <2>1. x < y + Day
    <3> HIDE DEF x, y, u, leaves
    <3> QED  BY <1>1, <1>2, <1>4, <1>5
  <2>2. l * Day < i * Day + Day  BY <2>1
  <2>3. l <= i  BY <2>2, DaysKeepOrder
  <2> QED  BY <2>3, DaysKeepOrder
<1>7. /\ back \in Int /\ back >= 0
      /\ back <= y + t.retArr + turnaround
  <2>1. u = t.outArr + turnaround  OBVIOUS
  <2> HIDE DEF leaves, x, y, u
  <2> QED  BY <1>1, <1>2, <1>4, <1>5, <1>6, <2>1
<1>8. /\ next \in Int /\ next < back + Day
      /\ \E k \in Nat : next = k * Day + outSlot
  <2> HIDE DEF back, outSlot
  <2>1. back > outSlot - Day  BY <1>1, <1>7
  <2> QED  BY <1>1, <1>7, <2>1, SlotIsTheFirst
<1>9. PICK j \in Int : next = j * Day + t.outDep
  <2>1. PICK k \in Nat : next = k * Day + outSlot  BY <1>8
  <2>2. k \in Int  OBVIOUS
  <2>3. \E j \in Int : k * Day + outSlot = j * Day + t.outDep
    BY <2>2, ClockShifts
  <2> QED  BY <2>1, <2>3, Zenon
<1> DEFINE z == j * Day
<1>10. z \in Int /\ z \div Day = j  BY DayMultiples, DaysQuotient
<1>11. cycle = Greatest(1, (next - t.outDep) \div Day)
  BY Zenon DEF CycleDaysBetween
<1> HIDE DEF leaves, back, next, cycle
<1>12. next - t.outDep = z
  <2>1. next = z + t.outDep  BY <1>9
  <2> HIDE DEF z
  <2> QED  BY <1>8, <1>10, <2>1
<1>13. cycle = Greatest(1, j)  BY <1>10, <1>11, <1>12, Zenon
<1>14. cycle = j
  <2>1. cycle > 1  BY DEF cycle
  <2> QED  BY <1>13, <2>1 DEF Greatest
<1>15. (cycle - 1) * Day = z - Day
  <2>1. (j - 1) * Day = j * Day - 1 * Day /\ 1 * Day = Day  BY DayMultiples
  <2> QED  BY <1>14, <2>1, Zenon
<1>16. (z - Day) + t.outDep < y + t.retArr + turnaround
  <2> HIDE DEF x, y, z
  <2> QED  BY <1>1, <1>4, <1>7, <1>8, <1>10, <1>12
<1> QED  BY <1>4, <1>10, <1>15, <1>16 DEF cycle

\* Of m days in a row as many have a departure as the spread grows by: in a
\* week of at most seven departures no day has two.
LEMMA DeparturesAreSpread ==
  ASSUME NEW days \in 0 .. 7, NEW a \in Int, NEW m \in Nat
  PROVE  LET with == {d \in a .. a + m - 1 : RunsOn(days, d)}
         IN  Cardinality(with) >= Spread(days, a + m) - Spread(days, a)
<1> DEFINE With(k) == {d \in a .. a + k - 1 : RunsOn(days, d)}
           T == {k \in Nat :
                   Cardinality(With(k)) >= Spread(days, a + k) - Spread(days, a)}
<1>1. 0 \in T
  <2>1. With(0) = {}
    <3>1. a .. a + 0 - 1 = {}  OBVIOUS
    <3> QED  BY <3>1
  <2>2. Spread(days, a + 0) - Spread(days, a) = 0
    <3>1. a + 0 = a /\ Spread(days, a) \in Int  BY SpreadGrows
    <3>2. Spread(days, a + 0) = Spread(days, a)  BY <3>1, Zenon
    <3> QED  BY <3>1, <3>2
  <2>3. Cardinality({}) = 0  BY FS_EmptySet
  <2> HIDE DEF With
  <2>4. Cardinality(With(0)) = 0  BY <2>1, <2>3, Zenon
  <2> QED  BY <2>2, <2>4
<1>2. ASSUME NEW k \in Nat, k \in T  PROVE k + 1 \in T
  <2> DEFINE last == a + k
             s == Spread(days, last)
             s1 == Spread(days, last + 1)
             s0 == Spread(days, a)
             c == Cardinality(With(k))
  <2>1. /\ c >= s - s0 /\ c \in Nat /\ IsFiniteSet(With(k))
        /\ s \in Int /\ s1 \in Int /\ s0 \in Int /\ s1 <= s + 1
    <3>1. c >= s - s0  BY <1>2
    <3>2. c \in Nat /\ IsFiniteSet(With(k))
      <4>1. days \in Nat  OBVIOUS
      <4> QED  BY <4>1, DeparturesCount, Zenon
    <3>3. last \in Int /\ days \in Nat /\ days <= 7  OBVIOUS
    <3> DEFINE w == last * days
    <3>4. w \in Int /\ (last + 1) * days = w + days  BY <3>3
    <3>5. s = w \div 7 /\ s1 = ((last + 1) * days) \div 7 /\ s0 \in Int
      BY SpreadGrows DEF Spread
    <3> HIDE DEF c, w, s0, last
    <3>6. s1 = (w + days) \div 7  BY <3>4, <3>5
    <3> HIDE DEF s, s1
    <3>7. s \in Int /\ s1 \in Int /\ s1 <= s + 1
      BY <3>3, <3>4, <3>5, <3>6
    <3> QED  BY <3>1, <3>2, <3>5, <3>7
  <2>2. a .. a + (k + 1) - 1 = (a .. a + k - 1) \cup {last}
        /\ last \notin a .. a + k - 1 /\ a + (k + 1) = last + 1
    OBVIOUS
  <2>3. Cardinality(With(k + 1)) >= s1 - s0
    <3>1. CASE RunsOn(days, last)
      <4>1. With(k + 1) = With(k) \cup {last} /\ last \notin With(k)
        BY <2>2, <3>1
      <4> HIDE DEF With
      <4>2. Cardinality(With(k) \cup {last}) = c + 1
        BY <2>1, <4>1, FS_AddElement
      <4> HIDE DEF s, s0, s1, c
      <4>3. c + 1 >= s1 - s0  BY <2>1
      <4> QED  BY <4>1, <4>2, <4>3, Zenon
    <3>2. CASE ~RunsOn(days, last)
      <4>1. With(k + 1) = With(k)  BY <2>2, <3>2
      <4>2. ~(s1 > s)  BY <3>2 DEF RunsOn
      <4> HIDE DEF With, s, s0, s1
      <4>3. c >= s1 - s0
        <5> HIDE DEF c
        <5> QED  BY <2>1, <4>2
      <4> QED  BY <4>1, <4>3, Zenon
    <3> QED  BY <3>1, <3>2
  <2> HIDE DEF With, c, s
  <2>4. Cardinality(With(k + 1)) >= Spread(days, a + (k + 1)) - Spread(days, a)
    BY <2>2, <2>3, Zenon
  <2> QED  BY <2>4
<1>3. m \in T
  <2> HIDE DEF T
  <2> QED  BY <1>1, <1>2, Climb
<1> QED  BY <1>3

\* There is a day, at most a cycle and six on, whose cycle holds as many
\* departures as there are rakes: the last of a week.
LEMMA FullCycle ==
  ASSUME NEW cycle \in Nat, cycle > 0, NEW days \in 0 .. 7, days > 0
  PROVE  \E d \in Nat :
           /\ d + 1 >= cycle /\ d < cycle + 6 /\ RunsOn(days, d)
           /\ Spread(days, d + 1) - Spread(days, d + 1 - cycle)
                = TrainsetsForCycle(cycle, days)
<1> DEFINE m == -((-cycle) \div 7)
           e == 7 * m
           d == e - 1
           w == cycle * days
           f == m * days
<1>1. m \in Nat /\ e >= cycle /\ e < cycle + 7  OBVIOUS
<1>2. w \in Nat /\ f \in Nat
  <2> HIDE DEF m
  <2> QED  BY <1>1
<1>3. /\ e * days = 7 * f /\ (e - cycle) * days = 7 * f - w
      /\ (e - 1) * days = 7 * f - days
  <2> HIDE DEF m
  <2> QED  BY <1>1
<1>4. /\ Spread(days, e) = f /\ Spread(days, e - cycle) = (7 * f - w) \div 7
      /\ Spread(days, e - 1) = (7 * f - days) \div 7
  <2> HIDE DEF m, e
  <2>1. Spread(days, e) = (7 * f) \div 7  BY <1>3 DEF Spread
  <2>2. Spread(days, e - cycle) = (7 * f - w) \div 7  BY <1>3 DEF Spread
  <2>3. Spread(days, e - 1) = (7 * f - days) \div 7  BY <1>3 DEF Spread
  <2>4. (7 * f) \div 7 = f
    <3> HIDE DEF f
    <3> QED  BY <1>2
  <2> QED  BY <2>1, <2>2, <2>3, <2>4
<1>5. TrainsetsForCycle(cycle, days) = -((-w) \div 7)
  BY DEF TrainsetsForCycle
<1>6. d \in Nat /\ d + 1 = e
  <2> HIDE DEF m
  <2> QED  BY <1>1
<1>7. (7 * f - w) \div 7 = f + ((-w) \div 7) /\ (-w) \div 7 \in Int
  <2> HIDE DEF f, w
  <2> QED  BY <1>2
<1>8. (7 * f - days) \div 7 < f
  <2> HIDE DEF f
  <2> QED  BY <1>2
<1>9. RunsOn(days, d)
  <2> HIDE DEF f, e
  <2> QED  BY <1>4, <1>6, <1>8 DEF RunsOn
<1>10. Spread(days, d + 1) - Spread(days, d + 1 - cycle)
         = TrainsetsForCycle(cycle, days)
  <2>1. Spread(days, d + 1) = f
        /\ Spread(days, d + 1 - cycle) = f + ((-w) \div 7)
    <3> HIDE DEF f, w, e
    <3> QED  BY <1>4, <1>6, <1>7
  <2> DEFINE g == (-w) \div 7
  <2> HIDE DEF f, g, d
  <2> QED  BY <1>2, <1>5, <1>7, <2>1 DEF g
<1>11. d + 1 >= cycle /\ d < cycle + 6
  <2> HIDE DEF e
  <2> QED  BY <1>1, <1>6
<1> QED  BY <1>6, <1>9, <1>10, <1>11

\* The rake left on day d and cannot leave again before a cycle of it is over:
\* it is at the far terminal, or back within the last day of the cycle.
AwaySince(r, d) ==
  /\ rakes[r].run
  /\ rakes[r].at = "far" =>
       rakes[r].ready = d * Day + OutArr + service.turnaround
  /\ rakes[r].at = "origin" =>
       /\ rakes[r].ready > (d + Cycle - 1) * Day + OutDep
       /\ rakes[r].ready <= (d + Cycle) * Day + OutDep

\* The departures of the cycle that ends with a day.
DaysAway(day) == {d \in 0 .. day : d + Cycle > day /\ RunsOn(service.days, d)}

\* Every departure of the cycle before the next one has its rake away.
TakenUp ==
  \A d \in 0 .. nextOut - 1 :
    d + Cycle > nextOut /\ RunsOn(service.days, d) =>
      \E r \in DOMAIN rakes : AwaySince(r, d)

\* As many rakes as a cycle had departures were bound at its last one.
PeakReached ==
  \A d \in 0 .. nextOut - 1 :
    RunsOn(service.days, d) => Cardinality(DaysAway(d)) <= peak

\* The outbound is at the far terminal and turned no earlier than on its
\* service day, so that no day count of cycle_days_between() is clamped.
Unclamped == OutArr + service.turnaround >= 0

LeastKnown ==
  /\ service.days \in 0 .. 7
  /\ peak \in Nat /\ peak <= Cardinality(DOMAIN rakes)
  /\ Unclamped => TakenUp /\ PeakReached

LeastInv ==
  \/ service = NoService /\ peak = 0
  \/ service # NoService /\ LeastKnown

\* No rake is away since two days.
LEMMA AwayOnce ==
  ASSUME Running, NEW r \in DOMAIN rakes, NEW d \in Int, NEW e \in Int,
         AwaySince(r, d), AwaySince(r, e)
  PROVE  d = e
<1> DEFINE u == service.turnaround
           was == rakes[r].ready
<1>1. /\ OutDep \in Int /\ OutArr \in Int /\ u \in Int /\ Day \in Int /\ Day > 0
  BY NumbersKnown
<1>2. was \in Int /\ rakes[r].at \in {"origin", "far"}
  BY DEF Running, RakesKnown, Rake
<1>3. CASE rakes[r].at = "far"
  <2>1. was = d * Day + OutArr + u /\ was = e * Day + OutArr + u
    BY <1>3 DEF AwaySince
  <2> DEFINE x == d * Day
             y == e * Day
  <2>2. x \in Int /\ y \in Int  BY DayMultiples
  <2>3. x < y + Day /\ y < x + Day
    <3>1. was = x + OutArr + u /\ was = y + OutArr + u  BY <2>1
    <3> HIDE DEF x, y, was, u
    <3> QED  BY <1>1, <2>2, <3>1
  <2>4. d * Day < e * Day + Day /\ e * Day < d * Day + Day  BY <2>3
  <2> QED  BY <2>4, SameDay
<1>4. CASE rakes[r].at = "origin"
  <2> DEFINE k == d + Cycle - 1
             l == e + Cycle - 1
             x == k * Day
             y == l * Day
  <2>1. k \in Int /\ l \in Int /\ Cycle \in Int /\ d + Cycle = k + 1
        /\ e + Cycle = l + 1
    <3>1. Cycle \in Nat  BY ReturnInCycle
    <3> QED  BY <3>1
  <2>2. /\ was > k * Day + OutDep /\ was <= (d + Cycle) * Day + OutDep
        /\ was > l * Day + OutDep /\ was <= (e + Cycle) * Day + OutDep
    BY <1>4 DEF AwaySince
  <2>3. (k + 1) * Day = k * Day + Day /\ (l + 1) * Day = l * Day + Day
        /\ k * Day \in Int /\ l * Day \in Int
    <3> HIDE DEF k, l
    <3> QED  BY <2>1, NextDay
  <2>4. /\ was > x + OutDep /\ was <= (x + Day) + OutDep
        /\ was > y + OutDep /\ was <= (y + Day) + OutDep
        /\ x \in Int /\ y \in Int
    BY <2>1, <2>2, <2>3
  <2>5. x < y + Day /\ y < x + Day
    <3> HIDE DEF x, y, was
    <3> QED  BY <1>1, <1>2, <2>4
  <2>6. k * Day < l * Day + Day /\ l * Day < k * Day + Day  BY <2>5
  <2>7. k = l
    <3> HIDE DEF k, l
    <3> QED  BY <2>1, <2>6, SameDay
  <2> QED  BY <2>1, <2>7
<1> QED  BY <1>2, <1>3, <1>4

\* Whoever is away since a day of the cycle before the next departure cannot
\* take it.
LEMMA AwayIsNotReady ==
  ASSUME Running, NEW r \in DOMAIN rakes, NEW d \in Int,
         AwaySince(r, d), d + Cycle > nextOut
  PROVE  r \notin Ready("origin", OutTime)
<1> SUFFICES ASSUME r \in Ready("origin", OutTime)  PROVE FALSE
  OBVIOUS
<1>1. rakes[r].at = "origin" /\ rakes[r].ready <= OutTime  BY DEF Ready
<1>2. rakes[r].ready > (d + Cycle - 1) * Day + OutDep  BY <1>1 DEF AwaySince
<1>3. /\ OutDep \in Int /\ Day \in Int /\ nextOut \in Nat /\ OutTime \in Int
      /\ OutTime = nextOut * Day + OutDep
  BY NumbersKnown
<1> DEFINE k == d + Cycle - 1
           x == k * Day
           y == nextOut * Day
           was == rakes[r].ready
<1>4. k \in Int /\ nextOut \in Int /\ nextOut <= k
  <2>1. Cycle \in Nat  BY ReturnInCycle
  <2> QED  BY <1>3, <2>1
<1>5. y <= x /\ x \in Int /\ y \in Int
  <2> HIDE DEF k
  <2> QED  BY <1>4, DaysKeepOrder, DayMultiples
<1>6. was \in Int  BY DEF Running, RakesKnown, Rake
<1>7. was > x + OutDep /\ was <= y + OutDep  BY <1>1, <1>2, <1>3
<1> HIDE DEF was, x, y
<1> QED  BY <1>3, <1>5, <1>6, <1>7

\* A rake at the far terminal is not back before the last day of its cycle.
LEMMA BackNoSooner ==
  ASSUME Running, FleetKnown, Unclamped, Cycle > 1, NEW d \in Int,
         d * Day + OutArr + service.turnaround <= RetTime
  PROVE  RetTime + RetArr - RetDep + service.turnaround
           > (d + Cycle - 1) * Day + OutDep
<1> DEFINE u == service.turnaround
           t == service.times
<1>1. /\ OutDep \in Int /\ OutArr \in Int /\ RetDep \in Int /\ RetArr \in Int
      /\ u \in Int /\ u >= 0 /\ Day \in Int /\ Day > 0 /\ RetTime \in Int
  BY NumbersKnown
<1>2. PICK j \in Int : RetTime = j * Day + RetDep
  BY ClocksKnown DEF Running, SlotsKnown
<1>3. Cycle \in Int  BY ReturnInCycle
<1> DEFINE i == j - d
           a == d * Day
           b == i * Day
           c == j * Day
           e == (Cycle - 1) * Day
<1>4. /\ a \in Int /\ b \in Int /\ c \in Int /\ e \in Int /\ b = c - a
      /\ (d + Cycle - 1) * Day = a + e /\ i \in Int
  <2>0. a \in Int /\ c \in Int /\ i \in Int  BY DayMultiples
  <2>1. a \in Int /\ c \in Int /\ b = c - a /\ i \in Int
    <3>1. (j - d) * Day = j * Day - d * Day  BY DayMultiples
    <3> QED  BY <2>0, <3>1, Zenon
  <2> DEFINE n == Cycle - 1
  <2>2. n \in Int /\ d + Cycle - 1 = d + n  BY <1>3
  <2> HIDE DEF n
  <2>3. n * Day \in Int /\ (d + n) * Day = d * Day + n * Day
    BY <2>2, DayMultiples
  <2>4. e = n * Day  BY DEF n
  <2>5. (d + Cycle - 1) * Day = d * Day + n * Day  BY <2>2, <2>3, Zenon
  <2>6. b \in Int
    <3> HIDE DEF a, b, c
    <3> QED  BY <2>1
  <2> QED  BY <2>1, <2>3, <2>4, <2>5, <2>6
<1>5. b + RetDep >= OutArr + u
  <2>1. a + OutArr + u <= RetTime /\ RetTime = c + RetDep  BY <1>2
  <2> HIDE DEF a, b, c, u
  <2> QED  BY <1>1, <1>4, <2>1
<1>6. b + RetArr + u > e + OutDep
  <2>1. /\ t.outDep \in Int /\ t.outArr \in Int /\ t.retDep \in Int
        /\ t.retArr \in Int /\ u \in Nat
    BY <1>1 DEF OutDep, OutArr, RetDep, RetArr
  <2>2. /\ t.retArr >= t.retDep /\ t.outArr + u >= 0
        /\ CycleDaysBetween(t, u) > 1
    BY DEF FleetKnown, Unclamped, Cycle, OutDep, OutArr, RetDep, RetArr
  <2>3. i * Day + t.retDep >= t.outArr + u
    BY <1>5 DEF OutArr, RetDep
  <2>4. i * Day + t.retArr + u > (CycleDaysBetween(t, u) - 1) * Day + t.outDep
    <3> HIDE DEF t, u, i
    <3> QED  BY <1>4, <2>1, <2>2, <2>3, CycleIsLeast
  <2> QED  BY <2>4 DEF Cycle, OutDep, RetArr
<1>7. RetTime = c + RetDep  BY <1>2
<1> HIDE DEF a, b, c, e, u, i
<1>8. RetTime + RetArr - RetDep + u > (a + e) + OutDep
  BY <1>1, <1>4, <1>6, <1>7
<1> QED  BY <1>4, <1>8 DEF u

\* The departures of the cycle up to the next one bind a rake each: those of
\* the days before are away, and one is ready for it.
LEMMA CycleBinds ==
  ASSUME Running, TakenUp
  PROVE  LET ready == Ready("origin", OutTime)
         IN  /\ IsFiniteSet(DaysAway(nextOut)) /\ IsFiniteSet(ready)
             /\ Cardinality(DaysAway(nextOut))
                  <= Cardinality(DOMAIN rakes) - Cardinality(ready) + 1
<1> DEFINE ready == Ready("origin", OutTime)
           all == DOMAIN rakes
           away == all \ ready
           W == DaysAway(nextOut) \ {nextOut}
           f == [d \in W |-> CHOOSE r \in all : AwaySince(r, d)]
<1>1. nextOut \in Nat  BY NumbersKnown
<1>2. IsFiniteSet(all) /\ ready \subseteq all
  BY DEF Running, RakesKnown, Ready
<1>3. /\ IsFiniteSet(ready) /\ IsFiniteSet(away)
      /\ Cardinality(ready) \in Nat /\ Cardinality(all) \in Nat
      /\ Cardinality(away) = Cardinality(all) - Cardinality(ready)
  <2>1. IsFiniteSet(ready)  BY <1>2, FS_Subset
  <2>2. all \cap ready = ready  BY <1>2
  <2> HIDE DEF ready, all
  <2>3. IsFiniteSet(all \ ready)
        /\ Cardinality(all \ ready) = Cardinality(all) - Cardinality(all \cap ready)
    BY <1>2, FS_Difference
  <2>4. Cardinality(ready) \in Nat /\ Cardinality(all) \in Nat
    BY <1>2, <2>1, FS_CardinalityType
  <2> QED  BY <2>1, <2>2, <2>3, <2>4
<1>4. /\ IsFiniteSet(DaysAway(nextOut)) /\ IsFiniteSet(W)
      /\ Cardinality(W) \in Nat
      /\ Cardinality(DaysAway(nextOut)) <= Cardinality(W) + 1
  <2>1. IsFiniteSet(0 .. nextOut)  BY <1>1, FS_Interval
  <2>2. DaysAway(nextOut) \subseteq 0 .. nextOut  BY DEF DaysAway
  <2> DEFINE D == DaysAway(nextOut)
  <2>3. IsFiniteSet(D) /\ D \subseteq 0 .. nextOut  BY <2>1, <2>2, FS_Subset
  <2> HIDE DEF D
  <2>4. /\ IsFiniteSet(D \ {nextOut})
        /\ Cardinality(D \ {nextOut}) =
             IF nextOut \in D THEN Cardinality(D) - 1 ELSE Cardinality(D)
    BY <2>3, FS_RemoveElement
  <2>5. Cardinality(D \ {nextOut}) \in Nat /\ Cardinality(D) \in Nat
    BY <2>3, <2>4, FS_CardinalityType
  <2>6. Cardinality(D) <= Cardinality(D \ {nextOut}) + 1  BY <2>4, <2>5
  <2> QED  BY <2>3, <2>4, <2>5, <2>6 DEF D
<1>5. ASSUME NEW d \in W
      PROVE  d \in Int /\ f[d] \in away /\ f[d] \in all /\ AwaySince(f[d], d)
  <2>1. /\ d \in 0 .. nextOut - 1 /\ d + Cycle > nextOut
        /\ RunsOn(service.days, d) /\ d \in Int
    BY <1>1 DEF DaysAway
  <2>2. \E r \in all : AwaySince(r, d)  BY <2>1 DEF TakenUp
  <2>3. f[d] = CHOOSE r \in all : AwaySince(r, d)  OBVIOUS
  <2>4. f[d] \in all /\ AwaySince(f[d], d)
    <3> HIDE DEF f, W, all
    <3> QED  BY <2>2, <2>3, Zenon
  <2> DEFINE r == f[d]
  <2> HIDE DEF f, W
  <2>5. r \notin ready
    <3>1. r \in DOMAIN rakes /\ AwaySince(r, d)  BY <2>4
    <3> HIDE DEF r
    <3> QED  BY <2>1, <3>1, AwayIsNotReady
  <2> QED  BY <2>1, <2>4, <2>5
<1>6. Cardinality(W) <= Cardinality(away)
  <2> SUFFICES ASSUME ~(Cardinality(W) <= Cardinality(away))  PROVE FALSE
    OBVIOUS
  <2>1. Cardinality(away) \in Nat  BY <1>3, FS_CardinalityType
  <2>2. Cardinality(away) < Cardinality(W)
    <3> HIDE DEF away, W
    <3> QED  BY <1>4, <2>1
  <2>3. f \in [W -> away]
    <3>1. \A d \in W : f[d] \in away  BY <1>5
    <3> HIDE DEF W, away
    <3> QED  BY <3>1
  <2>4. PICK d \in W, e \in W : d # e /\ f[d] = f[e]
    <3> HIDE DEF W, away, f
    <3> QED  BY <1>3, <1>4, <2>2, <2>3, FS_PigeonHole
  <2>5. d \in Int /\ e \in Int /\ AwaySince(f[d], d) /\ AwaySince(f[d], e)
        /\ f[d] \in DOMAIN rakes
    <3>1. d \in Int /\ f[d] \in all /\ AwaySince(f[d], d)  BY <1>5
    <3>2. e \in Int /\ AwaySince(f[e], e)  BY <1>5
    <3> HIDE DEF f, W
    <3> QED  BY <2>4, <3>1, <3>2
  <2> DEFINE r == f[d]
  <2>6. r \in DOMAIN rakes /\ AwaySince(r, d) /\ AwaySince(r, e)  BY <2>5
  <2> HIDE DEF r, f, W
  <2> QED  BY <2>4, <2>5, <2>6, AwayOnce
<1> HIDE DEF W, away, all, ready, f
<1>7. Cardinality(DaysAway(nextOut)) <= Cardinality(all) - Cardinality(ready) + 1
  <2>1. Cardinality(DaysAway(nextOut)) \in Nat  BY <1>4, FS_CardinalityType
  <2> QED  BY <1>3, <1>4, <1>6, <2>1
<1> QED  BY <1>3, <1>4, <1>7 DEF all, ready

\* What a slot leaves alone: the numbers of the service.
LEMMA NumbersStay ==
  ASSUME service' = service
  PROVE  /\ OutDep' = OutDep /\ OutArr' = OutArr /\ Cycle' = Cycle
         /\ (service.days)' = service.days
         /\ (service.turnaround)' = service.turnaround
         /\ Unclamped' = Unclamped
         /\ \A day : DaysAway(day)' = DaysAway(day)
<1>1. /\ OutDep' = OutDep /\ OutArr' = OutArr /\ Cycle' = Cycle
      /\ (service.days)' = service.days
      /\ (service.turnaround)' = service.turnaround
  BY DEF OutDep, OutArr, Cycle
<1>2. Unclamped' = Unclamped  BY <1>1 DEF Unclamped
<1>3. ASSUME NEW day  PROVE DaysAway(day)' = DaysAway(day)
  BY <1>1 DEF DaysAway
<1> QED  BY <1>1, <1>2, <1>3

\* A rake that did not move is away since the same day.
LEMMA AwayStays ==
  ASSUME service' = service, NEW r, rakes'[r] = rakes[r], NEW d,
         AwaySince(r, d)
  PROVE  AwaySince(r, d)'
<1>1. /\ OutDep' = OutDep /\ OutArr' = OutArr /\ Cycle' = Cycle
      /\ (service.turnaround)' = service.turnaround
  BY NumbersStay
<1> QED  BY <1>1, Zenon DEF AwaySince

\* A slot at the origin: the rake that leaves is away from that day on, and
\* was not away before.
LEMMA OutSlotTakes ==
  ASSUME Running, FleetKnown, TakenUp, OutSlot
  PROVE  TakenUp'
<1>1. /\ service' = service /\ nextOut' = nextOut + 1 /\ OutTime < RetTime
      /\ nextOut \in Nat
  BY NumbersKnown DEF OutSlot
<1>2. /\ OutDep' = OutDep /\ OutArr' = OutArr /\ Cycle' = Cycle
      /\ (service.days)' = service.days
      /\ (service.turnaround)' = service.turnaround
  BY <1>1, NumbersStay
<1> DEFINE ready == Ready("origin", OutTime)
           q == LongestStanding(ready)
           moment == OutTime + service.times.outArr - service.times.outDep
                       + service.turnaround
<1>3. IF Runs(nextOut) /\ ready # {}
      THEN rakes' = [rakes EXCEPT ![q] =
                       [at |-> "far", run |-> TRUE, ready |-> moment]]
      ELSE rakes' = rakes
  BY DEF OutSlot
<1>4. RakesKnown /\ ready \subseteq DOMAIN rakes  BY DEF Running, Ready
<1>5. ready # {} => q \in ready
  <2> HIDE DEF ready
  <2> QED  BY <1>4, LongestIsReady
<1>6. moment \in Int /\ moment = OutTime + OutArr - OutDep + service.turnaround
  BY NumbersKnown DEF OutArr, OutDep
<1>7. DOMAIN rakes' = DOMAIN rakes
      /\ \A r \in DOMAIN rakes : r \notin ready => rakes'[r] = rakes[r]
  <2> HIDE DEF ready, q, moment
  <2>1. CASE Runs(nextOut) /\ ready # {}
    <3>1. q \in DOMAIN rakes  BY <1>4, <1>5, <2>1
    <3>2. /\ DOMAIN rakes' = DOMAIN rakes
          /\ \A s \in DOMAIN rakes : s # q => rakes'[s] = rakes[s]
      BY <1>3, <1>4, <1>6, <2>1, <3>1, RakeLeaves
    <3> QED  BY <1>5, <2>1, <3>2
  <2>2. CASE ~(Runs(nextOut) /\ ready # {})
    BY <1>3, <2>2
  <2> QED  BY <2>1, <2>2
<1>8. ASSUME NEW d \in 0 .. nextOut' - 1, d + Cycle > nextOut',
             RunsOn(service.days, d)
      PROVE  \E r \in DOMAIN rakes' : AwaySince(r, d)'
  <2>1. Cycle \in Nat /\ d \in Int  BY ReturnInCycle
  <2>2. CASE d # nextOut
    <3>1. d \in 0 .. nextOut - 1 /\ d + Cycle > nextOut
      BY <1>1, <1>8, <2>1, <2>2
    <3>2. PICK r \in DOMAIN rakes : AwaySince(r, d)
      BY <1>8, <3>1 DEF TakenUp
    <3>3. r \notin ready  BY <2>1, <3>1, <3>2, AwayIsNotReady
    <3>4. rakes'[r] = rakes[r] /\ r \in DOMAIN rakes'
      <4> HIDE DEF ready
      <4> QED  BY <1>7, <3>3
    <3>5. AwaySince(r, d)'  BY <1>1, <3>2, <3>4, AwayStays
    <3> QED  BY <3>4, <3>5
  <2>3. CASE d = nextOut
    <3>1. Runs(nextOut)  BY <1>8, <2>3 DEF Runs, RunsOn, Spread
    <3>2. ready # {}  BY <1>1, <3>1, SomeoneIsReady
    <3>3. rakes' = [rakes EXCEPT ![q] =
                      [at |-> "far", run |-> TRUE, ready |-> moment]]
      BY <1>3, <3>1, <3>2
    <3>4. q \in DOMAIN rakes
      <4> HIDE DEF ready, q
      <4> QED  BY <1>4, <1>5, <3>2
    <3> DEFINE x == nextOut * Day
    <3>5. moment = x + OutArr + service.turnaround
      <4>1. /\ OutTime = x + OutDep /\ OutTime \in Int /\ OutDep \in Int
            /\ OutArr \in Int /\ service.turnaround \in Int
        BY NumbersKnown
      <4>2. x \in Int
        <5>1. nextOut \in Int  BY <1>1
        <5> QED  BY <5>1, DayMultiples
      <4> HIDE DEF x, moment
      <4> QED  BY <1>6, <4>1, <4>2
    <3> HIDE DEF ready, q, moment
    <3>6. /\ rakes'[q].at = "far" /\ rakes'[q].run /\ rakes'[q].ready = moment
      BY <1>4, <1>6, <3>3, <3>4, RakeLeaves
    <3>7. "far" # "origin"  OBVIOUS
    <3>8. PICK s : s = q  OBVIOUS
    <3>9. AwaySince(s, d)'
      BY <1>2, <2>3, <3>5, <3>6, <3>7, <3>8, Zenon DEF AwaySince
    <3> QED  BY <1>7, <3>4, <3>8, <3>9
  <2> QED  BY <2>2, <2>3
<1>9. \A d \in 0 .. nextOut' - 1 :
        d + Cycle' > nextOut' /\ RunsOn(service'.days, d) =>
          \E r \in DOMAIN rakes' : AwaySince(r, d)'
  <2> SUFFICES ASSUME NEW d \in 0 .. nextOut' - 1, d + Cycle' > nextOut',
                      RunsOn(service'.days, d)
               PROVE  \E r \in DOMAIN rakes' : AwaySince(r, d)'
    OBVIOUS
  <2>1. d + Cycle > nextOut' /\ RunsOn(service.days, d)
    BY <1>1, <1>2, Zenon
  <2> QED  BY <1>8, <2>1
<1> QED  BY <1>9 DEF TakenUp

\* A return slot: the rake that takes it is back on the last day of its cycle.
LEMMA RetSlotTakes ==
  ASSUME Running, FleetKnown, TakenUp, Unclamped, RetSlot
  PROVE  TakenUp'
<1>1. service' = service /\ nextOut' = nextOut /\ nextOut \in Nat
  BY NumbersKnown DEF RetSlot
<1>2. /\ OutDep' = OutDep /\ OutArr' = OutArr /\ Cycle' = Cycle
      /\ (service.days)' = service.days
      /\ (service.turnaround)' = service.turnaround
  BY <1>1, NumbersStay
<1> DEFINE ready == Ready("far", RetTime)
           q == LongestStanding(ready)
           moment == RetTime + service.times.retArr - service.times.retDep
                       + service.turnaround
<1>3. rakes' = IF ready = {} THEN rakes
               ELSE [rakes EXCEPT ![q] =
                       [at |-> "origin", run |-> TRUE, ready |-> moment]]
  BY DEF RetSlot
<1>4. RakesKnown /\ ready \subseteq DOMAIN rakes  BY DEF Running, Ready
<1>5. moment \in Int /\ moment = RetTime + RetArr - RetDep + service.turnaround
  BY NumbersKnown DEF RetArr, RetDep
<1>6. CASE ready = {}
  <2>1. rakes' = rakes  BY <1>3, <1>6
  <2>2. \A r, d : AwaySince(r, d) => AwaySince(r, d)'
    BY <1>1, <2>1, AwayStays
  <2> QED  BY <1>1, <1>2, <2>1, <2>2, Zenon DEF TakenUp
<1>7. CASE ready # {}
  <2>1. q \in ready
    <3> HIDE DEF ready
    <3> QED  BY <1>4, <1>7, LongestIsReady
  <2>2. q \in DOMAIN rakes /\ rakes[q].at = "far" /\ rakes[q].ready <= RetTime
    <3> HIDE DEF q
    <3> QED  BY <2>1 DEF Ready
  <2>3. rakes' = [rakes EXCEPT ![q] =
                    [at |-> "origin", run |-> TRUE, ready |-> moment]]
    BY <1>3, <1>7
  <2> HIDE DEF ready, q, moment
  <2>4. /\ DOMAIN rakes' = DOMAIN rakes
        /\ rakes'[q].at = "origin" /\ rakes'[q].run /\ rakes'[q].ready = moment
        /\ \A s \in DOMAIN rakes : s # q => rakes'[s] = rakes[s]
    BY <1>4, <1>5, <2>2, <2>3, RakeLeaves
  <2>5. ASSUME NEW d \in 0 .. nextOut - 1, d + Cycle > nextOut,
               RunsOn(service.days, d)
        PROVE  \E r \in DOMAIN rakes' : AwaySince(r, d)'
    <3>1. PICK r \in DOMAIN rakes : AwaySince(r, d)  BY <2>5 DEF TakenUp
    <3>2. CASE r # q
      <4>1. rakes'[r] = rakes[r]  BY <2>4, <3>2
      <4>2. AwaySince(r, d)'  BY <1>1, <3>1, <4>1, AwayStays
      <4> QED  BY <2>4, <4>2
    <3>3. CASE r = q
      <4>1. rakes[q].ready = d * Day + OutArr + service.turnaround
        BY <2>2, <3>1, <3>3, Zenon DEF AwaySince
      <4>2. d \in Int /\ Cycle > 1
        <5>1. Cycle \in Nat  BY ReturnInCycle
        <5> QED  BY <1>1, <2>5, <5>1
      <4>3. d * Day + OutArr + service.turnaround <= RetTime
        BY <2>2, <4>1, Zenon
      <4>4. d * Day + OutArr + service.turnaround > RetTime - Day
        <5>1. rakes[q].ready > RetTime - Day  BY <2>2 DEF Running, FarKnown
        <5> QED  BY <4>1, <5>1, Zenon
      <4>5. RetTime + RetArr - RetDep + service.turnaround
              > (d + Cycle - 1) * Day + OutDep
        BY <4>2, <4>3, BackNoSooner
      <4>6. RetTime + RetArr - RetDep + service.turnaround
              <= (d + Cycle) * Day + OutDep
        BY <4>2, <4>4, BackInCycle
      <4>7. "far" # "origin"  OBVIOUS
      <4>8. /\ moment > (d + Cycle - 1) * Day + OutDep
            /\ moment <= (d + Cycle) * Day + OutDep
        BY <1>5, <4>5, <4>6, Zenon
      <4>9. AwaySince(r, d)'
        BY <1>2, <2>4, <3>3, <4>7, <4>8, Zenon DEF AwaySince
      <4> QED  BY <2>2, <2>4, <3>3, <4>9
    <3> QED  BY <3>2, <3>3
  <2>6. \A d \in 0 .. nextOut' - 1 :
          d + Cycle' > nextOut' /\ RunsOn(service'.days, d) =>
            \E r \in DOMAIN rakes' : AwaySince(r, d)'
    <3> SUFFICES ASSUME NEW d \in 0 .. nextOut' - 1, d + Cycle' > nextOut',
                        RunsOn(service'.days, d)
                 PROVE  \E r \in DOMAIN rakes' : AwaySince(r, d)'
      OBVIOUS
    <3>1. d \in 0 .. nextOut - 1 /\ d + Cycle > nextOut
          /\ RunsOn(service.days, d)
      BY <1>1, <1>2, Zenon
    <3> QED  BY <2>5, <3>1
  <2> QED  BY <2>6 DEF TakenUp
<1> QED  BY <1>6, <1>7

\* The departures of a cycle are finitely many.
LEMMA DaysAwayFinite ==
  ASSUME Running, NEW day \in Nat
  PROVE  IsFiniteSet(DaysAway(day)) /\ Cardinality(DaysAway(day)) \in Nat
<1>1. IsFiniteSet(0 .. day)  BY FS_Interval
<1>2. DaysAway(day) \subseteq 0 .. day  BY DEF DaysAway
<1> QED  BY <1>1, <1>2, FS_Subset, FS_CardinalityType

\* A slot at the origin keeps the count of what a cycle binds.
LEMMA OutSlotLeast ==
  ASSUME Running, FleetKnown, LeastKnown, OutSlot
  PROVE  LeastKnown'
<1> DEFINE all == DOMAIN rakes
           ready == Ready("origin", OutTime)
           n == Cardinality(all)
           k == Cardinality(ready)
<1>1. /\ service' = service /\ nextOut' = nextOut + 1 /\ OutTime < RetTime
      /\ nextOut \in Nat
  BY NumbersKnown DEF OutSlot
<1>2. /\ (service.days)' = service.days /\ Unclamped' = Unclamped
      /\ \A day : DaysAway(day)' = DaysAway(day)
  BY <1>1, NumbersStay
<1>3. DOMAIN rakes' = all  BY DEF OutSlot
<1>4. /\ n \in Nat /\ k \in Nat /\ k <= n /\ (ready # {} => k >= 1)
  <2>1. IsFiniteSet(all) /\ ready \subseteq all
    BY DEF Running, RakesKnown, Ready
  <2> HIDE DEF all, ready
  <2>2. IsFiniteSet(ready) /\ k <= n  BY <2>1, FS_Subset
  <2>3. k \in Nat /\ n \in Nat  BY <2>1, <2>2, FS_CardinalityType
  <2>4. ready # {} => k # 0  BY <2>2, FS_EmptySet
  <2> HIDE DEF k, n
  <2> QED  BY <2>2, <2>3, <2>4
<1>5. IF Runs(nextOut) /\ ready # {} THEN peak' = Greatest(peak, n - k + 1)
      ELSE peak' = peak
  BY DEF OutSlot
<1>6. peak \in Nat /\ peak <= n  BY DEF LeastKnown
<1>7. Runs(nextOut) => ready # {}  BY <1>1, SomeoneIsReady
<1> HIDE DEF n, k, all, ready
<1>8. /\ peak' \in Nat /\ peak <= peak' /\ peak' <= n
      /\ Runs(nextOut) => n - k + 1 <= peak'
  BY <1>4, <1>5, <1>6, <1>7 DEF Greatest
<1>9. ASSUME Unclamped  PROVE TakenUp' /\ PeakReached'
  <2>1. TakenUp /\ PeakReached  BY <1>9 DEF LeastKnown
  <2>2. TakenUp'  BY <2>1, OutSlotTakes
  <2>3. ASSUME NEW d \in 0 .. nextOut' - 1, RunsOn(service.days, d)
        PROVE  Cardinality(DaysAway(d)) <= peak'
    <3>1. d \in Nat /\ Cardinality(DaysAway(d)) \in Nat  BY DaysAwayFinite
    <3>2. CASE d # nextOut
      <4>1. d \in 0 .. nextOut - 1  BY <1>1, <3>2
      <4>2. Cardinality(DaysAway(d)) <= peak  BY <2>1, <2>3, <4>1 DEF PeakReached
      <4> QED  BY <1>6, <1>8, <3>1, <4>2
    <3>3. CASE d = nextOut
      <4>1. Runs(nextOut)  BY <2>3, <3>3 DEF Runs, RunsOn, Spread
      <4>2. Cardinality(DaysAway(nextOut)) <= n - k + 1
        BY <2>1, CycleBinds DEF n, k, all, ready
      <4>3. Cardinality(DaysAway(d)) <= n - k + 1  BY <3>3, <4>2, Zenon
      <4> QED  BY <1>4, <1>8, <3>1, <4>1, <4>3
    <3> QED  BY <3>2, <3>3
  <2>4. PeakReached'
    <3>1. \A d \in 0 .. nextOut' - 1 :
            RunsOn(service'.days, d) => Cardinality(DaysAway(d)') <= peak'
      BY <1>2, <2>3, Zenon
    <3> QED  BY <3>1 DEF PeakReached
  <2> QED  BY <2>2, <2>4
<1>10. service.days \in 0 .. 7  BY DEF LeastKnown
<1>11. peak' <= Cardinality(DOMAIN rakes')
  BY <1>3, <1>8 DEF n
<1> QED  BY <1>2, <1>8, <1>9, <1>10, <1>11, Zenon DEF LeastKnown

\* A return slot binds no rake more.
LEMMA RetSlotLeast ==
  ASSUME Running, FleetKnown, LeastKnown, RetSlot
  PROVE  LeastKnown'
<1>1. /\ service' = service /\ nextOut' = nextOut /\ peak' = peak
      /\ DOMAIN rakes' = DOMAIN rakes
  BY DEF RetSlot
<1>2. /\ (service.days)' = service.days /\ Unclamped' = Unclamped
      /\ \A day : DaysAway(day)' = DaysAway(day)
  BY <1>1, NumbersStay
<1>3. ASSUME Unclamped  PROVE TakenUp' /\ PeakReached'
  <2>1. TakenUp /\ PeakReached  BY <1>3 DEF LeastKnown
  <2>2. TakenUp'  BY <1>3, <2>1, RetSlotTakes
  <2>3. \A d \in 0 .. nextOut' - 1 :
          RunsOn(service'.days, d) => Cardinality(DaysAway(d)') <= peak'
    BY <1>1, <1>2, <2>1, Zenon DEF PeakReached
  <2>4. PeakReached'  BY <2>3 DEF PeakReached
  <2> QED  BY <2>2, <2>4
<1> QED  BY <1>1, <1>2, <1>3, Zenon DEF LeastKnown

\* At the start of the service nothing is bound and nothing was reached.
LEMMA StartServiceLeast ==
  ASSUME PlanInv, ServiceInv, LeastInv, StartService, Lasting
  PROVE  service' # NoService /\ LeastKnown'
<1>1. Len(trips) = 2  BY DEF StartService
<1>2. peak = 0 /\ nextOut = 0
  <2>1. trips # <<>>  BY <1>1
  <2>2. ~Running  BY <2>1 DEF Running
  <2>3. service = NoService /\ nextOut = 0  BY <2>2, Zenon DEF ServiceInv
  <2> QED  BY <2>3, Zenon DEF LeastInv
<1>3. peak' = 0 /\ nextOut' = 0  BY <1>2 DEF StartService
<1> DEFINE t == TerminalTimes(trips)
<1>4. PICK turnaround \in Turnarounds, days \in DaysPerWeek :
        /\ service' = [times |-> t, turnaround |-> turnaround, days |-> days,
                       far |-> Layover(t.retDep, t.outArr),
                       origin |-> Layover(t.outDep, t.retArr)]
        /\ rakes' = [r \in 1 .. TrainsetsForCycle(
                                  CycleDaysBetween(t, turnaround), days) |->
                       [at |-> "origin", ready |-> t.outDep, run |-> FALSE]]
  BY Zenon DEF StartService
<1> HIDE DEF t
<1>5. (service.days)' = days /\ service' # NoService
  <2>1. "days" \in DOMAIN service' /\ "days" \notin DOMAIN NoService
    BY <1>4 DEF NoService
  <2> QED  BY <1>4, <2>1
<1>6. days \in 0 .. 7  BY TimeAssumption
<1>7. Cardinality(DOMAIN rakes') \in Nat
  <2>1. RakesKnown'  BY StartServiceRuns DEF Running
  <2> QED  BY <2>1, FS_CardinalityType DEF RakesKnown
<1>8. 0 .. nextOut' - 1 = {}  BY <1>3
<1>9. TakenUp' /\ PeakReached'
  BY <1>8, Zenon DEF TakenUp, PeakReached
<1> QED  BY <1>3, <1>5, <1>6, <1>7, <1>9 DEF LeastKnown

\* No step takes the invariant of the least fleet away.
LEMMA StepLeast ==
  ASSUME PlanInv, ServiceInv, FleetInv, LeastInv, [Next]_vars, Lasting
  PROVE  LeastInv'
<1>1. CASE StartService  BY <1>1, StartServiceLeast DEF LeastInv
<1>2. CASE UNCHANGED <<service, rakes, nextOut, peak>>
  <2>1. service' = service /\ rakes' = rakes /\ nextOut' = nextOut
        /\ peak' = peak
    BY <1>2
  <2>2. /\ (service.days)' = service.days /\ Unclamped' = Unclamped
        /\ \A day : DaysAway(day)' = DaysAway(day)
        /\ Cycle' = Cycle
    BY <2>1, NumbersStay
  <2>3. TakenUp => TakenUp'
    <3>1. \A r, d : AwaySince(r, d) => AwaySince(r, d)'
      BY <2>1, AwayStays
    <3>2. TakenUp => \A d \in 0 .. nextOut' - 1 :
            d + Cycle' > nextOut' /\ RunsOn(service'.days, d) =>
              \E r \in DOMAIN rakes' : AwaySince(r, d)'
      BY <2>1, <2>2, <3>1, Zenon DEF TakenUp
    <3> QED  BY <3>2 DEF TakenUp
  <2>4. PeakReached => PeakReached'
    <3>1. PeakReached => \A d \in 0 .. nextOut' - 1 :
            RunsOn(service'.days, d) => Cardinality(DaysAway(d)') <= peak'
      BY <2>1, <2>2, Zenon DEF PeakReached
    <3> QED  BY <3>1 DEF PeakReached
  <2>5. LeastKnown => LeastKnown'
    BY <2>1, <2>2, <2>3, <2>4, Zenon DEF LeastKnown
  <2> QED  BY <2>1, <2>5, Zenon DEF LeastInv
<1>3. ASSUME OutSlot \/ RetSlot
      PROVE  Running /\ FleetKnown /\ LeastKnown /\ service' # NoService
  <2>1. service # NoService  BY <1>3 DEF OutSlot, RetSlot, InService
  <2>2. service' = service  BY <1>3 DEF OutSlot, RetSlot
  <2> QED  BY <2>1, <2>2, Zenon DEF ServiceInv, FleetInv, LeastInv
<1>4. CASE OutSlot  BY <1>3, <1>4, OutSlotLeast DEF LeastInv
<1>5. CASE RetSlot  BY <1>3, <1>5, RetSlotLeast DEF LeastInv
<1>6. CASE UNCHANGED vars  BY <1>2, <1>6 DEF vars
<1>7. CASE BuildOutbound \/ BuildReturn
  BY <1>2, <1>7 DEF BuildOutbound, BuildReturn
<1> QED  BY <1>1, <1>4, <1>5, <1>6, <1>7 DEF Next

\* The bound of a run leaves room for a cycle and a week, and no day count of
\* cycle_days_between() is clamped.
RoundFits == service # NoService => Unclamped /\ Cycle + 6 <= Horizon

\* Once the departures of a cycle and a week are behind, as many rakes were
\* bound at once as there are.
LEMMA AllWereBound ==
  ASSUME Running, FleetKnown, LeastKnown, Unclamped, Cycle + 6 <= nextOut
  PROVE  peak = Cardinality(DOMAIN rakes)
<1> DEFINE days == service.days
           n == TrainsetsForCycle(Cycle, days)
<1>1. /\ Cycle \in Nat /\ Cycle > 0 /\ nextOut \in Nat /\ days \in 0 .. 7
      /\ DOMAIN rakes = 1 .. n
      /\ peak \in Nat /\ peak <= Cardinality(DOMAIN rakes)
      /\ PeakReached
  BY ReturnInCycle, NumbersKnown DEF FleetKnown, LeastKnown
<1>2. n \in Nat
  <2> DEFINE w == Cycle * days
  <2>1. w \in Nat
    <3> HIDE DEF days
    <3> QED  BY <1>1
  <2> HIDE DEF w, days
  <2>2. -((-w) \div 7) \in Nat  BY <2>1
  <2> QED  BY <2>2 DEF w, TrainsetsForCycle
<1>3. Cardinality(DOMAIN rakes) = n
  <2> HIDE DEF n
  <2>1. Cardinality(1 .. n) = IF 1 > n THEN 0 ELSE n - 1 + 1
    BY <1>2, FS_Interval
  <2> QED  BY <1>1, <1>2, <2>1
<1>4. CASE days = 0
  <2>1. Cycle * 0 = 0  BY <1>1
  <2> DEFINE w == Cycle * days
  <2>2. w = 0 /\ n = -((-w) \div 7)
    BY <1>4, <2>1, Zenon DEF TrainsetsForCycle
  <2>3. w \in Int /\ w >= 0 /\ w <= 0
    <3> HIDE DEF w
    <3> QED  BY <2>2
  <2> DEFINE v == -w
  <2>4. v \in Int /\ v >= 0 /\ v <= 0
    <3> HIDE DEF w
    <3> QED  BY <2>3
  <2>5. n = -(v \div 7)  BY <2>2
  <2> HIDE DEF n, w, v
  <2>6. n = 0
    <3>1. (v \div 7) \in Int /\ v \div 7 >= 0 /\ v \div 7 <= 0  BY <2>4
    <3> DEFINE q == v \div 7
    <3> HIDE DEF q
    <3>2. n = -q /\ q \in Int /\ q >= 0 /\ q <= 0  BY <2>5, <3>1 DEF q
    <3>3. n <= 0 /\ n >= 0 /\ n \in Int  BY <3>2
    <3> QED  BY <3>3
  <2> QED  BY <1>1, <1>3, <2>6
<1>5. CASE days > 0
  <2>1. PICK d \in Nat :
          /\ d + 1 >= Cycle /\ d < Cycle + 6 /\ RunsOn(days, d)
          /\ Spread(days, d + 1) - Spread(days, d + 1 - Cycle) = n
    <3> HIDE DEF days
    <3> QED  BY <1>1, <1>5, FullCycle DEF n
  <2>2. d \in 0 .. nextOut - 1  BY <1>1, <2>1
  <2>3. Cardinality(DaysAway(d)) <= peak  BY <1>1, <2>1, <2>2 DEF PeakReached
  <2> DEFINE a == d + 1 - Cycle
             with == {e \in a .. a + Cycle - 1 : RunsOn(days, e)}
  <2>4. a \in Int /\ a >= 0 /\ a + Cycle - 1 = d /\ a + Cycle = d + 1
    BY <1>1, <2>1
  <2>5. Cardinality(with) >= Spread(days, d + 1) - Spread(days, a)
    <3> HIDE DEF days, a
    <3>1. Cardinality(with) >= Spread(days, a + Cycle) - Spread(days, a)
      BY <1>1, <2>4, DeparturesAreSpread
    <3> QED  BY <2>4, <3>1, Zenon
  <2>6. with = DaysAway(d)
    <3>1. \A e : e \in a .. a + Cycle - 1 <=> e \in 0 .. d /\ e + Cycle > d
      BY <1>1, <2>1, <2>4
    <3> QED  BY <3>1, Zenon DEF DaysAway
  <2>7. Cardinality(DaysAway(d)) >= n  BY <2>1, <2>5, <2>6, Zenon
  <2>8. Cardinality(DaysAway(d)) \in Nat  BY <2>1, DaysAwayFinite
  <2> HIDE DEF n
  <2> QED  BY <1>1, <1>2, <1>3, <2>3, <2>7, <2>8
<1> QED  BY <1>1, <1>4, <1>5

\* FleetFits: the counted fleet is what the line needs, no rake less (a rake
\* is ready at every departure) and no rake more (all of them are bound at
\* once by the end of a round of cycle_days_between() and a week).
THEOREM FleetIsExact ==
  ASSUME Lasting
  PROVE  Spec => [](RoundFits => FleetFits)
<1>1. Init => FleetInv /\ LeastInv  BY DEF Init, FleetInv, LeastInv
<1>2. PlanInv /\ ServiceInv /\ FleetInv /\ LeastInv /\ [Next]_vars
        => FleetInv' /\ LeastInv'
  BY StepFleet, StepLeast
<1>3. PlanInv /\ ServiceInv /\ FleetInv /\ LeastInv /\ RoundFits
        => FleetIsMinimal
  <2> SUFFICES ASSUME ServiceInv, FleetInv, LeastInv, RoundFits,
                      service # NoService, nextOut = Horizon
               PROVE  peak = Cardinality(DOMAIN rakes)
    BY Zenon DEF FleetIsMinimal
  <2>1. Running /\ FleetKnown /\ LeastKnown
    BY Zenon DEF ServiceInv, FleetInv, LeastInv
  <2>2. Unclamped /\ Cycle + 6 <= nextOut  BY Zenon DEF RoundFits
  <2> QED  BY <2>1, <2>2, AllWereBound
<1>4. DeparturesServed /\ (RoundFits => FleetIsMinimal)
        => (RoundFits => FleetFits)
  BY DEF FleetFits
<1>5. Spec => [](PlanInv /\ ServiceInv)  BY ServicesRun
<1>6. Spec => []DeparturesServed  BY DeparturesAreServed
<1> QED  BY <1>1, <1>2, <1>3, <1>4, <1>5, <1>6, PTL DEF Spec
=============================================================================
