-------------------------------- MODULE Sums --------------------------------
(***************************************************************************)
(* What SumFunctionOnSet of the community modules computes, for the proofs *)
(* about quantities and pools: the sum over a finite set, whatever the     *)
(* order its elements are taken in.  The induction over finite sets looks  *)
(* at a smallest counterexample (WFMin).                                   *)
(***************************************************************************)
EXTENDS Integers, FiniteSets, Functions, FiniteSetTheorems, WellFoundedInduction, TLAPS

OneOf(s) == CHOOSE x \in s : TRUE

(* sum tells the sum of f over every subset of S *)
Sums(sum, f, S) ==
  sum = [s \in SUBSET S |-> IF s = {} THEN 0 ELSE f[OneOf(s)] + sum[s \ {OneOf(s)}]]

(* Those sums, with any element taken first *)
AnyFirst(sum, f, S) ==
  \A s \in SUBSET S : sum[s] \in Int /\ \A x \in s : sum[s] = f[x] + sum[s \ {x}]

(* An element of a set that is not empty. *)
LEMMA OneOfIsIn == ASSUME NEW s, s # {} PROVE OneOf(s) \in s
BY DEF OneOf

(* SumFunctionOnSet is defined by such a function. *)
LEMMA SumIsChosen ==
  ASSUME NEW f, NEW S
  PROVE  SumFunctionOnSet(f, S) = (CHOOSE sum : Sums(sum, f, S))[S]
BY DEF SumFunctionOnSet, FoldFunctionOnSet, MapThenFoldSet, Sums, OneOf

(* A set of subsets of a finite set, if it is not empty, has a member none *)
(* of whose proper subsets is in it.                                       *)
LEMMA SmallestSubset ==
  ASSUME NEW S, IsFiniteSet(S), NEW W \in SUBSET SUBSET S, W # {}
  PROVE  \E s \in W : \A t \in W : t \subseteq s => t = s
<1>1. IsWellFoundedOn(StrictSubsetOrdering(S), SUBSET S)
  BY FS_StrictSubsetOrderingWellFounded, FS_FiniteSubsetsOfFinite
<1>2. PICK s \in W : \A t \in W : <<t, s>> \notin StrictSubsetOrdering(S)
  BY <1>1, WFMin
<1>3. \A t \in W : t \subseteq s => t = s
  BY <1>2 DEF StrictSubsetOrdering
<1> QED  BY <1>3

(* Two such functions, for values that agree, tell the same sums. *)
LEMMA SumsAgree ==
  ASSUME NEW f, NEW g, NEW S, NEW T \in SUBSET S, IsFiniteSet(S),
         \A x \in T : f[x] = g[x],
         NEW a, Sums(a, f, T), NEW b, Sums(b, g, S)
  PROVE  \A s \in SUBSET T : a[s] = b[s]
<1> DEFINE W == {s \in SUBSET T : a[s] # b[s]}
<1>1. SUFFICES ASSUME W # {} PROVE FALSE
  OBVIOUS
<1>2. IsFiniteSet(T)
  BY FS_Subset
<1>0. W \in SUBSET SUBSET T
  OBVIOUS
<1>11. \A s : s \in W <=> s \in SUBSET T /\ a[s] # b[s]
  OBVIOUS
<1> HIDE DEF W
<1>3. PICK s \in W : \A t \in W : t \subseteq s => t = s
  BY <1>0, <1>1, <1>2, SmallestSubset
<1>4. s \in SUBSET T /\ a[s] # b[s]
  BY <1>11
<1>5. a[s] = IF s = {} THEN 0 ELSE f[OneOf(s)] + a[s \ {OneOf(s)}]
  BY <1>4 DEF Sums
<1>6. b[s] = IF s = {} THEN 0 ELSE g[OneOf(s)] + b[s \ {OneOf(s)}]
  BY <1>4 DEF Sums
<1>7. s # {}
  BY <1>4, <1>5, <1>6
<1>8. OneOf(s) \in s
  BY <1>7, OneOfIsIn
<1>9. a[s \ {OneOf(s)}] = b[s \ {OneOf(s)}]
  <2>1. s \ {OneOf(s)} \in SUBSET T /\ s \ {OneOf(s)} \subseteq s /\ s \ {OneOf(s)} # s
    BY <1>4, <1>8
  <2> QED  BY <2>1, <1>3, <1>11
<1>10. f[OneOf(s)] = g[OneOf(s)]
  BY <1>4, <1>8
<1> QED  BY <1>4, <1>5, <1>6, <1>7, <1>9, <1>10

(* There is such a function for every finite set. *)
LEMMA SumsExist ==
  ASSUME NEW f, NEW S, IsFiniteSet(S)
  PROVE  \E sum : Sums(sum, f, S)
<1> DEFINE W == {s \in SUBSET S : ~ \E sum : Sums(sum, f, s)}
<1>1. SUFFICES ASSUME W # {} PROVE FALSE
  OBVIOUS
<1>0. W \in SUBSET SUBSET S
  OBVIOUS
<1>7. \A s : s \in W <=> s \in SUBSET S /\ ~ \E sum : Sums(sum, f, s)
  OBVIOUS
<1> HIDE DEF W
<1>2. PICK s \in W : \A t \in W : t \subseteq s => t = s
  BY <1>0, <1>1, SmallestSubset
<1>3. s \in SUBSET S /\ ~ \E sum : Sums(sum, f, s)
  BY <1>7
<1> DEFINE of(t) == CHOOSE sum : Sums(sum, f, t)
           a == [t \in SUBSET s |-> IF t = {} THEN 0
                                    ELSE f[OneOf(t)] + of(t \ {OneOf(t)})[t \ {OneOf(t)}]]
<1>4. \A t \in SUBSET s : t # s => Sums(of(t), f, t)
  <2> SUFFICES ASSUME NEW t \in SUBSET s, t # s PROVE \E sum : Sums(sum, f, t)
    OBVIOUS
  <2> QED  BY <1>2, <1>3, <1>7
<1> HIDE DEF of
<1>5. \A t \in SUBSET s : t # s => a[t] = of(t)[t]
  <2> SUFFICES ASSUME NEW t \in SUBSET s, t # s PROVE a[t] = of(t)[t]
    OBVIOUS
  <2>1. Sums(of(t), f, t)
    BY <1>4
  <2>2. of(t)[t] = IF t = {} THEN 0 ELSE f[OneOf(t)] + of(t)[t \ {OneOf(t)}]
    BY <2>1 DEF Sums
  <2>3. CASE t = {}
    BY <2>2, <2>3
  <2>4. CASE t # {}
    <3>1. OneOf(t) \in t
      BY <2>4, OneOfIsIn
    <3> DEFINE u == t \ {OneOf(t)}
    <3>2. u \in SUBSET t /\ u \in SUBSET s /\ u # s
      BY <3>1
    <3>3. Sums(of(u), f, u)
      BY <3>2, <1>4
    <3>4. IsFiniteSet(t)
      BY <1>3, FS_Subset
    <3> HIDE DEF u
    <3>5. of(u)[u] = of(t)[u]
      BY <2>1, <3>2, <3>3, <3>4, SumsAgree
    <3>6. a[t] = f[OneOf(t)] + of(u)[u]
      BY <2>4 DEF u
    <3>7. of(t)[t] = f[OneOf(t)] + of(t)[u]
      BY <2>2, <2>4 DEF u
    <3> QED  BY <3>5, <3>6, <3>7
  <2> QED  BY <2>3, <2>4
<1>6. Sums(a, f, s)
  <2>1. ASSUME NEW t \in SUBSET s
        PROVE  a[t] = IF t = {} THEN 0 ELSE f[OneOf(t)] + a[t \ {OneOf(t)}]
    <3>1. CASE t = {}
      BY <3>1
    <3>2. CASE t # {}
      <4>1. OneOf(t) \in t
        BY <3>2, OneOfIsIn
      <4> DEFINE u == t \ {OneOf(t)}
      <4>2. u \in SUBSET s /\ u # s
        BY <4>1
      <4>3. a[u] = of(u)[u]
        BY <4>2, <1>5
      <4>4. a[t] = f[OneOf(t)] + of(u)[u]
        BY <3>2
      <4> QED  BY <3>2, <4>3, <4>4
    <3> QED  BY <3>1, <3>2
  <2>2. a = [t \in SUBSET s |-> a[t]]
    OBVIOUS
  <2> HIDE DEF a
  <2>3. a = [t \in SUBSET s |-> IF t = {} THEN 0 ELSE f[OneOf(t)] + a[t \ {OneOf(t)}]]
    BY <2>1, <2>2
  <2> QED  BY <2>3 DEF Sums
<1> QED  BY <1>3, <1>6

(* The sum over a finite set, as such a function tells it. *)
LEMMA SumIsTold ==
  ASSUME NEW f, NEW S, IsFiniteSet(S), NEW T \in SUBSET S,
         NEW a, Sums(a, f, S)
  PROVE  SumFunctionOnSet(f, T) = a[T]
<1>1. IsFiniteSet(T)
  BY FS_Subset
<1> DEFINE b == CHOOSE sum : Sums(sum, f, T)
<1>2. Sums(b, f, T)
  BY <1>1, SumsExist
<1>3. SumFunctionOnSet(f, T) = b[T]
  BY SumIsChosen
<1> HIDE DEF b
<1>4. b[T] = a[T]
  BY <1>1, <1>2, SumsAgree
<1> QED  BY <1>3, <1>4

(* The sum over nothing. *)
THEOREM SumOfNothing == ASSUME NEW f PROVE SumFunctionOnSet(f, {}) = 0
<1>1. IsFiniteSet({})
  BY FS_EmptySet
<1>2. PICK a : Sums(a, f, {})
  BY <1>1, SumsExist
<1>3. SumFunctionOnSet(f, {}) = a[{}]
  BY <1>1, <1>2, SumIsTold
<1>4. a[{}] = 0
  BY <1>2 DEF Sums
<1> QED  BY <1>3, <1>4

(* Sums of integers are integers, and any element can be taken first. *)
LEMMA SumsAnyOrder ==
  ASSUME NEW f, NEW S, IsFiniteSet(S), \A x \in S : f[x] \in Int,
         NEW a, Sums(a, f, S)
  PROVE  AnyFirst(a, f, S)
<1> DEFINE W == {s \in SUBSET S : ~ (a[s] \in Int /\ \A x \in s : a[s] = f[x] + a[s \ {x}])}
<1>1. SUFFICES ASSUME W # {} PROVE FALSE
  BY DEF AnyFirst
<1>2. W \in SUBSET SUBSET S
  OBVIOUS
<1>3. \A s : s \in W <=> s \in SUBSET S /\ ~ (a[s] \in Int /\ \A x \in s : a[s] = f[x] + a[s \ {x}])
  OBVIOUS
<1> HIDE DEF W
<1>4. PICK s \in W : \A t \in W : t \subseteq s => t = s
  BY <1>1, <1>2, SmallestSubset
<1>5. s \in SUBSET S
  BY <1>2
<1>6. \A t \in SUBSET S : t \subseteq s /\ t # s =>
         a[t] \in Int /\ \A x \in t : a[t] = f[x] + a[t \ {x}]
  BY <1>3, <1>4
<1>7. a[s] = IF s = {} THEN 0 ELSE f[OneOf(s)] + a[s \ {OneOf(s)}]
  BY <1>5 DEF Sums
<1>8. CASE s = {}
  BY <1>3, <1>4, <1>5, <1>7, <1>8
<1>9. CASE s # {}
  <2> DEFINE c == OneOf(s)
  <2>1. c \in s
    BY <1>9, OneOfIsIn
  <2>2. a[s] = f[c] + a[s \ {c}]
    BY <1>7, <1>9
  <2> HIDE DEF c
  <2>3. a[s \ {c}] \in Int /\ f[c] \in Int
    BY <1>5, <1>6, <2>1
  <2>4. ASSUME NEW x \in s PROVE a[s] = f[x] + a[s \ {x}]
    <3>1. CASE x = c
      BY <2>2, <3>1
    <3>2. CASE x # c
      <4> DEFINE both == (s \ {c}) \ {x}
      <4>1. a[s \ {c}] = f[x] + a[both]
        BY <1>5, <1>6, <2>1, <3>2
      <4>2. a[s \ {x}] = f[c] + a[both]
        <5>1. a[s \ {x}] = f[c] + a[(s \ {x}) \ {c}]
          BY <1>5, <1>6, <2>1, <3>2
        <5>2. (s \ {x}) \ {c} = both
          OBVIOUS
        <5> QED  BY <5>1, <5>2
      <4>3. a[both] \in Int /\ f[x] \in Int
        BY <1>5, <1>6, <2>1, <3>2
      <4> HIDE DEF both
      <4> QED  BY <2>2, <2>3, <4>1, <4>2, <4>3
    <3> QED  BY <3>1, <3>2
  <2>5. a[s] \in Int
    BY <2>2, <2>3
  <2> QED  BY <1>3, <1>4, <2>4, <2>5
<1> QED  BY <1>8, <1>9

(* The sum of integers is an integer. *)
THEOREM SumType ==
  ASSUME NEW f, NEW S, IsFiniteSet(S), \A x \in S : f[x] \in Int
  PROVE  SumFunctionOnSet(f, S) \in Int
<1>1. PICK a : Sums(a, f, S)
  BY SumsExist
<1>2. SumFunctionOnSet(f, S) = a[S]
  BY <1>1, SumIsTold
<1>3. AnyFirst(a, f, S)
  BY <1>1, SumsAnyOrder
<1> QED  BY <1>2, <1>3 DEF AnyFirst

(* One element more. *)
THEOREM SumAdds ==
  ASSUME NEW f, NEW S, IsFiniteSet(S), NEW x, x \notin S, \A y \in S \cup {x} : f[y] \in Int
  PROVE  SumFunctionOnSet(f, S \cup {x}) = SumFunctionOnSet(f, S) + f[x]
<1> DEFINE T == S \cup {x}
<1>1. IsFiniteSet(T)
  BY FS_AddElement
<1>2. PICK a : Sums(a, f, T)
  BY <1>1, SumsExist
<1>3. S \in SUBSET T /\ T \in SUBSET T /\ x \in T /\ T \ {x} = S
  OBVIOUS
<1>4. \A y \in T : f[y] \in Int
  OBVIOUS
<1> HIDE DEF T
<1>5. SumFunctionOnSet(f, T) = a[T] /\ SumFunctionOnSet(f, S) = a[S]
  BY <1>1, <1>2, <1>3, SumIsTold
<1>8. AnyFirst(a, f, T)
  BY <1>1, <1>2, <1>4, SumsAnyOrder
<1>6. a[T] = f[x] + a[S] /\ a[S] \in Int
  BY <1>3, <1>8 DEF AnyFirst
<1>7. SumFunctionOnSet(f, T) = SumFunctionOnSet(f, S) + f[x]
  BY <1>3, <1>4, <1>5, <1>6
<1> QED  BY <1>7 DEF T

(* Only the values at the elements matter. *)
THEOREM SumSame ==
  ASSUME NEW f, NEW g, NEW S, IsFiniteSet(S), \A x \in S : f[x] = g[x]
  PROVE  SumFunctionOnSet(f, S) = SumFunctionOnSet(g, S)
<1>1. PICK a : Sums(a, f, S)
  BY SumsExist
<1>2. PICK b : Sums(b, g, S)
  BY SumsExist
<1>3. SumFunctionOnSet(f, S) = a[S] /\ SumFunctionOnSet(g, S) = b[S]
  BY <1>1, <1>2, SumIsTold
<1>4. S \in SUBSET S
  OBVIOUS
<1>5. a[S] = b[S]
  BY <1>1, <1>2, <1>4, SumsAgree
<1> QED  BY <1>3, <1>5

(* One value changes: the sum changes as much. *)
THEOREM SumChanges ==
  ASSUME NEW f, NEW g, NEW S, IsFiniteSet(S), NEW x \in S,
         \A y \in S : f[y] \in Int /\ g[y] \in Int,
         \A y \in S \ {x} : f[y] = g[y]
  PROVE  SumFunctionOnSet(g, S) = SumFunctionOnSet(f, S) + (g[x] - f[x])
<1> DEFINE T == S \ {x}
<1>1. IsFiniteSet(T)
  BY FS_RemoveElement
<1>2. x \notin T /\ T \cup {x} = S
  OBVIOUS
<1>3. \A y \in T \cup {x} : f[y] \in Int /\ g[y] \in Int
  OBVIOUS
<1>4. \A y \in T : f[y] = g[y]
  OBVIOUS
<1> HIDE DEF T
<1>5. SumFunctionOnSet(f, T) = SumFunctionOnSet(g, T) /\ SumFunctionOnSet(f, T) \in Int
  BY <1>1, <1>3, <1>4, SumSame, SumType
<1>6. SumFunctionOnSet(f, S) = SumFunctionOnSet(f, T) + f[x]
  BY <1>1, <1>2, <1>3, SumAdds
<1>7. SumFunctionOnSet(g, S) = SumFunctionOnSet(g, T) + g[x]
  BY <1>1, <1>2, <1>3, SumAdds
<1>8. f[x] \in Int /\ g[x] \in Int
  OBVIOUS
<1> QED  BY <1>5, <1>6, <1>7, <1>8

(* Among naturals, a part sums up to no more than the whole. *)
THEOREM SumGrows ==
  ASSUME NEW f, NEW S, IsFiniteSet(S), NEW T \in SUBSET S, \A x \in S : f[x] \in Nat
  PROVE  0 <= SumFunctionOnSet(f, T) /\ SumFunctionOnSet(f, T) <= SumFunctionOnSet(f, S)
<1>1. PICK a : Sums(a, f, S)
  BY SumsExist
<1>2. \A s \in SUBSET S : SumFunctionOnSet(f, s) = a[s]
  BY <1>1, SumIsTold
<1>3. AnyFirst(a, f, S)
  BY <1>1, SumsAnyOrder
<1>4. a[{}] = 0
  BY <1>1 DEF Sums
<1> DEFINE W == {s \in SUBSET S : ~ (0 <= a[s] /\ \A t \in SUBSET s : a[t] <= a[s])}
<1>5. ASSUME W # {} PROVE FALSE
  <2>1. W \in SUBSET SUBSET S
    OBVIOUS
  <2>2. \A s : s \in W <=> s \in SUBSET S /\ ~ (0 <= a[s] /\ \A t \in SUBSET s : a[t] <= a[s])
    OBVIOUS
  <2> HIDE DEF W
  <2>3. PICK s \in W : \A t \in W : t \subseteq s => t = s
    BY <1>5, <2>1, SmallestSubset
  <2>4. s \in SUBSET S
    BY <2>1
  <2>5. ASSUME NEW x \in s
        PROVE  /\ 0 <= a[s] /\ a[s \ {x}] <= a[s]
               /\ \A t \in SUBSET (s \ {x}) : a[t] <= a[s]
    <3> DEFINE u == s \ {x}
    <3>1. u \in SUBSET S /\ u \subseteq s /\ u # s
      BY <2>4
    <3>2. 0 <= a[u] /\ \A t \in SUBSET u : a[t] <= a[u]
      BY <2>2, <2>3, <3>1
    <3>3. a[s] = f[x] + a[u] /\ f[x] \in Nat /\ a[u] \in Int
      BY <1>3, <2>4, <3>1 DEF AnyFirst
    <3>4. \A t \in SUBSET u : a[t] \in Int
      BY <1>3, <3>1 DEF AnyFirst
    <3> HIDE DEF u
    <3>5. 0 <= a[s] /\ a[u] <= a[s] /\ \A t \in SUBSET u : a[t] <= a[s]
      BY <3>2, <3>3, <3>4
    <3> QED  BY <3>5 DEF u
  <2>6. CASE s = {}
    <3>1. \A t \in SUBSET s : t = s
      BY <2>6
    <3>2. 0 <= a[s] /\ a[s] <= a[s]
      BY <1>4, <2>6
    <3> QED  BY <2>2, <2>3, <2>4, <3>1, <3>2
  <2>7. CASE s # {}
    <3>1. 0 <= a[s]
      BY <2>5, <2>7
    <3>2. ASSUME NEW t \in SUBSET s PROVE a[t] <= a[s]
      <4>1. CASE t = s
        BY <1>3, <2>4, <4>1 DEF AnyFirst
      <4>2. CASE t # s
        <5>1. PICK x \in s : x \notin t
          BY <4>2
        <5>2. t \in SUBSET (s \ {x})
          BY <5>1
        <5> QED  BY <2>5, <5>2
      <4> QED  BY <4>1, <4>2
    <3> QED  BY <2>2, <2>3, <2>4, <3>1, <3>2
  <2> QED  BY <2>6, <2>7
<1>6. \A s \in SUBSET S : 0 <= a[s] /\ \A t \in SUBSET s : a[t] <= a[s]
  BY <1>5
<1>7. 0 <= a[T] /\ a[T] <= a[S]
  BY <1>6
<1>8. SumFunctionOnSet(f, T) = a[T] /\ SumFunctionOnSet(f, S) = a[S]
  BY <1>2
<1> QED  BY <1>7, <1>8

(* Values within c times others sum up to no more than c times their sum. *)
THEOREM SumBounded ==
  ASSUME NEW f, NEW g, NEW c \in Int, NEW S, IsFiniteSet(S),
         \A x \in S : f[x] \in Int /\ g[x] \in Int,
         \A x \in S : f[x] <= c * g[x]
  PROVE  SumFunctionOnSet(f, S) <= c * SumFunctionOnSet(g, S)
<1>1. PICK a : Sums(a, f, S)
  BY SumsExist
<1>2. PICK b : Sums(b, g, S)
  BY SumsExist
<1>3. SumFunctionOnSet(f, S) = a[S] /\ SumFunctionOnSet(g, S) = b[S]
  BY <1>1, <1>2, SumIsTold
<1>4. AnyFirst(a, f, S)
  BY <1>1, SumsAnyOrder
<1>5. AnyFirst(b, g, S)
  BY <1>2, SumsAnyOrder
<1>6. a[{}] = 0 /\ b[{}] = 0
  BY <1>1, <1>2 DEF Sums
<1> DEFINE W == {s \in SUBSET S : ~ (a[s] <= c * b[s])}
<1>7. ASSUME W # {} PROVE FALSE
  <2>1. W \in SUBSET SUBSET S
    OBVIOUS
  <2>2. \A s : s \in W <=> s \in SUBSET S /\ ~ (a[s] <= c * b[s])
    OBVIOUS
  <2> HIDE DEF W
  <2>3. PICK s \in W : \A t \in W : t \subseteq s => t = s
    BY <1>7, <2>1, SmallestSubset
  <2>4. s \in SUBSET S
    BY <2>1
  <2>5. CASE s = {}
    BY <1>6, <2>2, <2>3, <2>5
  <2>6. CASE s # {}
    <3>1. PICK x \in s : TRUE
      BY <2>6
    <3> DEFINE u == s \ {x}
    <3>2. u \in SUBSET S /\ u \subseteq s /\ u # s
      BY <2>4
    <3>3. a[u] <= c * b[u]
      BY <2>2, <2>3, <3>2
    <3>4. a[s] = f[x] + a[u] /\ a[u] \in Int /\ b[s] = g[x] + b[u] /\ b[u] \in Int
      BY <1>4, <1>5, <2>4, <3>2 DEF AnyFirst
    <3> HIDE DEF u
    <3>5. f[x] \in Int /\ g[x] \in Int /\ f[x] <= c * g[x]
      BY <2>4
    <3>6. c * (g[x] + b[u]) = c * g[x] + c * b[u]
      BY <3>4, <3>5
    <3>7. f[x] + a[u] <= c * g[x] + c * b[u]
      BY <3>3, <3>4, <3>5
    <3> QED  BY <2>2, <2>3, <2>4, <3>4, <3>6, <3>7
  <2> QED  BY <2>5, <2>6
<1>8. a[S] <= c * b[S]
  BY <1>7
<1> QED  BY <1>3, <1>8

(* A set of naturals that is not empty has a least element. *)
THEOREM LeastNatural ==
  ASSUME NEW W \in SUBSET Nat, W # {}
  PROVE  \E n \in W : \A m \in W : n <= m
<1> DEFINE R == OpToRel(<, Nat)
<1>1. PICK n \in W : \A m \in W : <<m, n>> \notin R
  BY NatLessThanWellFounded, WFMin
<1>2. R = {pair \in Nat \X Nat : pair[1] < pair[2]}
  BY Zenon DEF OpToRel
<1> HIDE DEF R
<1>3. \A l, m \in Nat : l < m => <<l, m>> \in R
  BY <1>2
<1>4. ASSUME NEW m \in W PROVE n <= m
  <2>1. m \in Nat /\ n \in Nat
    OBVIOUS
  <2>2. ~ (m < n)
    BY <1>1, <1>3, <2>1, Zenon
  <2> QED  BY <2>1, <2>2
<1> QED  BY <1>4

=============================================================================
