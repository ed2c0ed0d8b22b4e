----------------------------- MODULE SumTheorems -----------------------------
(* Sums over finite sets: SumFunctionOnSet of the community modules, by its
   recursive definition.  The induction over the set is a minimal
   counterexample (WFMin): the facts that follow have no operator parameter. *)
EXTENDS Integers, FiniteSets, Functions, FiniteSetTheorems, WellFoundedInduction, TLAPS

(* Of the sets of a family of finite sets, one contains no other.            *)
LEMMA SmallestSet ==
    ASSUME NEW S, IsFiniteSet(S), NEW F, F \subseteq SUBSET S, F # {}
    PROVE  \E s \in F : \A t \in F : t \subseteq s => t = s
<1>1. IsWellFoundedOn(StrictSubsetOrdering(S), SUBSET S)
  BY FS_StrictSubsetOrderingWellFounded, FS_FiniteSubsetsOfFinite
<1>2. PICK s \in F : \A t \in F : ~ (<<t, s>> \in StrictSubsetOrdering(S))
  BY <1>1, WFMin
<1>3. ASSUME NEW t \in F, t \subseteq s, t # s
      PROVE  FALSE
  <2>1. <<t, s>> \in (SUBSET S) \X (SUBSET S) /\ <<t, s>>[1] = t /\ <<t, s>>[2] = s
    BY <1>3
  <2> QED
    BY <2>1, <1>2, <1>3 DEF StrictSubsetOrdering
<1> QED
  BY <1>3

(* Of numbers from 1 to n, one is the least.                                 *)
LEMMA LeastNumber ==
    ASSUME NEW n \in Nat, NEW T \in SUBSET (1..n), T # {}
    PROVE  \E least \in T : \A i \in T : least <= i
<1> DEFINE S == 1..n
           F == {1..i : i \in T}
<1>1. IsFiniteSet(S)
  BY FS_Interval
<1>2. F \subseteq SUBSET S /\ F # {}
  <2>1. ASSUME NEW i \in T PROVE 1..i \in SUBSET S
    OBVIOUS
  <2> QED
    BY <2>1
<1>3. PICK s \in F : \A t \in F : t \subseteq s => t = s
  <2> HIDE DEF F, S
  <2> QED
    BY <1>1, <1>2, SmallestSet
<1>4. PICK least \in T : s = 1..least
  BY <1>3
<1>5. ASSUME NEW i \in T, i < least PROVE FALSE
  <2>1. 1..i \subseteq 1..least /\ 1..i \in F /\ least \in 1..least /\ least \notin 1..i
    BY <1>5
  <2> QED
    BY <1>3, <1>4, <2>1
<1> QED
  BY <1>5

(* A function to the integers is greatest somewhere on a finite set.        *)
LEMMA GreatestValue ==
    ASSUME NEW S, IsFiniteSet(S), S # {}, NEW f, \A x \in S : f[x] \in Int
    PROVE  \E top \in S : \A i \in S : f[i] <= f[top]
<1> DEFINE above(i) == {k \in S : f[k] >= f[i]}
           F == {above(i) : i \in S}
<1>1. F \subseteq SUBSET S /\ F # {}
  OBVIOUS
<1>2. PICK s \in F : \A t \in F : t \subseteq s => t = s
  <2> HIDE DEF F
  <2> QED
    BY <1>1, SmallestSet
<1>3. PICK top \in S : s = above(top)
  BY <1>2
<1>4. ASSUME NEW i \in S, f[i] > f[top] PROVE FALSE
  <2>1. f[i] \in Int /\ f[top] \in Int
    OBVIOUS
  <2>2. top \in above(top) /\ top \notin above(i)
    BY <1>4, <2>1
  <2>3. above(i) \subseteq above(top)
    <3> SUFFICES ASSUME NEW k \in S, f[k] >= f[i] PROVE f[k] >= f[top]
      OBVIOUS
    <3>1. f[k] \in Int
      OBVIOUS
    <3> QED
      BY <1>4, <2>1, <3>1
  <2> QED
    BY <1>2, <1>3, <2>2, <2>3
<1> QED
  BY <1>4

-----------------------------------------------------------------------------
(* The recursion that defines a sum.                                         *)

Chosen(s) == CHOOSE x \in s : TRUE

SumStep(f, g, s) == IF s = {} THEN 0 ELSE f[Chosen(s)] + g[s \ {Chosen(s)}]

Sums(f, g, S) == g = [s \in SUBSET S |-> SumStep(f, g, s)]

LEMMA SumIsChosen ==
    ASSUME NEW f, NEW S
    PROVE  SumFunctionOnSet(f, S) = (CHOOSE g : Sums(f, g, S))[S]
BY DEF SumFunctionOnSet, FoldFunctionOnSet, MapThenFoldSet, Sums, SumStep, Chosen

LEMMA ChosenIsMember == \A s : s # {} => Chosen(s) \in s
BY DEF Chosen

LEMMA SumsAreUnique ==
    ASSUME NEW f, NEW S, IsFiniteSet(S), NEW g, NEW h, Sums(f, g, S), Sums(f, h, S)
    PROVE  g = h
<1> DEFINE F == {s \in SUBSET S : g[s] # h[s]}
<1>1. ASSUME F # {} PROVE FALSE
  <2>1. PICK s \in F : \A t \in F : t \subseteq s => t = s
    <3>1. F \subseteq SUBSET S
      OBVIOUS
    <3> HIDE DEF F
    <3> QED
      BY <1>1, <3>1, SmallestSet
  <2>2. s # {}
    BY <2>1 DEF Sums, SumStep
  <2>3. Chosen(s) \in s
    BY <2>2, ChosenIsMember
  <2>4. s \ {Chosen(s)} \notin F /\ s \ {Chosen(s)} \in SUBSET S
    BY <2>1, <2>3
  <2>5. g[s \ {Chosen(s)}] = h[s \ {Chosen(s)}]
    BY <2>4
  <2>6. g[s] = SumStep(f, g, s) /\ h[s] = SumStep(f, h, s)
    BY <2>1 DEF Sums
  <2> QED
    BY <2>1, <2>2, <2>5, <2>6 DEF SumStep
<1>2. \A s \in SUBSET S : g[s] = h[s]
  BY <1>1
<1>3. g = [s \in SUBSET S |-> g[s]] /\ h = [s \in SUBSET S |-> h[s]]
  BY DEF Sums
<1> QED
  BY <1>2, <1>3

(* The sums of the subsets, put together, are a solution.                    *)
LEMMA SumsExist ==
    ASSUME NEW f, NEW S, IsFiniteSet(S)
    PROVE  Sums(f, [s \in SUBSET S |-> SumFunctionOnSet(f, s)], S)
<1> DEFINE H(s) == [t \in SUBSET s |-> SumFunctionOnSet(f, t)]
           F == {s \in SUBSET S : ~ Sums(f, H(s), s)}
<1>1. ASSUME F # {} PROVE FALSE
  <2>1. PICK s \in F : \A t \in F : t \subseteq s => t = s
    <3>1. F \subseteq SUBSET S
      OBVIOUS
    <3> HIDE DEF F
    <3> QED
      BY <1>1, <3>1, SmallestSet
  <2>2. IsFiniteSet(s)
    BY FS_Subset
  <2>3. ASSUME NEW t \in SUBSET s, t # s
        PROVE  SumFunctionOnSet(f, t) = IF t = {} THEN 0 ELSE f[Chosen(t)] + SumFunctionOnSet(f, t \ {Chosen(t)})
    <3>1. Sums(f, H(t), t)
      BY <2>1, <2>3
    <3>2. H(t)[t] = SumStep(f, H(t), t)
      BY <3>1 DEF Sums
    <3> QED
      BY <3>2 DEF SumStep
  <2> DEFINE g == [t \in SUBSET s |-> IF t = s THEN IF s = {} THEN 0 ELSE f[Chosen(s)] + SumFunctionOnSet(f, s \ {Chosen(s)})
                                      ELSE SumFunctionOnSet(f, t)]
  <2>4. Sums(f, g, s)
    <3>1. ASSUME NEW t \in SUBSET s
          PROVE  g[t] = SumStep(f, g, t)
      <4>1. CASE t = {}
        BY <4>1, <2>3 DEF SumStep
      <4>2. CASE t # {}
        <5>1. Chosen(t) \in t
          BY <4>2, ChosenIsMember
        <5>2. t \ {Chosen(t)} \in SUBSET s /\ t \ {Chosen(t)} # s
          BY <5>1
        <5>3. g[t \ {Chosen(t)}] = SumFunctionOnSet(f, t \ {Chosen(t)})
          BY <5>2
        <5>4. g[t] = f[Chosen(t)] + SumFunctionOnSet(f, t \ {Chosen(t)})
          BY <4>2, <2>3
        <5> QED
          BY <4>2, <5>3, <5>4 DEF SumStep
      <4> QED
        BY <4>1, <4>2
    <3>2. g = [t \in SUBSET s |-> g[t]]
      OBVIOUS
    <3> HIDE DEF g
    <3>3. [t \in SUBSET s |-> g[t]] = [t \in SUBSET s |-> SumStep(f, g, t)]
      BY <3>1
    <3> QED
      BY <3>2, <3>3 DEF Sums
  <2>5. Sums(f, (CHOOSE h : Sums(f, h, s)), s)
    BY <2>4
  <2>6. (CHOOSE h : Sums(f, h, s)) = g
    BY <2>2, <2>4, <2>5, SumsAreUnique
  <2>7. SumFunctionOnSet(f, s) = g[s]
    BY <2>6, SumIsChosen
  <2>8. H(s) = g
    BY <2>7
  <2> QED
    BY <2>1, <2>4, <2>8
<1> QED
  BY <1>1

LEMMA SumOfNothing ==
    ASSUME NEW f
    PROVE  SumFunctionOnSet(f, {}) = 0
<1> DEFINE H == [s \in SUBSET {} |-> SumFunctionOnSet(f, s)]
<1>1. Sums(f, H, {})
  BY SumsExist, FS_EmptySet
<1>2. H[{}] = SumStep(f, H, {})
  BY <1>1 DEF Sums
<1> QED
  BY <1>2 DEF SumStep

LEMMA SumByChosen ==
    ASSUME NEW f, NEW S, IsFiniteSet(S), S # {}
    PROVE  Chosen(S) \in S /\ SumFunctionOnSet(f, S) = f[Chosen(S)] + SumFunctionOnSet(f, S \ {Chosen(S)})
<1> DEFINE H == [s \in SUBSET S |-> SumFunctionOnSet(f, s)]
<1>1. Sums(f, H, S)
  BY SumsExist
<1>2. H[S] = SumStep(f, H, S)
  BY <1>1 DEF Sums
<1>3. Chosen(S) \in S
  BY ChosenIsMember
<1> QED
  BY <1>2, <1>3 DEF SumStep
-----------------------------------------------------------------------------
(* A sum of integers is an integer, of naturals a natural.                   *)
LEMMA SumInt ==
    ASSUME NEW f, NEW S, IsFiniteSet(S), \A x \in S : f[x] \in Int
    PROVE  SumFunctionOnSet(f, S) \in Int
<1> DEFINE F == {s \in SUBSET S : SumFunctionOnSet(f, s) \notin Int}
<1>1. ASSUME F # {} PROVE FALSE
  <2>1. PICK s \in F : \A t \in F : t \subseteq s => t = s
    <3>1. F \subseteq SUBSET S
      OBVIOUS
    <3> HIDE DEF F
    <3> QED
      BY <1>1, <3>1, SmallestSet
  <2>2. s # {} /\ IsFiniteSet(s)
    <3>1. ASSUME s = {} PROVE FALSE
      <4>1. SumFunctionOnSet(f, s) = 0
        BY <3>1, SumOfNothing
      <4> QED
        BY <2>1, <4>1
    <3> QED
      BY <3>1, FS_Subset
  <2>3. Chosen(s) \in s /\ SumFunctionOnSet(f, s) = f[Chosen(s)] + SumFunctionOnSet(f, s \ {Chosen(s)})
    BY <2>2, SumByChosen
  <2>4. SumFunctionOnSet(f, s \ {Chosen(s)}) \in Int
    BY <2>1, <2>3
  <2> QED
    BY <2>1, <2>3, <2>4
<1> QED
  BY <1>1

(* Any summand may be taken first.                                           *)
LEMMA SumSplit ==
    ASSUME NEW f, NEW S, IsFiniteSet(S), \A x \in S : f[x] \in Int, NEW x \in S
    PROVE  SumFunctionOnSet(f, S) = f[x] + SumFunctionOnSet(f, S \ {x})
<1> DEFINE F == {s \in SUBSET S : \E y \in s : SumFunctionOnSet(f, s) # f[y] + SumFunctionOnSet(f, s \ {y})}
<1>1. ASSUME F # {} PROVE FALSE
  <2>1. PICK s \in F : \A t \in F : t \subseteq s => t = s
    <3>1. F \subseteq SUBSET S
      OBVIOUS
    <3> HIDE DEF F
    <3> QED
      BY <1>1, <3>1, SmallestSet
  <2>2. PICK y \in s : SumFunctionOnSet(f, s) # f[y] + SumFunctionOnSet(f, s \ {y})
    BY <2>1
  <2>3. s # {} /\ IsFiniteSet(s) /\ s \subseteq S
    BY <2>1, <2>2, FS_Subset
  <2> DEFINE c == Chosen(s)
  <2>4. c \in s /\ SumFunctionOnSet(f, s) = f[c] + SumFunctionOnSet(f, s \ {c})
    BY <2>3, SumByChosen
  <2>5. c # y
    BY <2>2, <2>4
  <2>6. SumFunctionOnSet(f, s \ {c}) = f[y] + SumFunctionOnSet(f, (s \ {c}) \ {y})
    <3>1. s \ {c} \notin F /\ s \ {c} \in SUBSET S /\ y \in s \ {c}
      BY <2>1, <2>3, <2>4, <2>5
    <3> HIDE DEF c
    <3> QED
      BY <3>1
  <2>7. SumFunctionOnSet(f, s \ {y}) = f[c] + SumFunctionOnSet(f, (s \ {y}) \ {c})
    <3>1. s \ {y} \notin F /\ s \ {y} \in SUBSET S /\ c \in s \ {y}
      BY <2>1, <2>3, <2>4, <2>5
    <3> HIDE DEF c
    <3> QED
      BY <3>1
  <2>8. (s \ {c}) \ {y} = (s \ {y}) \ {c}
    OBVIOUS
  <2>9. SumFunctionOnSet(f, (s \ {y}) \ {c}) \in Int
    <3> DEFINE t == (s \ {y}) \ {c}
    <3>1. t \in SUBSET S /\ IsFiniteSet(t)
      BY <2>3, FS_Subset
    <3>2. \A z \in t : f[z] \in Int
      BY <3>1
    <3> HIDE DEF t
    <3>3. SumFunctionOnSet(f, t) \in Int
      BY <3>1, <3>2, SumInt
    <3> QED
      BY <3>3 DEF t
  <2>10. f[c] \in Int /\ f[y] \in Int
    BY <2>2, <2>3, <2>4
  <2>11. SumFunctionOnSet(f, (s \ {c}) \ {y}) = SumFunctionOnSet(f, (s \ {y}) \ {c})
    BY <2>8
  <2> HIDE DEF c
  <2> QED
    BY <2>2, <2>4, <2>6, <2>7, <2>9, <2>10, <2>11
<1> QED
  BY <1>1

(* A sum sees nothing but its summands, and grows with each of them.         *)
LEMMA SumMonotone ==
    ASSUME NEW f, NEW g, NEW S, IsFiniteSet(S),
           \A x \in S : f[x] \in Int /\ g[x] \in Int /\ f[x] <= g[x]
    PROVE  SumFunctionOnSet(f, S) <= SumFunctionOnSet(g, S)
<1> DEFINE F == {s \in SUBSET S : ~ (SumFunctionOnSet(f, s) <= SumFunctionOnSet(g, s))}
<1>1. ASSUME F # {} PROVE FALSE
  <2>1. PICK s \in F : \A t \in F : t \subseteq s => t = s
    <3>1. F \subseteq SUBSET S
      OBVIOUS
    <3> HIDE DEF F
    <3> QED
      BY <1>1, <3>1, SmallestSet
  <2>2. IsFiniteSet(s) /\ s \subseteq S
    BY <2>1, FS_Subset
  <2>3. s # {}
    BY <2>1, SumOfNothing
  <2>4. PICK c : c \in s
    BY <2>3
  <2> DEFINE t == s \ {c}
  <2>5. /\ SumFunctionOnSet(f, s) = f[c] + SumFunctionOnSet(f, t)
        /\ SumFunctionOnSet(g, s) = g[c] + SumFunctionOnSet(g, t)
    BY <2>2, <2>4, SumSplit
  <2>6. t \subseteq S /\ IsFiniteSet(t)
    BY <2>2, FS_Subset
  <2>7. SumFunctionOnSet(f, t) <= SumFunctionOnSet(g, t)
    BY <2>1, <2>4, <2>6
  <2>8. SumFunctionOnSet(f, t) \in Int /\ SumFunctionOnSet(g, t) \in Int
    <3> HIDE DEF t
    <3> QED
      BY <2>6, SumInt
  <2> HIDE DEF t
  <2>9. f[c] \in Int /\ g[c] \in Int /\ f[c] <= g[c]
    BY <2>2, <2>4
  <2>10. SumFunctionOnSet(f, s) <= SumFunctionOnSet(g, s)
    BY <2>5, <2>7, <2>8, <2>9
  <2> QED
    BY <2>1, <2>10
<1> QED
  BY <1>1

LEMMA SumScale ==
    ASSUME NEW f, NEW g, NEW S, IsFiniteSet(S), NEW k \in Int,
           \A x \in S : f[x] \in Int /\ g[x] = k * f[x]
    PROVE  SumFunctionOnSet(g, S) = k * SumFunctionOnSet(f, S)
<1> DEFINE F == {s \in SUBSET S : SumFunctionOnSet(g, s) # k * SumFunctionOnSet(f, s)}
<1>0. \A x \in S : g[x] \in Int
  OBVIOUS
<1>1. ASSUME F # {} PROVE FALSE
  <2>1. PICK s \in F : \A t \in F : t \subseteq s => t = s
    <3>1. F \subseteq SUBSET S
      OBVIOUS
    <3> HIDE DEF F
    <3> QED
      BY <1>1, <3>1, SmallestSet
  <2>2. IsFiniteSet(s) /\ s \subseteq S
    BY <2>1, FS_Subset
  <2>3. s # {}
    <3>1. k * 0 = 0
      OBVIOUS
    <3> QED
      BY <2>1, <3>1, SumOfNothing
  <2>4. PICK c : c \in s
    BY <2>3
  <2> DEFINE t == s \ {c}
  <2>5. /\ SumFunctionOnSet(f, s) = f[c] + SumFunctionOnSet(f, t)
        /\ SumFunctionOnSet(g, s) = g[c] + SumFunctionOnSet(g, t)
    BY <1>0, <2>2, <2>4, SumSplit
  <2>6. t \subseteq S /\ IsFiniteSet(t)
    BY <2>2, FS_Subset
  <2>7. SumFunctionOnSet(g, t) = k * SumFunctionOnSet(f, t)
    BY <2>1, <2>4, <2>6
  <2>8. SumFunctionOnSet(f, t) \in Int
    <3> HIDE DEF t
    <3> QED
      BY <2>6, SumInt
  <2> HIDE DEF t
  <2>9. f[c] \in Int /\ g[c] = k * f[c]
    BY <2>2, <2>4
  <2>10. SumFunctionOnSet(g, s) = k * SumFunctionOnSet(f, s)
    BY <2>5, <2>7, <2>8, <2>9
  <2> QED
    BY <2>1, <2>10
<1> QED
  BY <1>1

LEMMA SumSame ==
    ASSUME NEW f, NEW g, NEW S, IsFiniteSet(S), \A x \in S : f[x] \in Int /\ g[x] = f[x]
    PROVE  SumFunctionOnSet(f, S) = SumFunctionOnSet(g, S)
<1>1. SumFunctionOnSet(f, S) \in Int /\ SumFunctionOnSet(g, S) \in Int
  BY SumInt
<1>2. /\ SumFunctionOnSet(f, S) <= SumFunctionOnSet(g, S)
      /\ SumFunctionOnSet(g, S) <= SumFunctionOnSet(f, S)
  BY SumMonotone
<1> QED
  BY <1>1, <1>2

(* One summand changes.                                                      *)
LEMMA SumChange ==
    ASSUME NEW f, NEW g, NEW S, IsFiniteSet(S), NEW c \in S,
           \A x \in S : f[x] \in Int /\ g[x] \in Int, \A x \in S \ {c} : g[x] = f[x]
    PROVE  SumFunctionOnSet(g, S) = SumFunctionOnSet(f, S) + (g[c] - f[c])
<1> DEFINE t == S \ {c}
<1>1. /\ SumFunctionOnSet(f, S) = f[c] + SumFunctionOnSet(f, t)
      /\ SumFunctionOnSet(g, S) = g[c] + SumFunctionOnSet(g, t)
  BY SumSplit
<1>2. IsFiniteSet(t) /\ t \subseteq S
  BY FS_Subset
<1>3. \A x \in t : f[x] \in Int /\ g[x] \in Int /\ g[x] = f[x]
  OBVIOUS
<1> HIDE DEF t
<1>4. SumFunctionOnSet(f, t) = SumFunctionOnSet(g, t) /\ SumFunctionOnSet(f, t) \in Int
  BY <1>2, <1>3, SumSame, SumInt
<1> QED
  BY <1>1, <1>4

(* A sum of naturals is a natural, at least each of its summands, and zero when
   all of them are. *)
LEMMA SumNat ==
    ASSUME NEW f, NEW S, IsFiniteSet(S), \A x \in S : f[x] \in Nat
    PROVE  /\ SumFunctionOnSet(f, S) \in Nat
           /\ \A x \in S : f[x] <= SumFunctionOnSet(f, S)
           /\ (\A x \in S : f[x] = 0) => SumFunctionOnSet(f, S) = 0
<1> DEFINE F == {s \in SUBSET S : ~ (SumFunctionOnSet(f, s) >= 0 /\ ((\A x \in s : f[x] = 0) => SumFunctionOnSet(f, s) = 0))}
<1>1. ASSUME F # {} PROVE FALSE
  <2>1. PICK s \in F : \A t \in F : t \subseteq s => t = s
    <3>1. F \subseteq SUBSET S
      OBVIOUS
    <3> HIDE DEF F
    <3> QED
      BY <1>1, <3>1, SmallestSet
  <2>2. IsFiniteSet(s) /\ s \subseteq S
    BY <2>1, FS_Subset
  <2>3. ASSUME s = {} PROVE FALSE
    <3>1. SumFunctionOnSet(f, s) = 0
      BY <2>3, SumOfNothing
    <3> QED
      BY <2>1, <3>1
  <2>4. PICK c : c \in s
    BY <2>3
  <2> DEFINE t == s \ {c}
  <2>5. SumFunctionOnSet(f, s) = f[c] + SumFunctionOnSet(f, t)
    BY <2>2, <2>4, SumSplit
  <2>6. t \subseteq S /\ IsFiniteSet(t)
    BY <2>2, FS_Subset
  <2>7. SumFunctionOnSet(f, t) >= 0 /\ ((\A x \in t : f[x] = 0) => SumFunctionOnSet(f, t) = 0)
    BY <2>1, <2>4, <2>6
  <2>8. SumFunctionOnSet(f, t) \in Int
    <3>1. \A x \in t : f[x] \in Int
      BY <2>6
    <3> HIDE DEF t
    <3> QED
      BY <2>6, <3>1, SumInt
  <2>9. f[c] \in Nat /\ ((\A x \in s : f[x] = 0) => f[c] = 0 /\ \A x \in t : f[x] = 0)
    BY <2>2, <2>4
  <2> HIDE DEF t
  <2>10. SumFunctionOnSet(f, s) >= 0 /\ ((\A x \in s : f[x] = 0) => SumFunctionOnSet(f, s) = 0)
    BY <2>5, <2>7, <2>8, <2>9
  <2> QED
    BY <2>1, <2>10
<1>2. \A s \in SUBSET S : SumFunctionOnSet(f, s) >= 0 /\ ((\A x \in s : f[x] = 0) => SumFunctionOnSet(f, s) = 0)
  BY <1>1
<1>3. \A s \in SUBSET S : SumFunctionOnSet(f, s) \in Int
  <2> SUFFICES ASSUME NEW s \in SUBSET S PROVE SumFunctionOnSet(f, s) \in Int
    OBVIOUS
  <2>1. IsFiniteSet(s) /\ \A x \in s : f[x] \in Int
    BY FS_Subset
  <2> QED
    BY <2>1, SumInt
<1>4. \A x \in S : f[x] <= SumFunctionOnSet(f, S)
  <2> SUFFICES ASSUME NEW x \in S PROVE f[x] <= SumFunctionOnSet(f, S)
    OBVIOUS
  <2>1. SumFunctionOnSet(f, S) = f[x] + SumFunctionOnSet(f, S \ {x})
    BY SumSplit
  <2>2. SumFunctionOnSet(f, S \ {x}) \in Int /\ SumFunctionOnSet(f, S \ {x}) >= 0
    BY <1>2, <1>3
  <2> QED
    BY <2>1, <2>2
<1>5. SumFunctionOnSet(f, S) \in Int /\ SumFunctionOnSet(f, S) >= 0
  BY <1>2, <1>3
<1> QED
  BY <1>2, <1>4, <1>5

(* A function that takes one more value: its sum grows by that value.        *)
LEMMA SumGrows ==
    ASSUME NEW f, NEW S, IsFiniteSet(S), DOMAIN f = S, \A x \in S : f[x] \in Int,
           NEW g, NEW c, c \notin S, DOMAIN g = S \cup {c}, g[c] \in Int, \A x \in S : g[x] = f[x]
    PROVE  /\ SumFunction(f) \in Int
           /\ SumFunction(g) = SumFunction(f) + g[c]
<1>1. SumFunction(f) = SumFunctionOnSet(f, S) /\ SumFunction(g) = SumFunctionOnSet(g, S \cup {c})
  BY DEF SumFunction
<1>2. IsFiniteSet(S \cup {c}) /\ \A x \in S \cup {c} : g[x] \in Int
  BY FS_AddElement
<1>3. SumFunctionOnSet(g, S \cup {c}) = g[c] + SumFunctionOnSet(g, (S \cup {c}) \ {c})
  BY <1>2, SumSplit
<1>4. (S \cup {c}) \ {c} = S
  OBVIOUS
<1>5. SumFunctionOnSet(f, S) = SumFunctionOnSet(g, S) /\ SumFunctionOnSet(f, S) \in Int
  BY SumSame, SumInt
<1>6. SumFunction(g) = g[c] + SumFunctionOnSet(g, S)
  BY <1>1, <1>3, <1>4
<1>7. SumFunction(g) = g[c] + SumFunction(f) /\ SumFunction(f) \in Int
  BY <1>1, <1>5, <1>6
<1> QED
  BY <1>7

(* The sum over two sets without a common member is the sum of their sums.   *)
LEMMA SumDisjoint ==
    ASSUME NEW f, NEW S, NEW T, IsFiniteSet(S), IsFiniteSet(T), S \cap T = {}, \A x \in S \cup T : f[x] \in Int
    PROVE  SumFunctionOnSet(f, S \cup T) = SumFunctionOnSet(f, S) + SumFunctionOnSet(f, T)
<1> DEFINE F == {s \in SUBSET S : SumFunctionOnSet(f, s \cup T) # SumFunctionOnSet(f, s) + SumFunctionOnSet(f, T)}
<1>1. ASSUME F # {} PROVE FALSE
  <2>1. PICK s \in F : \A t \in F : t \subseteq s => t = s
    <3>1. F \subseteq SUBSET S
      OBVIOUS
    <3> HIDE DEF F
    <3> QED
      BY <1>1, <3>1, SmallestSet
  <2>2. IsFiniteSet(s) /\ IsFiniteSet(s \cup T) /\ s \subseteq S
    BY <2>1, FS_Subset, FS_Union
  <2>3. SumFunctionOnSet(f, T) \in Int
    BY SumInt
  <2>4. s # {}
    <3>1. ASSUME s = {} PROVE FALSE
      <4>1. SumFunctionOnSet(f, s) = 0
        BY <3>1, SumOfNothing
      <4>2. s \cup T = T
        BY <3>1
      <4>3. SumFunctionOnSet(f, s \cup T) = SumFunctionOnSet(f, T)
        BY <4>2
      <4> QED
        BY <2>1, <2>3, <4>1, <4>3
    <3> QED
      BY <3>1
  <2>5. PICK c : c \in s
    BY <2>4
  <2> DEFINE t == s \ {c}
  <2>6. t \subseteq S /\ IsFiniteSet(t) /\ (s \cup T) \ {c} = t \cup T
    BY <2>2, <2>5, FS_Subset
  <2>7. SumFunctionOnSet(f, s) = f[c] + SumFunctionOnSet(f, t)
    BY <2>2, <2>5, SumSplit
  <2>8. SumFunctionOnSet(f, s \cup T) = f[c] + SumFunctionOnSet(f, t \cup T)
    <3>1. \A x \in s \cup T : f[x] \in Int
      BY <2>2
    <3> DEFINE u == s \cup T
    <3>2. c \in u /\ IsFiniteSet(u) /\ u \ {c} = t \cup T
      BY <2>2, <2>5, <2>6
    <3> HIDE DEF u, t
    <3>3. SumFunctionOnSet(f, u) = f[c] + SumFunctionOnSet(f, u \ {c})
      BY <3>1, <3>2, SumSplit DEF u
    <3> QED
      BY <3>2, <3>3 DEF u
  <2>9. SumFunctionOnSet(f, t \cup T) = SumFunctionOnSet(f, t) + SumFunctionOnSet(f, T)
    <3>1. t \notin F /\ t \in SUBSET S
      BY <2>1, <2>5, <2>6
    <3> HIDE DEF t
    <3> QED
      BY <3>1
  <2>10. SumFunctionOnSet(f, t) \in Int /\ f[c] \in Int
    <3>1. \A x \in t : f[x] \in Int
      BY <2>6
    <3>2. f[c] \in Int
      BY <2>2, <2>5
    <3> HIDE DEF t
    <3> QED
      BY <2>6, <3>1, <3>2, SumInt
  <2> HIDE DEF t
  <2>11. SumFunctionOnSet(f, s \cup T) = SumFunctionOnSet(f, s) + SumFunctionOnSet(f, T)
    BY <2>3, <2>7, <2>8, <2>9, <2>10
  <2> QED
    BY <2>1, <2>11
<1>2. S \notin F
  BY <1>1
<1> QED
  BY <1>2
=============================================================================
