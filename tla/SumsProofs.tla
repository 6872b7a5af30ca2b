------------------------------- MODULE SumsProofs -------------------------------
(***************************************************************************)
(* What Sum does with a set that grows or shrinks by one element.          *)
(*                                                                         *)
(* FoldSet is a recursive function over the subsets of its set.  The       *)
(* induction is by minimal counterexample: the strict subsets of a finite  *)
(* set are well-founded (FS_StrictSubsetOrderingWellFounded, WFMin).       *)
(***************************************************************************)
EXTENDS Sums, FiniteSetTheorems, WellFoundedInduction, TLAPS

\* Of the finite sets in a collection T one has no strict subset in it.
LEMMA MinimalSet ==
  ASSUME NEW S, IsFiniteSet(S), NEW T \in SUBSET (SUBSET S), T # {}
  PROVE  \E s \in T : IsFiniteSet(s) /\ \A t \in T : t \subseteq s => t = s
  <1>1. T \subseteq FiniteSubsetsOf(S)
    BY FS_FiniteSubsetsOfFinite
  <1>2. PICK s \in T : \A t \in T : ~(<<t, s>> \in StrictSubsetOrdering(S))
    BY <1>1, WFMin, FS_StrictSubsetOrderingWellFounded
  <1>3. \A t \in T : t \subseteq s => t = s
    BY <1>2 DEF StrictSubsetOrdering
  <1>4. IsFiniteSet(s)
    BY <1>1 DEF FiniteSubsetsOf
  <1> QED
    BY <1>3, <1>4

\* The element that FoldSet takes next, and the function it computes.
Taken(s) == CHOOSE x \in s : TRUE
Rec(f, S, g) == g = [s \in SUBSET S |-> IF s = {} THEN 0 ELSE f[Taken(s)] + g[s \ {Taken(s)}]]

\* A sum is the value of such a function at S.
LEMMA SumIsRec ==
  ASSUME NEW f, NEW S
  PROVE  Sum(f, S) = (CHOOSE g : Rec(f, S, g))[S]
  BY DEF Sum, FoldSet, MapThenFoldSet, Rec, Taken

\* What is taken is in the set.
LEMMA TakenIn ==
  ASSUME NEW s, s # {}
  PROVE  Taken(s) \in s
  BY DEF Taken

\* What such a function does at a subset.
LEMMA RecAt ==
  ASSUME NEW f, NEW S, NEW g, Rec(f, S, g), NEW s \in SUBSET S
  PROVE  g[s] = IF s = {} THEN 0 ELSE f[Taken(s)] + g[s \ {Taken(s)}]
  <1> SUFFICES g = [t \in SUBSET S |-> IF t = {} THEN 0 ELSE f[Taken(t)] + g[t \ {Taken(t)}]]
               => g[s] = IF s = {} THEN 0 ELSE f[Taken(s)] + g[s \ {Taken(s)}]
    BY DEF Rec
  <1> QED
    BY Zenon

\* There is only one such function.
LEMMA RecUnique ==
  ASSUME NEW f, NEW S, NEW T, IsFiniteSet(S), NEW g, NEW h, Rec(f, S, g), Rec(f, T, h),
         NEW s \in SUBSET S, s \subseteq T
  PROVE  g[s] = h[s]
  <1> DEFINE Bad == {t \in SUBSET S : t \subseteq T /\ g[t] # h[t]}
  <1> SUFFICES ASSUME Bad # {} PROVE FALSE
    OBVIOUS
  <1>0. Bad \in SUBSET (SUBSET S)
    OBVIOUS
  <1>1. PICK t \in Bad : \A u \in Bad : u \subseteq t => u = t
    <2> HIDE DEF Bad
    <2> QED
      BY <1>0, MinimalSet
  <1>2. t \in SUBSET S /\ t \in SUBSET T
    OBVIOUS
  <1>3. CASE t = {}
    BY <1>2, <1>3, RecAt
  <1>4. CASE t # {}
    <2>1. PICK x \in t : x = Taken(t)
      BY <1>4, TakenIn
    <2>2. t \ {x} \notin Bad
      BY <1>1
    <2>3. g[t \ {x}] = h[t \ {x}]
      BY <1>2, <2>2
    <2>4. g[t] = f[Taken(t)] + g[t \ {Taken(t)}]
      BY <1>2, <1>4, RecAt
    <2>5. h[t] = f[Taken(t)] + h[t \ {Taken(t)}]
      BY <1>2, <1>4, RecAt
    <2> QED
      BY <2>1, <2>3, <2>4, <2>5
  <1> QED
    BY <1>3, <1>4

\* And there is one.
LEMMA RecExists ==
  ASSUME NEW f, NEW S, IsFiniteSet(S)
  PROVE  \E g : Rec(f, S, g)
  <1> DEFINE Bad == {t \in SUBSET S : ~\E g : Rec(f, t, g)}
  <1> SUFFICES ASSUME Bad # {} PROVE FALSE
    OBVIOUS
  <1>0. Bad \in SUBSET (SUBSET S)
    OBVIOUS
  <1>1. PICK T \in Bad : \A u \in Bad : u \subseteq T => u = T
    <2> HIDE DEF Bad
    <2> QED
      BY <1>0, MinimalSet
  <1>2. \A u \in SUBSET T : u # T => \E g : Rec(f, u, g)
    BY <1>1
  <1>3. \A u \in SUBSET T : IsFiniteSet(u)
    BY FS_Subset
  <1> DEFINE G(u) == CHOOSE g : Rec(f, u, g)
  <1>4. \A u \in SUBSET T : u # T => Rec(f, u, G(u))
    BY <1>2
  <1> DEFINE h == [t \in SUBSET T |-> IF t = {} THEN 0
                                     ELSE f[Taken(t)] + G(t \ {Taken(t)})[t \ {Taken(t)}]]
  <1>5. ASSUME NEW u \in SUBSET T, u # T PROVE h[u] = G(u)[u]
    <2>1. Rec(f, u, G(u)) /\ u \in SUBSET u
      BY <1>4, <1>5
    <2>2. G(u)[u] = IF u = {} THEN 0 ELSE f[Taken(u)] + G(u)[u \ {Taken(u)}]
      BY <2>1, RecAt
    <2>3. CASE u = {}
      BY <2>2, <2>3
    <2>4. CASE u # {}
      <3>1. PICK v \in SUBSET u : v = u \ {Taken(u)}
        OBVIOUS
      <3>2. v # T /\ v \in SUBSET T
        BY <1>5, <3>1
      <3>3. Rec(f, v, G(v)) /\ IsFiniteSet(u)
        BY <1>3, <1>4, <3>2
      <3>4. G(u)[v] = G(v)[v]
        BY <2>1, <3>3, RecUnique
      <3> QED
        BY <2>2, <2>4, <3>1, <3>4
    <2> QED
      BY <2>3, <2>4
  <1>6. ASSUME NEW t \in SUBSET T, t # {} PROVE h[t \ {Taken(t)}] = G(t \ {Taken(t)})[t \ {Taken(t)}]
    <2>1. Taken(t) \in t
      BY <1>6, TakenIn
    <2>2. t \ {Taken(t)} \in SUBSET T /\ t \ {Taken(t)} # T
      BY <2>1
    <2> QED
      BY <1>5, <2>2
  <1>7. h = [t \in SUBSET T |-> IF t = {} THEN 0 ELSE f[Taken(t)] + h[t \ {Taken(t)}]]
    <2>1. ASSUME NEW t \in SUBSET T
          PROVE  h[t] = IF t = {} THEN 0 ELSE f[Taken(t)] + h[t \ {Taken(t)}]
      <3>1. h[t] = IF t = {} THEN 0 ELSE f[Taken(t)] + G(t \ {Taken(t)})[t \ {Taken(t)}]
        OBVIOUS
      <3>2. t # {} => h[t \ {Taken(t)}] = G(t \ {Taken(t)})[t \ {Taken(t)}]
        BY <1>6
      <3> HIDE DEF h, G
      <3> QED
        BY <3>1, <3>2
    <2>2. h = [t \in SUBSET T |-> h[t]]
      OBVIOUS
    <2> HIDE DEF h
    <2> QED
      BY <2>1, <2>2
  <1>8. Rec(f, T, h)
    BY <1>7 DEF Rec
  <1> QED
    BY <1>8

-------------------------------------------------------------------------------
(* The laws of Sum.                                                        *)

\* The recursion that FoldSet follows.
LEMMA SumTaken ==
  ASSUME NEW f, NEW S, IsFiniteSet(S)
  PROVE  Sum(f, S) = IF S = {} THEN 0 ELSE f[Taken(S)] + Sum(f, S \ {Taken(S)})
  <1> DEFINE R == S \ {Taken(S)}
  <1>1. PICK g : g = (CHOOSE u : Rec(f, S, u)) /\ Rec(f, S, g)
    BY RecExists
  <1>2. IsFiniteSet(R)
    BY FS_RemoveElement
  <1>3. PICK h : h = (CHOOSE u : Rec(f, R, u)) /\ Rec(f, R, h)
    BY <1>2, RecExists
  <1>4. g[R] = h[R]
    BY <1>1, <1>3, RecUnique
  <1>5. g[S] = IF S = {} THEN 0 ELSE f[Taken(S)] + g[R]
    BY <1>1, RecAt
  <1>6. Sum(f, S) = g[S]
    BY <1>1, SumIsRec
  <1>7. Sum(f, R) = h[R]
    BY <1>3, SumIsRec
  <1> QED
    BY <1>4, <1>5, <1>6, <1>7

\* Nothing adds up to 0.
THEOREM SumEmpty == \A f : Sum(f, {}) = 0
  BY SumTaken, FS_EmptySet

\* Naturals add up to a natural.
THEOREM SumNat ==
  ASSUME NEW S, IsFiniteSet(S), NEW f, \A x \in S : f[x] \in Nat
  PROVE  Sum(f, S) \in Nat
  <1> DEFINE Bad == {s \in SUBSET S : Sum(f, s) \notin Nat}
  <1> SUFFICES ASSUME Bad # {} PROVE FALSE
    OBVIOUS
  <1>1. Bad \in SUBSET (SUBSET S)
    OBVIOUS
  <1>2. PICK s \in Bad : IsFiniteSet(s) /\ \A t \in Bad : t \subseteq s => t = s
    <2> HIDE DEF Bad
    <2> QED
      BY <1>1, MinimalSet
  <1>3. Sum(f, s) = IF s = {} THEN 0 ELSE f[Taken(s)] + Sum(f, s \ {Taken(s)})
    BY <1>2, SumTaken
  <1>4. CASE s = {}
    BY <1>3, <1>4
  <1>5. CASE s # {}
    <2>1. Taken(s) \in s
      BY <1>5, TakenIn
    <2>2. Sum(f, s \ {Taken(s)}) \in Nat /\ f[Taken(s)] \in Nat
      BY <1>2, <2>1
    <2> QED
      BY <1>3, <1>5, <2>2
  <1> QED
    BY <1>4, <1>5

\* Any element may be taken first.
THEOREM SumRemove ==
  ASSUME NEW S, IsFiniteSet(S), NEW f, \A y \in S : f[y] \in Nat, NEW x \in S
  PROVE  Sum(f, S) = f[x] + Sum(f, S \ {x})
  <1> DEFINE Bad == {s \in SUBSET S : \E y \in s : Sum(f, s) # f[y] + Sum(f, s \ {y})}
  <1> SUFFICES ASSUME Bad # {} PROVE FALSE
    OBVIOUS
  <1>1. Bad \in SUBSET (SUBSET S)
    OBVIOUS
  <1>2. PICK s \in Bad : IsFiniteSet(s) /\ \A t \in Bad : t \subseteq s => t = s
    <2> HIDE DEF Bad
    <2> QED
      BY <1>1, MinimalSet
  <1>3. PICK y \in s : Sum(f, s) # f[y] + Sum(f, s \ {y})
    OBVIOUS
  <1>4. PICK c \in s : c = Taken(s)
    BY TakenIn
  <1>5. Sum(f, s) = f[c] + Sum(f, s \ {c})
    BY <1>2, <1>4, SumTaken
  <1>6. CASE c = y
    BY <1>3, <1>5, <1>6
  <1>7. CASE c # y
    <2>0. ASSUME NEW a \in s, NEW b \in s, a # b
          PROVE  Sum(f, s \ {a}) = f[b] + Sum(f, (s \ {a}) \ {b})
      <3>1. s \ {a} \notin Bad
        BY <1>2
      <3>2. s \ {a} \in SUBSET S /\ b \in s \ {a}
        BY <2>0
      <3> QED
        BY <3>1, <3>2
    <2>1. Sum(f, s \ {c}) = f[y] + Sum(f, (s \ {c}) \ {y})
      BY <1>7, <2>0
    <2>2. Sum(f, s \ {y}) = f[c] + Sum(f, (s \ {y}) \ {c})
      BY <1>7, <2>0
    <2>3. (s \ {y}) \ {c} = (s \ {c}) \ {y}
      OBVIOUS
    <2>4. IsFiniteSet((s \ {c}) \ {y})
      BY <1>2, FS_RemoveElement
    <2>5. Sum(f, (s \ {c}) \ {y}) \in Nat
      BY <2>4, SumNat
    <2>6. f[y] \in Nat /\ f[c] \in Nat
      OBVIOUS
    <2> QED
      BY <1>3, <1>5, <2>1, <2>2, <2>3, <2>5, <2>6
  <1> QED
    BY <1>6, <1>7

\* A new element adds its value.
THEOREM SumAdd ==
  ASSUME NEW S, IsFiniteSet(S), NEW f, \A y \in S : f[y] \in Nat,
         NEW x, x \notin S, f[x] \in Nat
  PROVE  Sum(f, S \cup {x}) = f[x] + Sum(f, S)
  <1>1. IsFiniteSet(S \cup {x}) /\ (S \cup {x}) \ {x} = S
    BY FS_AddElement
  <1>2. \A y \in S \cup {x} : f[y] \in Nat
    OBVIOUS
  <1> QED
    BY <1>1, <1>2, SumRemove

\* Only the values on the set count.
THEOREM SumSame ==
  ASSUME NEW S, IsFiniteSet(S), NEW f, NEW g, \A x \in S : f[x] = g[x]
  PROVE  Sum(f, S) = Sum(g, S)
  <1> DEFINE Bad == {s \in SUBSET S : Sum(f, s) # Sum(g, s)}
  <1> SUFFICES ASSUME Bad # {} PROVE FALSE
    OBVIOUS
  <1>1. Bad \in SUBSET (SUBSET S)
    OBVIOUS
  <1>2. PICK s \in Bad : IsFiniteSet(s) /\ \A t \in Bad : t \subseteq s => t = s
    <2> HIDE DEF Bad
    <2> QED
      BY <1>1, MinimalSet
  <1>3. /\ Sum(f, s) = IF s = {} THEN 0 ELSE f[Taken(s)] + Sum(f, s \ {Taken(s)})
        /\ Sum(g, s) = IF s = {} THEN 0 ELSE g[Taken(s)] + Sum(g, s \ {Taken(s)})
    BY <1>2, SumTaken
  <1>4. CASE s = {}
    BY <1>3, <1>4
  <1>5. CASE s # {}
    <2>1. Taken(s) \in s
      BY <1>5, TakenIn
    <2>2. Sum(f, s \ {Taken(s)}) = Sum(g, s \ {Taken(s)}) /\ f[Taken(s)] = g[Taken(s)]
      BY <1>2, <2>1
    <2> QED
      BY <1>3, <1>5, <2>2
  <1> QED
    BY <1>4, <1>5

\* A subset adds up to no more.
THEOREM SumSubset ==
  ASSUME NEW S, IsFiniteSet(S), NEW f, \A x \in S : f[x] \in Nat, NEW R \in SUBSET S
  PROVE  Sum(f, R) <= Sum(f, S)
  <1> DEFINE Bad == {s \in SUBSET S : ~(R \cap s = R => Sum(f, R) <= Sum(f, s))}
  <1> SUFFICES ASSUME Bad # {} PROVE FALSE
    OBVIOUS
  <1>1. Bad \in SUBSET (SUBSET S)
    OBVIOUS
  <1>2. PICK s \in Bad : IsFiniteSet(s) /\ \A t \in Bad : t \subseteq s => t = s
    <2> HIDE DEF Bad
    <2> QED
      BY <1>1, MinimalSet
  <1>3. R \subseteq s /\ ~(Sum(f, R) <= Sum(f, s))
    OBVIOUS
  <1>4. Sum(f, s) \in Nat /\ Sum(f, R) \in Nat
    <2>1. IsFiniteSet(R)
      BY FS_Subset
    <2> QED
      BY <1>2, <2>1, SumNat
  <1>5. PICK x \in s : x \notin R
    BY <1>3, <1>4
  <1>6. Sum(f, s) = f[x] + Sum(f, s \ {x})
    BY <1>2, SumRemove
  <1>7. Sum(f, R) <= Sum(f, s \ {x})
    BY <1>2, <1>3, <1>5
  <1>8. IsFiniteSet(s \ {x})
    BY <1>2, FS_RemoveElement
  <1>9. Sum(f, s \ {x}) \in Nat /\ f[x] \in Nat
    BY <1>8, SumNat
  <1> QED
    BY <1>3, <1>4, <1>6, <1>7, <1>9

\* What is left after R is the difference.
THEOREM SumSplit ==
  ASSUME NEW S, IsFiniteSet(S), NEW f, \A x \in S : f[x] \in Nat, NEW R \in SUBSET S
  PROVE  Sum(f, S) = Sum(f, R) + Sum(f, S \ R)
  <1> DEFINE Bad == {s \in SUBSET S : Sum(f, S) # Sum(f, s) + Sum(f, S \ s)}
  <1> SUFFICES ASSUME Bad # {} PROVE FALSE
    OBVIOUS
  <1>1. Bad \in SUBSET (SUBSET S)
    OBVIOUS
  <1>2. PICK s \in Bad : IsFiniteSet(s) /\ \A t \in Bad : t \subseteq s => t = s
    <2> HIDE DEF Bad
    <2> QED
      BY <1>1, MinimalSet
  <1>3. \A t \in SUBSET S : IsFiniteSet(t) /\ Sum(f, t) \in Nat
    <2>1. ASSUME NEW t \in SUBSET S PROVE IsFiniteSet(t) /\ \A x \in t : f[x] \in Nat
      BY <2>1, FS_Subset
    <2> QED
      BY <2>1, SumNat
  <1>4. CASE s = {}
    <2>1. PICK v : v = S \ s
      OBVIOUS
    <2>2. Sum(f, S) # Sum(f, s) + Sum(f, v)
      BY <1>2, <2>1
    <2>3. Sum(f, s) = 0 /\ v = S
      BY <1>4, <2>1, SumEmpty
    <2>4. Sum(f, S) \in Nat
      BY <1>3
    <2> QED
      BY <2>2, <2>3, <2>4
  <1>5. CASE s # {}
    <2>1. PICK x \in s : TRUE
      BY <1>5
    <2>2. PICK u, v : u = s \ {x} /\ v = S \ s
      OBVIOUS
    <2>3. S \ u = v \cup {x} /\ u \subseteq s /\ u # s /\ s \subseteq S /\ x \notin v
      BY <1>2, <2>1, <2>2
    <2>4. Sum(f, S) = Sum(f, u) + Sum(f, v \cup {x})
      <3>1. u \notin Bad /\ u \in SUBSET S
        BY <1>2, <2>3
      <3> QED
        BY <2>3, <3>1
    <2>5. Sum(f, s) = f[x] + Sum(f, u)
      <3>1. IsFiniteSet(s) /\ \A y \in s : f[y] \in Nat
        BY <1>2, <2>3
      <3> QED
        BY <2>2, <3>1, SumRemove
    <2>6. Sum(f, v \cup {x}) = f[x] + Sum(f, v)
      <3>1. IsFiniteSet(v) /\ (\A y \in v : f[y] \in Nat) /\ f[x] \in Nat
        BY <1>3, <2>2, <2>3
      <3> QED
        BY <2>3, <3>1, SumAdd
    <2>7. Sum(f, u) \in Nat /\ Sum(f, v) \in Nat /\ f[x] \in Nat
      BY <1>3, <2>2, <2>3
    <2>8. Sum(f, S) # Sum(f, s) + Sum(f, v)
      BY <1>2, <2>2
    <2> QED
      BY <2>4, <2>5, <2>6, <2>7, <2>8
  <1> QED
    BY <1>4, <1>5
===============================================================================
