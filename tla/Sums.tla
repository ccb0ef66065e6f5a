-------------------------------- MODULE Sums --------------------------------
(***************************************************************************)
(* Totals of a function over a finite set, as the folds of the community   *)
(* modules compute them: what an empty set, another member, another value  *)
(* and a part of the set make of a total, whichever members the fold       *)
(* happens to choose first.                                                *)
(*                                                                         *)
(* The fold recurs on the set; what it computes is shown for every finite  *)
(* set by looking at a smallest one for which it would be wrong.  That     *)
(* there is one (SmallestSet, and Smallest for numbers) serves elsewhere   *)
(* in the place of induction.                                              *)
(***************************************************************************)
EXTENDS Integers, FiniteSets, Functions, FiniteSetTheorems, TLAPS

SumOver(f, S) == FoldFunctionOnSet(LAMBDA x, y : x + y, 0, f, S)

AnyOf(s) == CHOOSE x \in s : TRUE

\* it is the function that the fold of f over S recurs on.
Body(it, f, s) == IF s = {} THEN 0 ELSE f[AnyOf(s)] + it[s \ {AnyOf(s)}]
Iterates(it, f, S) == it = [s \in SUBSET S |-> Body(it, f, s)]

LEMMA SumIsIterate ==
    ASSUME NEW f, NEW S
    PROVE  SumOver(f, S) = (CHOOSE it : Iterates(it, f, S))[S]
  BY DEF SumOver, FoldFunctionOnSet, MapThenFoldSet, Iterates, Body, AnyOf

LessThan == {p \in Nat \X Nat : p[1] < p[2]}

\* A set of naturals has a smallest one.
LEMMA Smallest ==
    ASSUME NEW O \in SUBSET Nat, O # {}
    PROVE  \E m \in O : \A x \in O : m <= x
<1>1. IsWellFoundedOn(LessThan, Nat)
  BY NatLessThanWellFounded DEF OpToRel, LessThan
<1>2. PICK m \in O : \A x \in O : ~(<<x, m>> \in LessThan)
  BY <1>1, WFMin, Zenon
<1>3. ASSUME NEW x \in O PROVE m <= x
  <2>1. x \in Nat /\ m \in Nat
    BY <1>2
  <2>2. x < m => <<x, m>> \in LessThan
    BY <2>1 DEF LessThan
  <2>. QED  BY <1>2, <2>1, <2>2
<1>. QED  BY <1>2, <1>3

\* A set of subsets of a finite set has a smallest one.
LEMMA SmallestSet ==
    ASSUME NEW S, IsFiniteSet(S), NEW B \in SUBSET (SUBSET S), B # {}
    PROVE  \E m \in B : \A T \in B : T \subseteq m => T = m
<1> DEFINE R == StrictSubsetOrdering(S)
           F == FiniteSubsetsOf(S)
<1>1. IsWellFoundedOn(R, F)
  BY FS_StrictSubsetOrderingWellFounded
<1>2. F = SUBSET S
  BY FS_FiniteSubsetsOfFinite
<1>3. B \subseteq F
  BY <1>2
<1>4. \A T, m \in B : T \subseteq m /\ T # m => <<T, m>> \in R
  BY DEF StrictSubsetOrdering
<1>. HIDE DEF R, F
<1>5. PICK m \in B : \A T \in B : ~(<<T, m>> \in R)
  BY <1>1, <1>3, WFMin, Zenon
<1>. QED  BY <1>4, <1>5

\* What it is on a set, by what it is on the set without one of its members.
LEMMA Iterated ==
    ASSUME NEW f, NEW S, NEW it, Iterates(it, f, S), NEW s \in SUBSET S
    PROVE  it[s] = Body(it, f, s)
  BY DEF Iterates

LEMMA AnyMember ==
    ASSUME NEW s, s # {}
    PROVE  AnyOf(s) \in s /\ s \ {AnyOf(s)} \subseteq s /\ s \ {AnyOf(s)} # s
<1>1. AnyOf(s) \in s
  BY DEF AnyOf
<1>. HIDE DEF AnyOf
<1>. QED  BY <1>1

\* What it is on a set does not depend on the set it is over.
LEMMA IteratesAgree ==
    ASSUME NEW f, NEW S, NEW T, NEW a, NEW b, Iterates(a, f, S), Iterates(b, f, T),
           NEW U, IsFiniteSet(U), U \subseteq S, U \subseteq T
    PROVE  a[U] = b[U]
<1> DEFINE B == {V \in SUBSET U : a[V] # b[V]}
<1>. SUFFICES ASSUME B # {} PROVE FALSE
  OBVIOUS
<1>1. B \in SUBSET (SUBSET U)
  OBVIOUS
<1>2. PICK m \in B : \A V \in B : V \subseteq m => V = m
  <2>. HIDE DEF B
  <2>. QED  BY <1>1, SmallestSet
<1>3. m \in SUBSET U /\ m \in SUBSET S /\ m \in SUBSET T /\ a[m] # b[m]
  OBVIOUS
<1>4. a[m] = Body(a, f, m) /\ b[m] = Body(b, f, m)
  BY <1>3, Iterated
<1>5. m # {}
  BY <1>3, <1>4 DEF Body
<1>6. m \ {AnyOf(m)} \in SUBSET U /\ m \ {AnyOf(m)} \notin B
  BY <1>2, <1>3, <1>5, AnyMember
<1>7. a[m \ {AnyOf(m)}] = b[m \ {AnyOf(m)}]
  BY <1>6
<1>. QED  BY <1>3, <1>4, <1>5, <1>7 DEF Body

LEMMA IteratesExists ==
    ASSUME NEW f, NEW S, IsFiniteSet(S)
    PROVE  \E it : Iterates(it, f, S)
<1> DEFINE B == {T \in SUBSET S : ~ \E it : Iterates(it, f, T)}
           A(T) == CHOOSE it : Iterates(it, f, T)
<1>. SUFFICES ASSUME B # {} PROVE FALSE
  OBVIOUS
<1>1. B \in SUBSET (SUBSET S)
  OBVIOUS
<1>2. PICK m \in B : \A V \in B : V \subseteq m => V = m
  <2>. HIDE DEF B
  <2>. QED  BY <1>1, SmallestSet
<1>3. m \in SUBSET S /\ ~ \E it : Iterates(it, f, m)
  OBVIOUS
<1>4. ASSUME NEW T \in SUBSET m, T # m PROVE Iterates(A(T), f, T) /\ IsFiniteSet(T)
  <2>1. T \in SUBSET S /\ T \notin B
    BY <1>2, <1>3, <1>4
  <2>2. \E it : Iterates(it, f, T)
    BY <2>1
  <2>3. IsFiniteSet(T)
    BY <2>1, FS_Subset
  <2>. QED  BY <2>2, <2>3
<1>. HIDE DEF A, B
<1> DEFINE below == m \ {AnyOf(m)}
           it == [s \in SUBSET m |->
                    IF s # m THEN A(s)[s] ELSE IF m = {} THEN 0 ELSE f[AnyOf(m)] + A(below)[below]]
<1>5. ASSUME NEW s \in SUBSET m PROVE it[s] = Body(it, f, s)
  <2>1. CASE s = m /\ m = {}
    BY <2>1 DEF Body
  <2>2. CASE s = m /\ m # {}
    <3>1. below \in SUBSET m /\ below # m
      BY <2>2, AnyMember
    <3>2. it[below] = A(below)[below]
      BY <3>1
    <3>. QED  BY <2>2, <3>2 DEF Body
  <2>3. CASE s # m /\ s = {}
    <3>1. Iterates(A(s), f, s) /\ s \in SUBSET s
      BY <2>3, <1>4
    <3>2. A(s)[s] = Body(A(s), f, s)
      BY <3>1, Iterated
    <3>. QED  BY <2>3, <3>2 DEF Body
  <2>4. CASE s # m /\ s # {}
    <3> DEFINE t == s \ {AnyOf(s)}
    <3>1. t \in SUBSET m /\ t # m /\ t \subseteq s /\ s \in SUBSET s
      BY <2>4, AnyMember
    <3>2. Iterates(A(s), f, s) /\ Iterates(A(t), f, t) /\ IsFiniteSet(t)
      BY <2>4, <3>1, <1>4
    <3>3. A(s)[t] = A(t)[t]
      BY <3>1, <3>2, IteratesAgree
    <3>4. A(s)[s] = Body(A(s), f, s)
      BY <3>1, <3>2, Iterated
    <3>5. it[t] = A(t)[t] /\ it[s] = A(s)[s]
      BY <2>4, <3>1
    <3>. QED  BY <2>4, <3>3, <3>4, <3>5 DEF Body
  <2>. QED  BY <2>1, <2>2, <2>3, <2>4
<1>6. it = [s \in SUBSET m |-> it[s]]
  OBVIOUS
<1>. HIDE DEF it
<1>7. Iterates(it, f, m)
  BY <1>5, <1>6 DEF Iterates
<1>. QED  BY <1>3, <1>7

-----------------------------------------------------------------------------
(* Sums. *)

LEMMA SumEmpty == ASSUME NEW f PROVE SumOver(f, {}) = 0
<1> DEFINE it == CHOOSE it : Iterates(it, f, {})
<1>1. IsFiniteSet({})
  BY FS_EmptySet
<1>2. Iterates(it, f, {})
  BY <1>1, IteratesExists
<1>. HIDE DEF it
<1>3. {} \in SUBSET {}
  OBVIOUS
<1>4. it[{}] = Body(it, f, {})
  BY <1>2, <1>3, Iterated
<1>5. SumOver(f, {}) = it[{}]
  BY SumIsIterate DEF it
<1>. QED  BY <1>4, <1>5 DEF Body

LEMMA SumStep ==
    ASSUME NEW f, NEW S, IsFiniteSet(S), S # {}
    PROVE  SumOver(f, S) = f[AnyOf(S)] + SumOver(f, S \ {AnyOf(S)})
<1> DEFINE T == S \ {AnyOf(S)}
           a == CHOOSE it : Iterates(it, f, S)
           b == CHOOSE it : Iterates(it, f, T)
<1>1. T \subseteq S /\ IsFiniteSet(T) /\ S \in SUBSET S
  BY AnyMember, FS_Subset
<1>2. Iterates(a, f, S) /\ Iterates(b, f, T)
  BY <1>1, IteratesExists
<1>3. SumOver(f, S) = a[S] /\ SumOver(f, T) = b[T]
  BY SumIsIterate
<1>. HIDE DEF a, b
<1>4. a[S] = Body(a, f, S)
  BY <1>1, <1>2, Iterated
<1>5. a[T] = b[T]
  <2>. HIDE DEF T
  <2>. QED  BY <1>1, <1>2, IteratesAgree
<1>. QED  BY <1>3, <1>4, <1>5 DEF Body

LEMMA SumNat ==
    ASSUME NEW f, NEW S, IsFiniteSet(S), \A x \in S : f[x] \in Nat
    PROVE  SumOver(f, S) \in Nat
<1> DEFINE B == {T \in SUBSET S : SumOver(f, T) \notin Nat}
<1>. SUFFICES ASSUME B # {} PROVE FALSE
  OBVIOUS
<1>1. B \in SUBSET (SUBSET S)
  OBVIOUS
<1>2. PICK m \in B : \A V \in B : V \subseteq m => V = m
  <2>. HIDE DEF B
  <2>. QED  BY <1>1, SmallestSet
<1>3. m \in SUBSET S /\ SumOver(f, m) \notin Nat /\ IsFiniteSet(m)
  BY FS_Subset
<1>4. m # {}
  BY <1>3, SumEmpty
<1>5. /\ AnyOf(m) \in S /\ m \ {AnyOf(m)} \in SUBSET S
      /\ m \ {AnyOf(m)} \notin B
  BY <1>2, <1>3, <1>4, AnyMember
<1>6. SumOver(f, m \ {AnyOf(m)}) \in Nat
  BY <1>5
<1>7. SumOver(f, m) = f[AnyOf(m)] + SumOver(f, m \ {AnyOf(m)})
  BY <1>3, <1>4, SumStep
<1>. QED  BY <1>3, <1>5, <1>6, <1>7

\* Any member may be taken out first.
LEMMA SumAny ==
    ASSUME NEW f, NEW S, IsFiniteSet(S), \A x \in S : f[x] \in Nat, NEW x \in S
    PROVE  SumOver(f, S) = f[x] + SumOver(f, S \ {x})
<1> DEFINE Holds(T) == \A e \in T : SumOver(f, T) = f[e] + SumOver(f, T \ {e})
           B == {T \in SUBSET S : ~Holds(T)}
<1>. SUFFICES ASSUME B # {} PROVE FALSE
  OBVIOUS
<1>1. B \in SUBSET (SUBSET S)
  OBVIOUS
<1>2. PICK m \in B : \A V \in B : V \subseteq m => V = m
  <2>. HIDE DEF B
  <2>. QED  BY <1>1, SmallestSet
<1>3. m \in SUBSET S /\ ~Holds(m) /\ IsFiniteSet(m)
  BY FS_Subset
<1>4. PICK e \in m : SumOver(f, m) # f[e] + SumOver(f, m \ {e})
  BY <1>3
<1>5. ASSUME NEW T \in SUBSET m, T # m PROVE Holds(T)
  BY <1>2, <1>3, <1>5
<1>. HIDE DEF B
<1> DEFINE a == AnyOf(m)
<1>6. a \in m /\ SumOver(f, m) = f[a] + SumOver(f, m \ {a})
  BY <1>3, <1>4, AnyMember, SumStep
<1>. HIDE DEF a
<1>7. a # e
  BY <1>4, <1>6
<1>8. SumOver(f, m \ {a}) = f[e] + SumOver(f, (m \ {a}) \ {e})
  <2>1. m \ {a} \in SUBSET m /\ m \ {a} # m /\ e \in m \ {a}
    BY <1>6, <1>7
  <2>. QED  BY <2>1, <1>5
<1>9. SumOver(f, m \ {e}) = f[a] + SumOver(f, (m \ {e}) \ {a})
  <2>1. m \ {e} \in SUBSET m /\ m \ {e} # m /\ a \in m \ {e}
    BY <1>6, <1>7
  <2>. QED  BY <2>1, <1>5
<1>10. (m \ {a}) \ {e} = (m \ {e}) \ {a}
  OBVIOUS
<1>11. f[a] \in Nat /\ f[e] \in Nat /\ SumOver(f, (m \ {e}) \ {a}) \in Nat
  <2>1. (m \ {e}) \ {a} \in SUBSET S
    BY <1>3
  <2>2. IsFiniteSet((m \ {e}) \ {a})
    BY <2>1, FS_Subset
  <2>3. \A y \in (m \ {e}) \ {a} : f[y] \in Nat
    BY <2>1
  <2>4. SumOver(f, (m \ {e}) \ {a}) \in Nat
    BY <2>2, <2>3, SumNat
  <2>. QED  BY <1>3, <1>4, <1>6, <2>4
<1>. QED  BY <1>4, <1>6, <1>8, <1>9, <1>10, <1>11

\* The sum looks at f on S only.
LEMMA SumSame ==
    ASSUME NEW f, NEW g, NEW S, IsFiniteSet(S), \A x \in S : f[x] = g[x]
    PROVE  SumOver(f, S) = SumOver(g, S)
<1> DEFINE B == {T \in SUBSET S : SumOver(f, T) # SumOver(g, T)}
<1>. SUFFICES ASSUME B # {} PROVE FALSE
  OBVIOUS
<1>1. B \in SUBSET (SUBSET S)
  OBVIOUS
<1>2. PICK m \in B : \A V \in B : V \subseteq m => V = m
  <2>. HIDE DEF B
  <2>. QED  BY <1>1, SmallestSet
<1>3. m \in SUBSET S /\ SumOver(f, m) # SumOver(g, m) /\ IsFiniteSet(m)
  BY FS_Subset
<1>4. m # {}
  BY <1>3, SumEmpty
<1>5. AnyOf(m) \in S /\ m \ {AnyOf(m)} \in SUBSET S /\ m \ {AnyOf(m)} \notin B
  BY <1>2, <1>3, <1>4, AnyMember
<1>6. SumOver(f, m \ {AnyOf(m)}) = SumOver(g, m \ {AnyOf(m)}) /\ f[AnyOf(m)] = g[AnyOf(m)]
  BY <1>5
<1>7. /\ SumOver(f, m) = f[AnyOf(m)] + SumOver(f, m \ {AnyOf(m)})
      /\ SumOver(g, m) = g[AnyOf(m)] + SumOver(g, m \ {AnyOf(m)})
  BY <1>3, <1>4, SumStep
<1>. QED  BY <1>3, <1>6, <1>7

LEMMA SumPart ==
    ASSUME NEW f, NEW S, IsFiniteSet(S), \A x \in S : f[x] \in Nat, NEW T \in SUBSET S
    PROVE  /\ SumOver(f, T) \in Nat /\ SumOver(f, S) \in Nat
           /\ SumOver(f, T) <= SumOver(f, S)
<1>0. ASSUME NEW U \in SUBSET S PROVE IsFiniteSet(U) /\ SumOver(f, U) \in Nat
  <2>1. IsFiniteSet(U) /\ \A x \in U : f[x] \in Nat
    BY FS_Subset
  <2>. QED  BY <2>1, SumNat
<1> DEFINE B == {U \in SUBSET S : T \subseteq U /\ ~(SumOver(f, T) <= SumOver(f, U))}
<1>. SUFFICES ASSUME B # {} PROVE FALSE
  BY <1>0
<1>1. B \in SUBSET (SUBSET S)
  OBVIOUS
<1>2. PICK m \in B : \A V \in B : V \subseteq m => V = m
  <2>. HIDE DEF B
  <2>. QED  BY <1>1, SmallestSet
<1>3. m \in SUBSET S /\ T \subseteq m /\ ~(SumOver(f, T) <= SumOver(f, m))
  OBVIOUS
<1>4. m # T
  BY <1>0, <1>3
<1>5. PICK x \in m : x \notin T
  BY <1>3, <1>4
<1>6. m \ {x} \in SUBSET S /\ T \subseteq m \ {x} /\ m \ {x} \notin B
  BY <1>2, <1>3, <1>5
<1>7. SumOver(f, T) <= SumOver(f, m \ {x})
  BY <1>6
<1>8. SumOver(f, m) = f[x] + SumOver(f, m \ {x}) /\ f[x] \in Nat
  <2>1. IsFiniteSet(m) /\ \A y \in m : f[y] \in Nat
    BY <1>0, <1>3
  <2>. QED  BY <2>1, <1>5, SumAny
<1>9. SumOver(f, m \ {x}) \in Nat /\ SumOver(f, T) \in Nat
  BY <1>0, <1>6
<1>. QED  BY <1>3, <1>7, <1>8, <1>9

LEMMA SumAdd ==
    ASSUME NEW f, NEW S, IsFiniteSet(S), NEW x, x \notin S,
           \A y \in S \cup {x} : f[y] \in Nat
    PROVE  SumOver(f, S \cup {x}) = f[x] + SumOver(f, S)
<1>1. IsFiniteSet(S \cup {x}) /\ x \in S \cup {x} /\ (S \cup {x}) \ {x} = S
  BY FS_AddElement
<1>. QED  BY <1>1, SumAny

\* f changes at one place.
LEMMA SumChange ==
    ASSUME NEW f, NEW g, NEW S, IsFiniteSet(S), NEW c \in S,
           \A x \in S : f[x] \in Nat /\ g[x] \in Nat, \A x \in S \ {c} : f[x] = g[x]
    PROVE  SumOver(g, S) = SumOver(f, S) - f[c] + g[c]
<1>1. SumOver(f, S) = f[c] + SumOver(f, S \ {c}) /\ SumOver(g, S) = g[c] + SumOver(g, S \ {c})
  BY SumAny
<1>2. IsFiniteSet(S \ {c}) /\ \A x \in S \ {c} : f[x] \in Nat
  BY FS_RemoveElement
<1>3. SumOver(f, S \ {c}) = SumOver(g, S \ {c}) /\ SumOver(f, S \ {c}) \in Nat
  BY <1>2, SumSame, SumNat
<1>. QED  BY <1>1, <1>3
=============================================================================
