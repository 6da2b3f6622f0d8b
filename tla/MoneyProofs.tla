---------------------------- MODULE MoneyProofs ----------------------------
(***************************************************************************)
(* Facts about the arithmetic of Money, for any finite table of whole      *)
(* numbers: what its total is and how it changes, and that splits and      *)
(* recession cuts neither mint nor lose a nuggy.                           *)
(*                                                                         *)
(* Induction over a finite set is lemma Induct: instead of a predicate it  *)
(* is about the set of the subsets that have it, so that it needs no       *)
(* operator as a parameter.                                                *)
(***************************************************************************)
EXTENDS Money, FiniteSetTheorems, WellFoundedInduction, TLAPS

\* A set of subsets of a finite set has one that includes no other.
LEMMA SmallestSet ==
    ASSUME NEW S, IsFiniteSet(S), NEW F, F \subseteq SUBSET S, F # {}
    PROVE  \E A \in F : \A B \in F : B \subseteq A => B = A
<1> DEFINE R == StrictSubsetOrdering(S)
<1>1. FiniteSubsetsOf(S) = SUBSET S
  BY FS_FiniteSubsetsOfFinite
<1>2. IsWellFoundedOn(R, SUBSET S)
  BY <1>1, FS_StrictSubsetOrderingWellFounded
<1> HIDE DEF R
<1>3. PICK A \in F : \A B \in F : <<B, A>> \notin R
  BY <1>2, WFMin
<1>4. \A B \in F : B \subseteq A => B = A
  BY <1>3 DEF R, StrictSubsetOrdering
<1> QED
  BY <1>4

\* What holds of the empty set, and of A with x if it holds of A, holds of S.
LEMMA Induct ==
    ASSUME NEW S, IsFiniteSet(S), NEW G, {} \in G,
           \A A \in SUBSET S : \A x \in S \ A : A \in G => A \cup {x} \in G
    PROVE  S \in G
<1> SUFFICES ASSUME S \notin G PROVE FALSE
  OBVIOUS
<1> DEFINE F == {A \in SUBSET S : A \notin G}
<1>1. F # {} /\ F \subseteq SUBSET S
  OBVIOUS
<1>2. PICK A \in F : \A B \in F : B \subseteq A => B = A
  <2> HIDE DEF F
  <2> QED
    BY <1>1, SmallestSet
<1>3. PICK x : x \in A
  BY <1>2
<1>4. A \ {x} \in G
  BY <1>2, <1>3
<1>5. (A \ {x}) \cup {x} = A
  BY <1>3
<1> QED
  BY <1>2, <1>3, <1>4, <1>5

----------------------------------------------------------------------------
\* The recursion behind SumOver is well-founded.

Some(s) == CHOOSE x \in s : TRUE

\* t is the table of the sums of f over all subsets of S.
Sums(f, t, S) ==
    t = [s \in SUBSET S |-> IF s = {} THEN 0 ELSE f[Some(s)] + t[s \ {Some(s)}]]

\* What is picked is an element.
LEMMA SomeIn == \A s : s # {} => Some(s) \in s
BY DEF Some

\* Two tables of sums agree on the sets that are in both.
LEMMA SumsAgree ==
    ASSUME NEW f, NEW S, NEW T, NEW t, NEW u, Sums(f, t, S), Sums(f, u, T),
           NEW A, A \subseteq S, A \subseteq T, IsFiniteSet(A)
    PROVE  t[A] = u[A]
<1> DEFINE F == {B \in SUBSET A : t[B] # u[B]}
<1> SUFFICES ASSUME F # {} PROVE FALSE
  OBVIOUS
<1>1. PICK B \in F : \A C \in F : C \subseteq B => C = B
  <2>1. F \subseteq SUBSET A
    OBVIOUS
  <2> HIDE DEF F
  <2> QED
    BY <2>1, SmallestSet
<1>2. /\ t[B] = IF B = {} THEN 0 ELSE f[Some(B)] + t[B \ {Some(B)}]
      /\ u[B] = IF B = {} THEN 0 ELSE f[Some(B)] + u[B \ {Some(B)}]
  <2>1. B \in SUBSET S /\ B \in SUBSET T
    OBVIOUS
  <2>2. t = [s \in SUBSET S |-> IF s = {} THEN 0 ELSE f[Some(s)] + t[s \ {Some(s)}]]
    BY DEF Sums
  <2>3. u = [s \in SUBSET T |-> IF s = {} THEN 0 ELSE f[Some(s)] + u[s \ {Some(s)}]]
    BY DEF Sums
  <2> QED
    BY <2>1, <2>2, <2>3, Zenon
<1>3. CASE B = {}
  BY <1>1, <1>2, <1>3
<1>4. CASE B # {}
  BY <1>1, <1>2, <1>4, SomeIn
<1> QED
  BY <1>3, <1>4

\* There is a table of sums for every finite set.
LEMMA SumsExist ==
    ASSUME NEW f, NEW S, IsFiniteSet(S)
    PROVE  \E t : Sums(f, t, S)
<1> DEFINE F == {A \in SUBSET S : ~ \E t : Sums(f, t, A)}
<1> SUFFICES ASSUME F # {} PROVE FALSE
  OBVIOUS
<1>1. PICK A \in F : \A B \in F : B \subseteq A => B = A
  <2>1. F \subseteq SUBSET S
    OBVIOUS
  <2> HIDE DEF F
  <2> QED
    BY <2>1, SmallestSet
<1> DEFINE sub(s) == s \ {Some(s)}
           tab(s) == CHOOSE t : Sums(f, t, s)
           all == [s \in SUBSET A |-> IF s = {} THEN 0 ELSE f[Some(s)] + tab(sub(s))[sub(s)]]
<1>2. ASSUME NEW s \in SUBSET A, s # {}
      PROVE  sub(s) \in SUBSET A /\ Sums(f, tab(sub(s)), sub(s))
  <2>1. sub(s) \in SUBSET A /\ sub(s) # A
    BY <1>2, SomeIn
  <2>2. \E t : Sums(f, t, sub(s))
    BY <1>1, <2>1
  <2> QED
    BY <2>1, <2>2
<1>3. ASSUME NEW s \in SUBSET A, s # {}
      PROVE  all[sub(s)] = tab(sub(s))[sub(s)]
  <2> DEFINE b == sub(s)
  <2>0. b \in SUBSET A /\ Sums(f, tab(b), b)
    BY <1>2, <1>3
  <2>1. all[b] = IF b = {} THEN 0 ELSE f[Some(b)] + tab(sub(b))[sub(b)]
    BY <2>0
  <2>2. tab(b)[b] = IF b = {} THEN 0 ELSE f[Some(b)] + tab(b)[sub(b)]
    <3>1. tab(b) = [r \in SUBSET b |-> IF r = {} THEN 0
                                       ELSE f[Some(r)] + tab(b)[r \ {Some(r)}]]
      BY <2>0, Zenon DEF Sums
    <3> HIDE DEF tab
    <3>2. b \in SUBSET b
      OBVIOUS
    <3> QED
      BY <3>1, <3>2, Zenon
  <2>3. CASE b = {}
    BY <2>1, <2>2, <2>3, Zenon
  <2>4. CASE b # {}
    <3>1. Sums(f, tab(sub(b)), sub(b))
      BY <1>2, <2>0, <2>4
    <3>2. IsFiniteSet(sub(b)) /\ sub(b) \subseteq b
      BY <2>0, FS_Subset
    <3>3. tab(sub(b))[sub(b)] = tab(b)[sub(b)]
      BY <2>0, <3>1, <3>2, SumsAgree
    <3> QED
      BY <2>1, <2>2, <2>4, <3>3, Zenon
  <2> QED
    BY <2>3, <2>4
<1>4. Sums(f, all, A)
  <2>1. all = [s \in SUBSET A |-> all[s]]
    OBVIOUS
  <2>2. \A s \in SUBSET A :
            all[s] = IF s = {} THEN 0 ELSE f[Some(s)] + tab(sub(s))[sub(s)]
    <3> HIDE DEF tab
    <3> QED
      OBVIOUS
  <2>3. \A s \in SUBSET A :
            all[s] = IF s = {} THEN 0 ELSE f[Some(s)] + all[s \ {Some(s)}]
    <3> HIDE DEF all, tab
    <3> QED
      BY <1>3, <2>2
  <2> HIDE DEF all
  <2> QED
    BY <2>1, <2>3 DEF Sums
<1> QED
  BY <1>1, <1>4

\* The recursion equation of SumOver.
LEMMA SumIs ==
    ASSUME NEW f, NEW S, IsFiniteSet(S)
    PROVE  \E t : Sums(f, t, S) /\ SumOver(f, S) = t[S]
<1> DEFINE t == CHOOSE u : Sums(f, u, S)
<1>1. Sums(f, t, S)
  BY SumsExist
<1>2. SumOver(f, S) = t[S]
  BY DEF SumOver, MapThenSumSet, MapThenFoldSet, Sums, Some
<1> QED
  BY <1>1, <1>2

----------------------------------------------------------------------------
\* One element more or less.

\* The empty sum.
LEMMA SumEmpty == \A f : SumOver(f, {}) = 0
<1> SUFFICES ASSUME NEW f PROVE SumOver(f, {}) = 0
  OBVIOUS
<1>1. PICK t : Sums(f, t, {}) /\ SumOver(f, {}) = t[{}]
  BY FS_EmptySet, SumIs
<1> QED
  BY <1>1 DEF Sums

\* A sum is the picked summand and the rest; any other works too (SumMore).
LEMMA SumSome ==
    ASSUME NEW f, NEW S, IsFiniteSet(S), S # {}
    PROVE  SumOver(f, S) = f[Some(S)] + SumOver(f, S \ {Some(S)})
<1> DEFINE R == S \ {Some(S)}
<1>1. R \subseteq S /\ R # S /\ IsFiniteSet(R)
  BY SomeIn, FS_Subset
<1>2. PICK t : Sums(f, t, S) /\ SumOver(f, S) = t[S]
  BY SumIs
<1>3. PICK u : Sums(f, u, R) /\ SumOver(f, R) = u[R]
  <2> HIDE DEF R
  <2> QED
    BY <1>1, SumIs
<1>4. u[R] = t[R]
  <2> HIDE DEF R
  <2> QED
    BY <1>1, <1>2, <1>3, SumsAgree
<1>5. t[S] = f[Some(S)] + t[R]
  BY <1>2 DEF Sums
<1> QED
  BY <1>2, <1>3, <1>4, <1>5

\* The sum of whole numbers is one.
LEMMA SumInt ==
    ASSUME NEW f, NEW S, IsFiniteSet(S), \A x \in S : f[x] \in Int
    PROVE  SumOver(f, S) \in Int
<1> DEFINE F == {A \in SUBSET S : SumOver(f, A) \notin Int}
<1> SUFFICES ASSUME F # {} PROVE FALSE
  OBVIOUS
<1>1. PICK A \in F : \A B \in F : B \subseteq A => B = A
  <2>1. F \subseteq SUBSET S
    OBVIOUS
  <2> HIDE DEF F
  <2> QED
    BY <2>1, SmallestSet
<1>2. IsFiniteSet(A)
  BY FS_Subset
<1>3. A # {}
  BY SumEmpty
<1>4. Some(A) \in A /\ A \ {Some(A)} \subseteq A /\ A \ {Some(A)} # A
  BY <1>3, SomeIn
<1>5. SumOver(f, A \ {Some(A)}) \in Int
  BY <1>1, <1>4
<1>6. SumOver(f, A) = f[Some(A)] + SumOver(f, A \ {Some(A)})
  BY <1>2, <1>3, SumSome
<1> QED
  BY <1>4, <1>5, <1>6

\* Any element may be taken out first, whichever one the recursion takes.
LEMMA SumLess ==
    ASSUME NEW f, NEW S, IsFiniteSet(S), \A x \in S : f[x] \in Int, NEW y \in S
    PROVE  SumOver(f, S) = f[y] + SumOver(f, S \ {y})
<1> DEFINE F == {A \in SUBSET S : \E z \in A : SumOver(f, A) # f[z] + SumOver(f, A \ {z})}
<1> SUFFICES ASSUME F # {} PROVE FALSE
  OBVIOUS
<1>1. PICK A \in F : \A B \in F : B \subseteq A => B = A
  <2>1. F \subseteq SUBSET S
    OBVIOUS
  <2> HIDE DEF F
  <2> QED
    BY <2>1, SmallestSet
<1>2. PICK z \in A : SumOver(f, A) # f[z] + SumOver(f, A \ {z})
  OBVIOUS
<1> DEFINE x == Some(A)
<1>3. /\ x \in A
      /\ A \ {x} \in SUBSET S /\ A \ {x} # A
      /\ SumOver(f, A) = f[x] + SumOver(f, A \ {x})
  BY SomeIn, SumSome, FS_Subset
<1>4. x # z
  BY <1>2, <1>3
<1> HIDE DEF x
<1>5. SumOver(f, A \ {x}) = f[z] + SumOver(f, (A \ {x}) \ {z})
  BY <1>1, <1>3, <1>4
<1>6. SumOver(f, A \ {z}) = f[x] + SumOver(f, (A \ {z}) \ {x})
  <2>1. A \ {z} \in SUBSET S /\ A \ {z} # A /\ x \in A \ {z}
    BY <1>3, <1>4
  <2> QED
    BY <1>1, <2>1
<1>7. (A \ {x}) \ {z} = (A \ {z}) \ {x}
  OBVIOUS
<1>8. SumOver(f, (A \ {x}) \ {z}) \in Int
  <2>1. IsFiniteSet((A \ {x}) \ {z}) /\ (A \ {x}) \ {z} \subseteq S
    BY FS_Subset
  <2> QED
    BY <2>1, SumInt
<1>9. f[x] \in Int /\ f[z] \in Int
  BY <1>3
<1> DEFINE s1 == SumOver(f, A)
           s2 == SumOver(f, A \ {x})
           s3 == SumOver(f, A \ {z})
           s4 == SumOver(f, (A \ {x}) \ {z})
<1>10. /\ s1 # f[z] + s3
       /\ s1 = f[x] + s2
       /\ s2 = f[z] + s4
       /\ s3 = f[x] + s4
       /\ s4 \in Int
  BY <1>2, <1>3, <1>5, <1>6, <1>7, <1>8, Zenon
<1> HIDE DEF s1, s2, s3, s4
<1> QED
  BY <1>9, <1>10

\* One summand more, whichever it is.
LEMMA SumMore ==
    ASSUME NEW f, NEW S, IsFiniteSet(S), NEW y, y \notin S,
           \A x \in S \cup {y} : f[x] \in Int
    PROVE  SumOver(f, S \cup {y}) = f[y] + SumOver(f, S)
<1>1. IsFiniteSet(S \cup {y}) /\ (S \cup {y}) \ {y} = S
  BY FS_AddElement
<1> QED
  BY <1>1, SumLess

----------------------------------------------------------------------------
\* Comparing tables.

\* Equal summands have equal sums.
LEMMA SumSame ==
    ASSUME NEW f, NEW g, NEW S, IsFiniteSet(S),
           \A x \in S : f[x] \in Int /\ g[x] = f[x]
    PROVE  SumOver(g, S) = SumOver(f, S)
<1> DEFINE G == {A \in SUBSET S : SumOver(g, A) = SumOver(f, A)}
<1>1. {} \in G
  BY SumEmpty
<1>2. ASSUME NEW A \in SUBSET S, NEW x \in S \ A, A \in G
      PROVE  A \cup {x} \in G
  <2>1. IsFiniteSet(A) /\ A \cup {x} \in SUBSET S
    BY FS_Subset
  <2>2. SumOver(g, A \cup {x}) = g[x] + SumOver(g, A)
    BY <2>1, SumMore
  <2>3. SumOver(f, A \cup {x}) = f[x] + SumOver(f, A)
    BY <2>1, SumMore
  <2> QED
    BY <1>2, <2>1, <2>2, <2>3
<1>3. S \in G
  <2> HIDE DEF G
  <2> QED
    BY <1>1, <1>2, Induct
<1> QED
  BY <1>3

\* The sum of sums.
LEMMA SumPlus ==
    ASSUME NEW f, NEW g, NEW h, NEW S, IsFiniteSet(S),
           \A x \in S : f[x] \in Int /\ g[x] \in Int /\ h[x] = f[x] + g[x]
    PROVE  SumOver(h, S) = SumOver(f, S) + SumOver(g, S)
<1> DEFINE G == {A \in SUBSET S : SumOver(h, A) = SumOver(f, A) + SumOver(g, A)}
<1>1. {} \in G
  BY SumEmpty
<1>2. ASSUME NEW A \in SUBSET S, NEW x \in S \ A, A \in G
      PROVE  A \cup {x} \in G
  <2>1. IsFiniteSet(A) /\ A \cup {x} \in SUBSET S
    BY FS_Subset
  <2>2. SumOver(f, A) \in Int /\ SumOver(g, A) \in Int
    BY <2>1, SumInt
  <2>3. SumOver(f, A \cup {x}) = f[x] + SumOver(f, A)
    BY <2>1, SumMore
  <2>4. SumOver(g, A \cup {x}) = g[x] + SumOver(g, A)
    BY <2>1, SumMore
  <2>5. SumOver(h, A \cup {x}) = h[x] + SumOver(h, A)
    BY <2>1, SumMore
  <2> QED
    BY <1>2, <2>1, <2>2, <2>3, <2>4, <2>5
<1>3. S \in G
  <2> HIDE DEF G
  <2> QED
    BY <1>1, <1>2, Induct
<1> QED
  BY <1>3

\* A table that is nowhere larger has no larger sum.
LEMMA SumAtMost ==
    ASSUME NEW f, NEW g, NEW S, IsFiniteSet(S),
           \A x \in S : f[x] \in Int /\ g[x] \in Int /\ f[x] <= g[x]
    PROVE  SumOver(f, S) <= SumOver(g, S)
<1> DEFINE G == {A \in SUBSET S : SumOver(f, A) <= SumOver(g, A)}
<1>1. {} \in G
  BY SumEmpty
<1>2. ASSUME NEW A \in SUBSET S, NEW x \in S \ A, A \in G
      PROVE  A \cup {x} \in G
  <2>1. IsFiniteSet(A) /\ A \cup {x} \in SUBSET S
    BY FS_Subset
  <2>2. SumOver(f, A) \in Int /\ SumOver(g, A) \in Int
    BY <2>1, SumInt
  <2>3. SumOver(f, A \cup {x}) = f[x] + SumOver(f, A)
    BY <2>1, SumMore
  <2>4. SumOver(g, A \cup {x}) = g[x] + SumOver(g, A)
    BY <2>1, SumMore
  <2> QED
    BY <1>2, <2>1, <2>2, <2>3, <2>4
<1>3. S \in G
  <2> HIDE DEF G
  <2> QED
    BY <1>1, <1>2, Induct
<1> QED
  BY <1>3

\* A multiple of a table has the multiple of its sum.
LEMMA SumTimes ==
    ASSUME NEW f, NEW h, NEW k \in Int, NEW S, IsFiniteSet(S),
           \A x \in S : f[x] \in Int /\ h[x] = k * f[x]
    PROVE  SumOver(h, S) = k * SumOver(f, S)
<1> DEFINE G == {A \in SUBSET S : SumOver(h, A) = k * SumOver(f, A)}
<1>1. {} \in G
  BY SumEmpty
<1>2. ASSUME NEW A \in SUBSET S, NEW x \in S \ A, A \in G
      PROVE  A \cup {x} \in G
  <2>1. IsFiniteSet(A) /\ A \cup {x} \in SUBSET S
    BY FS_Subset
  <2>2. SumOver(f, A) \in Int /\ k * f[x] \in Int
    BY <2>1, SumInt
  <2>3. SumOver(f, A \cup {x}) = f[x] + SumOver(f, A)
    BY <2>1, SumMore
  <2>4. SumOver(h, A \cup {x}) = h[x] + SumOver(h, A)
    BY <2>1, <2>2, SumMore
  <2>5. \A a, b \in Int : k * (a + b) = k * a + k * b
    OBVIOUS
  <2> QED
    BY <1>2, <2>1, <2>2, <2>3, <2>4, <2>5
<1>3. S \in G
  <2> HIDE DEF G
  <2> QED
    BY <1>1, <1>2, Induct
<1> QED
  BY <1>3

\* A table that is zero wherever it is not in A.
LEMMA SumWithin ==
    ASSUME NEW f, NEW S, IsFiniteSet(S), NEW A \in SUBSET S,
           \A x \in S : f[x] \in Int /\ (x \notin A => f[x] = 0)
    PROVE  SumOver(f, S) = SumOver(f, A)
<1> DEFINE G == {B \in SUBSET S : SumOver(f, B) = SumOver(f, B \cap A)}
<1>1. {} \in G
  BY SumEmpty
<1>2. ASSUME NEW B \in SUBSET S, NEW x \in S \ B, B \in G
      PROVE  B \cup {x} \in G
  <2>1. IsFiniteSet(B) /\ B \cup {x} \in SUBSET S /\ IsFiniteSet(B \cap A)
    BY FS_Subset
  <2>2. SumOver(f, B \cup {x}) = f[x] + SumOver(f, B)
    BY <2>1, SumMore
  <2>3. CASE x \in A
    <3>1. SumOver(f, (B \cap A) \cup {x}) = f[x] + SumOver(f, B \cap A)
      BY <2>1, <1>2, SumMore
    <3>2. (B \cup {x}) \cap A = (B \cap A) \cup {x}
      BY <2>3
    <3>3. SumOver(f, (B \cup {x}) \cap A) = f[x] + SumOver(f, B \cap A)
      BY <3>1, <3>2, Zenon
    <3> QED
      BY <1>2, <2>1, <2>2, <3>3
  <2>4. CASE x \notin A
    <3>1. (B \cup {x}) \cap A = B \cap A
      BY <2>4
    <3>2. f[x] = 0 /\ SumOver(f, B) \in Int
      BY <2>1, <2>4, SumInt
    <3>3. SumOver(f, (B \cup {x}) \cap A) = SumOver(f, B \cap A)
      BY <3>1, Zenon
    <3>4. SumOver(f, B \cup {x}) = SumOver(f, B)
      BY <2>2, <3>2
    <3> QED
      BY <1>2, <2>1, <3>3, <3>4
  <2> QED
    BY <2>3, <2>4
<1>3. S \in G
  <2> HIDE DEF G
  <2> QED
    BY <1>1, <1>2, Induct
<1>4. S \cap A = A
  OBVIOUS
<1> QED
  BY <1>3, <1>4

\* A sum of naturals is one, and at least each of its summands.
LEMMA SumNat ==
    ASSUME NEW f, NEW S, IsFiniteSet(S), \A x \in S : f[x] \in Nat
    PROVE  /\ SumOver(f, S) \in Nat
           /\ \A x \in S : f[x] <= SumOver(f, S)
<1> DEFINE none == [x \in S |-> 0]
<1>1. ASSUME NEW A \in SUBSET S
      PROVE  SumOver(f, A) \in Int /\ SumOver(f, A) >= 0
  <2>1. IsFiniteSet(A)
    BY FS_Subset
  <2>2. SumOver(none, A) = SumOver(none, {})
    BY <2>1, SumWithin
  <2>3. SumOver(none, A) <= SumOver(f, A)
    BY <2>1, SumAtMost
  <2>4. SumOver(f, A) \in Int
    BY <2>1, SumInt
  <2> QED
    BY <2>2, <2>3, <2>4, SumEmpty
<1>2. ASSUME NEW x \in S PROVE f[x] <= SumOver(f, S)
  <2>1. SumOver(f, S) = f[x] + SumOver(f, S \ {x})
    BY SumLess
  <2>2. SumOver(f, S \ {x}) \in Int /\ SumOver(f, S \ {x}) >= 0
    BY <1>1
  <2> QED
    BY <2>1, <2>2
<1> QED
  BY <1>1, <1>2

\* A table changed at one place.
LEMMA SumChange ==
    ASSUME NEW f, NEW g, NEW S, IsFiniteSet(S), NEW y \in S,
           g[y] \in Int,
           \A x \in S : f[x] \in Int /\ (x # y => g[x] = f[x])
    PROVE  SumOver(g, S) = SumOver(f, S) - f[y] + g[y]
<1>1. IsFiniteSet(S \ {y})
  BY FS_Subset
<1>2. SumOver(f, S) = f[y] + SumOver(f, S \ {y})
  BY SumLess
<1>3. SumOver(g, S) = g[y] + SumOver(g, S \ {y})
  BY SumLess
<1>4. SumOver(g, S \ {y}) = SumOver(f, S \ {y}) /\ SumOver(f, S \ {y}) \in Int
  BY <1>1, SumSame, SumInt
<1> QED
  BY <1>2, <1>3, <1>4

\* The sum of a part and of the rest.
LEMMA SumParts ==
    ASSUME NEW f, NEW S, IsFiniteSet(S), NEW A \in SUBSET S, \A x \in S : f[x] \in Int
    PROVE  SumOver(f, S) = SumOver(f, A) + SumOver(f, S \ A)
<1> DEFINE part == [x \in S |-> IF x \in A THEN f[x] ELSE 0]
           rest == [x \in S |-> IF x \in A THEN 0 ELSE f[x]]
<1>0. IsFiniteSet(A) /\ IsFiniteSet(S \ A)
  BY FS_Subset
<1>1. SumOver(f, S) = SumOver(part, S) + SumOver(rest, S)
  BY SumPlus
<1>2. SumOver(part, S) = SumOver(part, A) /\ SumOver(rest, S) = SumOver(rest, S \ A)
  BY SumWithin
<1>3. SumOver(part, A) = SumOver(f, A) /\ SumOver(rest, S \ A) = SumOver(f, S \ A)
  BY <1>0, SumSame
<1> QED
  BY <1>1, <1>2, <1>3

\* How many there are is a sum of ones.
LEMMA SumOnes ==
    ASSUME NEW f, NEW S, IsFiniteSet(S), NEW A \in SUBSET S,
           \A x \in S : f[x] = IF x \in A THEN 1 ELSE 0
    PROVE  SumOver(f, S) = Cardinality(A)
<1> DEFINE G == {B \in SUBSET A : SumOver(f, B) = Cardinality(B)}
<1>0. IsFiniteSet(A)
  BY FS_Subset
<1>1. {} \in G
  BY SumEmpty, FS_EmptySet
<1>2. ASSUME NEW B \in SUBSET A, NEW x \in A \ B, B \in G
      PROVE  B \cup {x} \in G
  <2>1. IsFiniteSet(B) /\ B \cup {x} \in SUBSET A /\ Cardinality(B) \in Nat
    BY <1>0, FS_Subset, FS_CardinalityType
  <2>2. SumOver(f, B \cup {x}) = f[x] + SumOver(f, B)
    BY <2>1, SumMore
  <2>3. Cardinality(B \cup {x}) = Cardinality(B) + 1
    BY <1>2, <2>1, FS_AddElement
  <2> QED
    BY <1>2, <2>1, <2>2, <2>3
<1>3. A \in G
  <2> HIDE DEF G
  <2> QED
    BY <1>0, <1>1, <1>2, Induct
<1>4. SumOver(f, S) = SumOver(f, A)
  BY SumWithin
<1> QED
  BY <1>3, <1>4

\* Rows first or columns first.
LEMMA SumSwap ==
    ASSUME NEW C, IsFiniteSet(C), NEW U, IsFiniteSet(U),
           NEW m, \A c \in C : \A u \in U : m[c][u] \in Int
    PROVE  SumOver([c \in C |-> SumOver(m[c], U)], C)
             = SumOver([u \in U |-> SumOver([c \in C |-> m[c][u]], C)], U)
<1> DEFINE row(V) == [c \in C |-> SumOver(m[c], V)]
           entry(u) == [c \in C |-> m[c][u]]
           column == [u \in U |-> SumOver(entry(u), C)]
           G == {V \in SUBSET U : SumOver(row(V), C) = SumOver(column, V)}
<1>0. \A u \in U : column[u] \in Int
  BY SumInt
<1>1. {} \in G
  <2>1. SumOver(row({}), C) = SumOver(row({}), {})
    BY SumEmpty, SumWithin
  <2> QED
    BY <2>1, SumEmpty
<1>2. ASSUME NEW V \in SUBSET U, NEW x \in U \ V, V \in G
      PROVE  V \cup {x} \in G
  <2>1. IsFiniteSet(V) /\ V \cup {x} \in SUBSET U
    BY FS_Subset
  <2>2. ASSUME NEW c \in C
        PROVE  /\ row(V)[c] \in Int
               /\ row(V \cup {x})[c] = entry(x)[c] + row(V)[c]
    BY <2>1, SumInt, SumMore
  <2>3. SumOver(row(V \cup {x}), C) = SumOver(entry(x), C) + SumOver(row(V), C)
    <3> DEFINE f == entry(x)
               g == row(V)
               h == row(V \cup {x})
    <3>1. \A c \in C : f[c] \in Int /\ g[c] \in Int /\ h[c] = f[c] + g[c]
      BY <2>2
    <3> HIDE DEF f, g, h
    <3>2. SumOver(h, C) = SumOver(f, C) + SumOver(g, C)
      BY <3>1, SumPlus
    <3> QED
      BY <3>2 DEF f, g, h
  <2>4. SumOver(column, V \cup {x}) = column[x] + SumOver(column, V)
    <3> HIDE DEF column
    <3> QED
      BY <1>0, <2>1, SumMore
  <2> QED
    BY <1>2, <2>1, <2>3, <2>4
<1>3. U \in G
  <2> HIDE DEF G
  <2> QED
    BY <1>1, <1>2, Induct
<1> QED
  BY <1>3

\* A table of whole numbers m with the sums of its lines and of its columns.
IsTable(C, U, m, line, column, below) ==
    /\ IsFiniteSet(C) /\ IsFiniteSet(U)
    /\ \A c \in C : \A u \in U : m[c][u] \in Int /\ column[u][c] = m[c][u]
    /\ \A c \in C : line[c] = SumOver(m[c], U)
    /\ \A u \in U : below[u] = SumOver(column[u], C)

\* The sum of the lines of a table is the sum of its columns.
LEMMA SumTable ==
    ASSUME NEW C, NEW U, NEW m, NEW line, NEW column, NEW below,
           IsTable(C, U, m, line, column, below)
    PROVE  SumOver(line, C) = SumOver(below, U)
<1> USE DEF IsTable
<1> DEFINE lines == [c \in C |-> SumOver(m[c], U)]
           turned == [u \in U |-> [c \in C |-> m[c][u]]]
           belows == [u \in U |-> SumOver([c \in C |-> m[c][u]], C)]
<1>1. SumOver(lines, C) = SumOver(belows, U)
  BY SumSwap
<1>2. ASSUME NEW c \in C PROVE lines[c] \in Int /\ line[c] = lines[c]
  <2>1. lines[c] = SumOver(m[c], U) /\ line[c] = SumOver(m[c], U)
    OBVIOUS
  <2> DEFINE row == m[c]
  <2>2. \A u \in U : row[u] \in Int
    OBVIOUS
  <2> HIDE DEF lines, row
  <2>3. SumOver(row, U) \in Int
    BY <2>2, SumInt
  <2> QED
    BY <2>1, <2>3 DEF row
<1>3. ASSUME NEW u \in U PROVE belows[u] \in Int /\ below[u] = belows[u]
  <2> DEFINE new == [c \in C |-> m[c][u]]
             old == column[u]
  <2>1. belows[u] = SumOver(new, C) /\ below[u] = SumOver(old, C)
    OBVIOUS
  <2>2. \A c \in C : new[c] \in Int /\ old[c] = new[c]
    OBVIOUS
  <2> HIDE DEF new, old, belows
  <2>3. SumOver(old, C) = SumOver(new, C) /\ SumOver(new, C) \in Int
    BY <2>2, SumSame, SumInt
  <2> QED
    BY <2>1, <2>3
<1> HIDE DEF lines, belows
<1>4. SumOver(line, C) = SumOver(lines, C)
  BY <1>2, SumSame
<1>5. SumOver(below, U) = SumOver(belows, U)
  BY <1>3, SumSame
<1> QED
  BY <1>1, <1>4, <1>5

----------------------------------------------------------------------------
\* Splits.

\* Of the members of a ranked set, as many as places come before the places
\* run out.
LEMMA Ranking ==
    ASSUME NEW H, IsFiniteSet(H), NEW before, \A k \in H : before[k] \subseteq H,
           \A j \in H : j \notin before[j],
           \A i, j, k \in H : i \in before[j] /\ j \in before[k] => i \in before[k],
           \A j, k \in H : j = k \/ j \in before[k] \/ k \in before[j],
           NEW L \in 0 .. Cardinality(H),
           NEW first \in SUBSET H, \A k \in H : k \in first <=> Cardinality(before[k]) < L
    PROVE  Cardinality(first) = L
<1> DEFINE n == Cardinality(H)
           rank == [k \in H |-> Cardinality(before[k])]
           B == {k \in H : rank[k] < L}
           top == [k \in B |-> rank[k]]
<1>0. n \in Nat /\ IsFiniteSet(B)
  BY FS_CardinalityType, FS_Subset
<1>1. ASSUME NEW k \in H
      PROVE  IsFiniteSet(before[k]) /\ rank[k] \in Nat /\ rank[k] < n
  <2>1. before[k] \subseteq H /\ before[k] # H
    OBVIOUS
  <2>2. /\ IsFiniteSet(before[k])
        /\ Cardinality(before[k]) <= Cardinality(H)
        /\ Cardinality(H) = Cardinality(before[k]) => H = before[k]
    BY <2>1, FS_Subset
  <2>3. Cardinality(before[k]) \in Nat
    BY <2>2, FS_CardinalityType
  <2>4. rank[k] = Cardinality(before[k])
    OBVIOUS
  <2> HIDE DEF rank
  <2> QED
    BY <1>0, <2>1, <2>2, <2>3, <2>4
<1>2. ASSUME NEW j \in H, NEW k \in H, j \in before[k]
      PROVE  rank[j] < rank[k]
  <2>1. before[j] \subseteq before[k] /\ before[j] # before[k]
    BY <1>2
  <2>2. /\ Cardinality(before[j]) <= Cardinality(before[k])
        /\ Cardinality(before[k]) = Cardinality(before[j]) => before[k] = before[j]
    BY <1>1, <2>1, FS_Subset
  <2>3. rank[j] = Cardinality(before[j]) /\ rank[k] = Cardinality(before[k])
    OBVIOUS
  <2>4. rank[j] \in Nat /\ rank[k] \in Nat
    BY <1>1
  <2> HIDE DEF rank
  <2> QED
    BY <2>1, <2>2, <2>3, <2>4
<1>3. rank \in Injection(H, 0 .. n - 1)
  <2>1. \A j, k \in H : rank[j] = rank[k] => j = k
    <3> SUFFICES ASSUME NEW j \in H, NEW k \in H, j # k
                 PROVE  rank[j] # rank[k]
      OBVIOUS
    <3>1. rank[j] < rank[k] \/ rank[k] < rank[j]
      BY <1>2
    <3>2. rank[j] \in Nat /\ rank[k] \in Nat
      BY <1>1
    <3> HIDE DEF rank
    <3> QED
      BY <3>1, <3>2
  <2>2. rank \in [H -> 0 .. n - 1]
    <3>1. rank = [k \in H |-> rank[k]]
      OBVIOUS
    <3> HIDE DEF rank, n
    <3> QED
      BY <1>0, <1>1, <3>1
  <2> HIDE DEF rank, n
  <2> QED
    BY <2>1, <2>2 DEF Injection, IsInjective
<1>4. rank \in Surjection(H, 0 .. n - 1)
  <2>1. Cardinality(0 .. n - 1) = n /\ IsFiniteSet(0 .. n - 1)
    <3> HIDE DEF n
    <3> QED
      BY <1>0, FS_Interval
  <2> HIDE DEF rank
  <2> QED
    BY <1>3, <2>1, FS_Injection
<1>5. top \in Bijection(B, 0 .. L - 1)
  <2>1. \A i \in 0 .. L - 1 : \E k \in B : top[k] = i
    <3> SUFFICES ASSUME NEW i \in 0 .. L - 1 PROVE \E k \in B : top[k] = i
      OBVIOUS
    <3>1. i \in 0 .. n - 1
      BY <1>0
    <3>2. PICK k \in H : rank[k] = i
      <4> HIDE DEF rank
      <4> QED
        BY <1>4, <3>1 DEF Surjection
    <3> QED
      BY <3>2
  <2>2. top \in [B -> 0 .. L - 1] /\ \A j, k \in B : top[j] = top[k] => j = k
    <3>1. \A j, k \in H : rank[j] = rank[k] => j = k
      <4> HIDE DEF rank
      <4> QED
        BY <1>3 DEF Injection, IsInjective
    <3> HIDE DEF rank
    <3> QED
      BY <1>1, <3>1
  <2> HIDE DEF top, B
  <2> QED
    BY <2>1, <2>2 DEF Bijection, Injection, Surjection, IsInjective
<1>6. Cardinality(B) = L
  <2>1. ExistsBijection(B, 0 .. L - 1)
    <3> HIDE DEF top, B
    <3> QED
      BY <1>5 DEF ExistsBijection
  <2>2. Cardinality(0 .. L - 1) = L
    BY FS_Interval
  <2> HIDE DEF B
  <2> QED
    BY <1>0, <2>1, <2>2, FS_Bijection
<1>7. B = first
  OBVIOUS
<1> QED
  BY <1>6, <1>7

\* Division with remainder, of a natural number.
LEMMA Division ==
    ASSUME NEW a \in Nat, NEW b \in Nat \ {0}
    PROVE  /\ a \div b \in Nat /\ a % b \in Nat
           /\ a = b * (a \div b) + (a % b)
           /\ a % b < b
OBVIOUS

\* Products of naturals are naturals, a fact the provers lack.
LEMMA Product == \A a, b \in Nat : a * b \in Nat
OBVIOUS

\* A positive factor can be cancelled.
LEMMA Cancel ==
    ASSUME NEW t \in Nat \ {0}, NEW l \in Int, NEW n \in Int, t * l <= t * n
    PROVE  l <= n
<1> SUFFICES ASSUME n + 1 <= l PROVE FALSE
  OBVIOUS
<1>1. PICK d \in Nat : l = n + 1 + d
  <2>1. l - n - 1 \in Nat /\ l = n + 1 + (l - n - 1)
    OBVIOUS
  <2> QED
    BY <2>1
<1>2. t * l = t * n + t + t * d
  BY <1>1
<1>3. t * d \in Nat /\ t * n \in Int
  BY Product
<1> DEFINE x == t * n
           y == t * d
           z == t * l
<1>4. z = x + t + y /\ y \in Nat /\ x \in Int /\ z <= x
  BY <1>2, <1>3
<1> HIDE DEF x, y, z
<1> QED
  BY <1>4

\* Those who are owed part of a nuggy after the floors.
Owed(amount, shares) == {k \in Holders(shares) : Remainder(amount, shares, k) > 0}

\* What is left after the floors is one nuggy for each of them at most.
LEMMA Leftovers ==
    ASSUME NEW amount \in Nat, NEW shares, IsFiniteSet(DOMAIN shares),
           \A k \in DOMAIN shares : shares[k] \in Nat, Total(shares) > 0
    PROVE  /\ Leftover(amount, shares) \in 0 .. Cardinality(Owed(amount, shares))
           /\ Leftover(amount, shares) \in 0 .. Cardinality(Holders(shares))
           /\ \A k \in Holders(shares) : Quota(amount, shares, k) \in Nat
<1> DEFINE T == Total(shares)
           H == Holders(shares)
           part == Owed(amount, shares)
           n == Cardinality(part)
           q == [k \in H |-> Quota(amount, shares, k)]
           r == [k \in H |-> Remainder(amount, shares, k)]
           dealt == [k \in H |-> T * q[k]]
           due == [k \in H |-> amount * shares[k]]
           ones == [k \in H |-> IF k \in part THEN 1 ELSE 0]
           most == [k \in H |-> T * ones[k]]
           Q == SumOver(q, H)
<1>1. /\ IsFiniteSet(H) /\ H \in SUBSET DOMAIN shares
      /\ part \in SUBSET H /\ n \in Nat
      /\ n <= Cardinality(H) /\ Cardinality(H) \in Nat
  <2>1. H \in SUBSET DOMAIN shares /\ part \in SUBSET H
    BY DEF Holders, Owed
  <2> HIDE DEF H, part
  <2> QED
    BY <2>1, FS_Subset, FS_CardinalityType
<1>2. T \in Nat \ {0} /\ T = SumOver(shares, H)
  <2>1. T \in Int
    BY SumInt DEF Total
  <2>2. \A k \in DOMAIN shares : shares[k] \in Int /\ (k \notin H => shares[k] = 0)
    BY DEF Holders
  <2> HIDE DEF H
  <2>3. SumOver(shares, DOMAIN shares) = SumOver(shares, H)
    BY <1>1, <2>2, SumWithin
  <2> QED
    BY <2>1, <2>3 DEF Total
<1>3. ASSUME NEW k \in H
      PROVE  /\ q[k] \in Nat /\ r[k] \in Nat /\ r[k] < T
             /\ dealt[k] = T * q[k] /\ due[k] = amount * shares[k]
             /\ due[k] = dealt[k] + r[k]
             /\ dealt[k] \in Nat /\ due[k] \in Nat /\ shares[k] \in Nat
  <2>1. shares[k] \in Nat
    BY DEF Holders
  <2> DEFINE x == amount * shares[k]
  <2>2. x \in Nat
    BY <2>1, Product
  <2>3. q[k] = x \div T /\ r[k] = x % T /\ due[k] = x /\ dealt[k] = T * q[k]
    BY DEF Quota, Remainder
  <2> HIDE DEF x, T, q, r, due, dealt
  <2>4. q[k] \in Nat /\ r[k] \in Nat /\ r[k] < T /\ x = T * q[k] + r[k]
    BY <1>2, <2>2, <2>3, Division
  <2>5. dealt[k] \in Nat
    BY <1>2, <2>3, <2>4, Product
  <2> QED
    BY <2>1, <2>2, <2>3, <2>4, <2>5 DEF x
<1>4. /\ \A k \in H : ones[k] = IF k \in part THEN 1 ELSE 0
      /\ \A k \in H : most[k] = T * ones[k]
      /\ \A k \in H : k \in part <=> r[k] > 0
  BY DEF Owed
<1>5. Leftover(amount, shares) = amount - Q
  <2>1. DOMAIN q = H
    OBVIOUS
  <2> QED
    BY <2>1 DEF Leftover, Total
<1> HIDE DEF T, H, q, r, dealt, due, ones, most, part
<1>6. Q \in Nat /\ SumOver(r, H) \in Nat
  BY <1>1, <1>3, SumNat
<1>7. SumOver(due, H) = amount * T
  BY <1>1, <1>2, <1>3, SumTimes
<1>8. SumOver(due, H) = SumOver(dealt, H) + SumOver(r, H)
  BY <1>1, <1>3, SumPlus
<1>9. SumOver(dealt, H) = T * Q
  <2>1. T \in Int /\ \A k \in H : q[k] \in Int /\ dealt[k] = T * q[k]
    BY <1>2, <1>3
  <2> QED
    BY <1>1, <2>1, SumTimes
<1>10. SumOver(r, H) <= T * n
  <2>1. SumOver(ones, H) = n
    BY <1>1, <1>4, SumOnes
  <2>2. SumOver(most, H) = T * SumOver(ones, H)
    BY <1>1, <1>2, <1>4, SumTimes
  <2>3. ASSUME NEW k \in H PROVE r[k] \in Int /\ most[k] \in Int /\ r[k] <= most[k]
    <3>1. most[k] = IF r[k] > 0 THEN T ELSE 0
      BY <1>2, <1>4
    <3> QED
      BY <1>2, <1>3, <3>1
  <2>4. SumOver(r, H) <= SumOver(most, H)
    BY <1>1, <2>3, SumAtMost
  <2> QED
    BY <2>1, <2>2, <2>4
<1> HIDE DEF Q, n
<1>11. amount - Q \in Int /\ T * (amount - Q) = amount * T - T * Q
  BY <1>2, <1>6
<1>12. T * (amount - Q) = SumOver(r, H)
  <2> DEFINE x == amount * T
             y == T * Q
  <2>1. x \in Nat /\ y \in Nat
    BY <1>2, <1>6, Product
  <2>2. x = y + SumOver(r, H) /\ T * (amount - Q) = x - y
    BY <1>7, <1>8, <1>9, <1>11
  <2> HIDE DEF x, y
  <2> QED
    BY <1>6, <2>1, <2>2
<1>13. 0 <= amount - Q
  <2>1. T * 0 <= T * (amount - Q)
    BY <1>2, <1>6, <1>12
  <2> QED
    BY <1>2, <1>11, <2>1, Cancel
<1>14. amount - Q <= n
  BY <1>1, <1>2, <1>10, <1>11, <1>12, Cancel
<1>15. \A k \in H : Quota(amount, shares, k) \in Nat
  BY <1>3 DEF q
<1> QED
  BY <1>1, <1>5, <1>11, <1>13, <1>14, <1>15 DEF H, part, n

\* A table of zeros is worth nothing.
LEMMA SumZero ==
    ASSUME NEW f, NEW S, IsFiniteSet(S), \A x \in S : f[x] = 0
    PROVE  SumOver(f, S) = 0
<1>1. \A x \in S : f[x] \in Int /\ (x \notin {} => f[x] = 0)
  OBVIOUS
<1> QED
  BY <1>1, SumEmpty, SumWithin

\* As many holders get one more as there are nuggies left over.
LEMMA LeftoversGiven ==
    ASSUME NEW amount \in Nat, NEW shares, IsFiniteSet(DOMAIN shares),
           DOMAIN shares \subseteq Int,
           \A k \in DOMAIN shares : shares[k] \in Nat, Total(shares) > 0
    PROVE  Cardinality({k \in Holders(shares) :
                Cardinality({j \in Holders(shares) : Precedes(amount, shares, j, k)})
                    < Leftover(amount, shares)}) = Leftover(amount, shares)
<1> DEFINE H == Holders(shares)
           L == Leftover(amount, shares)
           rem == [k \in H |-> Remainder(amount, shares, k)]
           before == [k \in H |-> {j \in H : Precedes(amount, shares, j, k)}]
           first == {k \in H :
                        Cardinality({j \in H : Precedes(amount, shares, j, k)}) < L}
<1>1. /\ IsFiniteSet(H) /\ H \subseteq Int
      /\ \A k \in H : shares[k] \in Nat
  <2>1. H \subseteq DOMAIN shares
    BY DEF Holders
  <2> HIDE DEF H
  <2> QED
    BY <2>1, FS_Subset
<1>2. L \in 0 .. Cardinality(H)
  BY Leftovers
<1>3. \A k \in H : rem[k] \in Int
  <2> SUFFICES ASSUME NEW k \in H PROVE rem[k] \in Int
    OBVIOUS
  <2>1. Total(shares) \in Nat \ {0}
    BY SumInt DEF Total
  <2>2. amount * shares[k] \in Nat
    BY <1>1, Product
  <2>3. (amount * shares[k]) % Total(shares) \in Nat
    BY <2>1, <2>2, Division
  <2> QED
    BY <2>3 DEF Remainder
<1>4. \A j, k \in H : j \in before[k] <=>
        \/ rem[j] > rem[k]
        \/ rem[j] = rem[k] /\ shares[j] > shares[k]
        \/ rem[j] = rem[k] /\ shares[j] = shares[k] /\ j < k
  BY DEF Precedes
<1>5. /\ \A k \in H : before[k] \subseteq H
      /\ first \in SUBSET H
      /\ \A k \in H : k \in first <=> Cardinality(before[k]) < L
  OBVIOUS
<1> HIDE DEF before, rem, H, L, first
<1>6. \A j \in H : j \notin before[j]
  BY <1>1, <1>3, <1>4
<1>7. \A i, j, k \in H : i \in before[j] /\ j \in before[k] => i \in before[k]
  BY <1>1, <1>3, <1>4
<1>8. \A j, k \in H : j = k \/ j \in before[k] \/ k \in before[j]
  <2> SUFFICES ASSUME NEW j \in H, NEW k \in H, j # k
               PROVE  j \in before[k] \/ k \in before[j]
    OBVIOUS
  <2>1. j < k \/ k < j
    BY <1>1
  <2>2. shares[j] > shares[k] \/ shares[j] = shares[k] \/ shares[k] > shares[j]
    BY <1>1
  <2>3. rem[j] > rem[k] \/ rem[j] = rem[k] \/ rem[k] > rem[j]
    BY <1>3
  <2> QED
    BY <1>4, <2>1, <2>2, <2>3
<1>9. Cardinality(first) = L
  BY <1>1, <1>2, <1>5, <1>6, <1>7, <1>8, Ranking
<1> QED
  BY <1>9 DEF first, H, L

\* A split hands out all of the amount, or nothing when nobody holds a share.
LEMMA SplitSum ==
    ASSUME NEW amount \in Nat, NEW shares, IsFiniteSet(DOMAIN shares),
           DOMAIN shares \subseteq Int,
           \A k \in DOMAIN shares : shares[k] \in Nat
    PROVE  Total(ProrataSplit(amount, shares)) = IF Total(shares) = 0 THEN 0 ELSE amount
<1> DEFINE D == DOMAIN shares
           H == Holders(shares)
           L == Leftover(amount, shares)
           split == ProrataSplit(amount, shares)
           lucky == {k \in H : Cardinality({j \in H : Precedes(amount, shares, j, k)}) < L}
           q == [k \in H |-> Quota(amount, shares, k)]
           one == [k \in H |-> IF k \in lucky THEN 1 ELSE 0]
<1>1. DOMAIN split = D
  BY DEF ProrataSplit
<1>2. ASSUME amount = 0 \/ Total(shares) = 0
      PROVE  Total(split) = 0
  <2>1. ASSUME NEW k \in D PROVE split[k] = 0
    <3>1. CASE amount = 0
      BY <3>1 DEF ProrataSplit
    <3>2. CASE Total(shares) = 0
      <4>1. shares[k] <= SumOver(shares, D)
        BY SumNat
      <4>2. shares[k] = 0
        BY <3>2, <4>1 DEF Total
      <4> QED
        BY <4>2 DEF ProrataSplit
    <3> QED
      BY <1>2, <3>1, <3>2
  <2> HIDE DEF split, D
  <2>2. SumOver(split, D) = 0
    BY <2>1, SumZero DEF D
  <2> QED
    BY <1>1, <2>2 DEF Total
<1>3. ASSUME amount > 0, Total(shares) > 0
      PROVE  Total(split) = amount
  <2>1. H \in SUBSET D /\ IsFiniteSet(H) /\ lucky \in SUBSET H
    <3>1. H \in SUBSET D
      BY DEF Holders
    <3> HIDE DEF H
    <3> QED
      BY <3>1, FS_Subset
  <2>2. Cardinality(lucky) = L
    BY <1>3, LeftoversGiven
  <2>3. /\ L = amount - SumOver(q, H)
        /\ \A k \in H : q[k] \in Nat
    <3>1. DOMAIN q = H
      OBVIOUS
    <3>2. L = amount - Total(q)
      BY DEF Leftover
    <3>3. \A k \in H : q[k] \in Nat
      BY <1>3, Leftovers
    <3> QED
      BY <3>1, <3>2, <3>3 DEF Total
  <2>4. \A k \in H : /\ split[k] = q[k] + one[k]
                      /\ one[k] = IF k \in lucky THEN 1 ELSE 0
    BY <1>3 DEF ProrataSplit, Holders
  <2>5. \A k \in D : k \notin H => split[k] = 0
    BY DEF ProrataSplit, Holders
  <2> HIDE DEF split, H, D, L, lucky, q, one
  <2>6. \A k \in H : one[k] \in Int /\ q[k] \in Int /\ split[k] \in Int
    BY <2>3, <2>4
  <2>7. SumOver(one, H) = L
    BY <2>1, <2>2, <2>4, SumOnes
  <2>8. SumOver(split, H) = SumOver(q, H) + SumOver(one, H)
    BY <2>1, <2>4, <2>6, SumPlus
  <2>9. SumOver(split, D) = SumOver(split, H)
    <3>1. \A k \in D : split[k] \in Int /\ (k \notin H => split[k] = 0)
      BY <2>5, <2>6
    <3> QED
      BY <2>1, <3>1, SumWithin DEF D
  <2>10. SumOver(q, H) \in Int
    BY <2>1, <2>6, SumInt
  <2> QED
    BY <1>1, <2>3, <2>7, <2>8, <2>9, <2>10 DEF Total
<1>4. Total(shares) \in Nat
  BY SumNat DEF Total
<1> QED
  BY <1>2, <1>3, <1>4

\* Multiplication is monotonic.
LEMMA Grow ==
    ASSUME NEW t \in Nat, NEW a \in Int, NEW b \in Int, a <= b
    PROVE  t * a <= t * b
<1>1. PICK d \in Nat : b = a + d
  <2>1. b - a \in Nat /\ b = a + (b - a)
    OBVIOUS
  <2> QED
    BY <2>1
<1>2. t * b = t * a + t * d
  BY <1>1
<1>3. t * d \in Nat /\ t * a \in Int
  BY Product
<1> DEFINE x == t * a
           y == t * d
<1> HIDE DEF x, y
<1>4. x <= x + y
  BY <1>3 DEF x, y
<1> QED
  BY <1>2, <1>4 DEF x, y

\* Who receives one of the leftovers: only somebody owed part of a nuggy.
Lucky(amount, shares) ==
    {k \in Holders(shares) :
        Cardinality({j \in Holders(shares) : Precedes(amount, shares, j, k)})
            < Leftover(amount, shares)}

\* A nuggy left over goes to somebody whose quota was rounded down.
LEMMA LuckyAreOwed ==
    ASSUME NEW amount \in Nat, NEW shares, IsFiniteSet(DOMAIN shares),
           \A k \in DOMAIN shares : shares[k] \in Nat, Total(shares) > 0
    PROVE  Lucky(amount, shares) \subseteq Owed(amount, shares)
<1> DEFINE H == Holders(shares)
           P == Owed(amount, shares)
           L == Leftover(amount, shares)
<1> SUFFICES ASSUME NEW k \in Lucky(amount, shares), k \notin P PROVE FALSE
  OBVIOUS
<1> DEFINE B == {j \in H : Precedes(amount, shares, j, k)}
<1>1. k \in H /\ Cardinality(B) < L
  BY DEF Lucky
<1>2. IsFiniteSet(H) /\ B \subseteq H
  <2>1. H \subseteq DOMAIN shares
    BY DEF Holders
  <2> HIDE DEF H
  <2> QED
    BY <2>1, FS_Subset
<1>3. \A j \in H : Remainder(amount, shares, j) \in Nat
  <2> SUFFICES ASSUME NEW j \in H PROVE Remainder(amount, shares, j) \in Nat
    OBVIOUS
  <2>1. Total(shares) \in Nat \ {0}
    BY SumInt DEF Total
  <2>2. amount * shares[j] \in Nat
    BY Product DEF Holders
  <2>3. (amount * shares[j]) % Total(shares) \in Nat
    BY <2>1, <2>2, Division
  <2> QED
    BY <2>3 DEF Remainder
<1>4. P \subseteq B
  BY <1>1, <1>3 DEF Owed, Precedes
<1>5. L \in 0 .. Cardinality(P)
  BY Leftovers
<1> HIDE DEF B, H, P, L
<1>6. IsFiniteSet(B)
  BY <1>2, FS_Subset
<1>7. IsFiniteSet(P) /\ Cardinality(P) <= Cardinality(B)
  BY <1>4, <1>6, FS_Subset
<1>8. Cardinality(P) \in Nat /\ Cardinality(B) \in Nat
  BY <1>6, <1>7, FS_CardinalityType
<1> QED
  BY <1>1, <1>5, <1>7, <1>8

\* What a holder of a positive total receives.
LEMMA SplitEntry ==
    ASSUME NEW amount \in Nat, NEW shares, IsFiniteSet(DOMAIN shares),
           \A k \in DOMAIN shares : shares[k] \in Nat, Total(shares) > 0,
           NEW k \in DOMAIN shares
    PROVE  \E q, r \in Nat :
             /\ amount * shares[k] = Total(shares) * q + r
             /\ r < Total(shares)
             /\ k \in Holders(shares) => r = Remainder(amount, shares, k)
             /\ k \in Holders(shares) => q = Quota(amount, shares, k)
             /\ ProrataSplit(amount, shares)[k]
                    = q + (IF k \in Lucky(amount, shares) THEN 1 ELSE 0)
             /\ k \in Lucky(amount, shares) => r > 0
<1> DEFINE T == Total(shares)
           x == amount * shares[k]
           q == x \div T
           r == x % T
           lucky == k \in Lucky(amount, shares)
<1>1. T \in Nat \ {0}
  BY SumInt DEF Total
<1>2. x \in Nat
  BY Product
<1>3. q \in Nat /\ r \in Nat /\ x = T * q + r /\ r < T
  <2> HIDE DEF x, T
  <2> QED
    BY <1>1, <1>2, Division
<1>4. q = Quota(amount, shares, k) /\ r = Remainder(amount, shares, k)
  BY DEF Quota, Remainder
<1>5. lucky => r > 0 /\ k \in Holders(shares)
  BY <1>4, LuckyAreOwed DEF Owed
<1>6. ProrataSplit(amount, shares)[k] = q + (IF lucky THEN 1 ELSE 0)
  <2>1. CASE amount = 0 \/ shares[k] = 0
    <3>1. x = 0
      BY <2>1
    <3>2. q = 0 /\ r = 0
      <4>1. T * q + r = 0 /\ T * q \in Nat
        BY <1>1, <1>3, <3>1, Product
      <4> DEFINE y == T * q
      <4>2. y = 0 /\ r = 0
        <5> HIDE DEF y, r
        <5> QED
          BY <1>3, <4>1 DEF y
      <4>3. T * q <= T * 0
        BY <1>1, <4>2
      <4> HIDE DEF q, r, T, y
      <4>4. q <= 0
        BY <1>1, <1>3, <4>3, Cancel
      <4> QED
        BY <1>3, <4>2, <4>4
    <3>3. ~lucky
      BY <1>5, <3>2
    <3>4. ProrataSplit(amount, shares)[k] = 0
      BY <2>1 DEF ProrataSplit
    <3> QED
      BY <3>2, <3>3, <3>4
  <2>2. CASE amount > 0 /\ shares[k] > 0
    BY <1>4, <2>2 DEF ProrataSplit, Lucky, Holders
  <2> QED
    BY <2>1, <2>2
<1> HIDE DEF q, r, lucky
<1> QED
  BY <1>3, <1>4, <1>5, <1>6 DEF lucky

\* Every entry of a split is a whole number less than one nuggy away from the
\* exact quota, and nothing without shares.
LEMMA SplitNear ==
    ASSUME NEW amount \in Nat, NEW shares, IsFiniteSet(DOMAIN shares),
           \A k \in DOMAIN shares : shares[k] \in Nat, Total(shares) > 0,
           NEW k \in DOMAIN shares
    PROVE  /\ (ProrataSplit(amount, shares)[k] - 1) * Total(shares) < amount * shares[k]
           /\ amount * shares[k] < (ProrataSplit(amount, shares)[k] + 1) * Total(shares)
<1> DEFINE T == Total(shares)
           x == amount * shares[k]
           s == ProrataSplit(amount, shares)[k]
<1>1. PICK q \in Nat, r \in Nat :
        /\ x = T * q + r /\ r < T
        /\ s = q \/ (s = q + 1 /\ r > 0)
  BY SplitEntry
<1>2. T \in Nat \ {0}
  BY SumInt DEF Total
<1> HIDE DEF T, x, s
<1>3. (s - 1) * T = (IF s = q THEN T * q - T ELSE T * q)
  <2>1. CASE s = q
    BY <1>2, <2>1
  <2>2. CASE s = q + 1
    BY <1>2, <2>2
  <2> QED
    BY <1>1, <2>1, <2>2
<1>4. (s + 1) * T = (IF s = q THEN T * q + T ELSE T * q + T + T)
  <2>1. CASE s = q
    BY <1>2, <2>1
  <2>2. CASE s = q + 1
    BY <1>2, <2>2
  <2> QED
    BY <1>1, <2>1, <2>2
<1>5. T * q \in Nat
  BY <1>2, Product
<1> DEFINE y == T * q
           low == (s - 1) * T
           high == (s + 1) * T
<1>6. /\ x = y + r /\ y \in Nat
      /\ low = (IF s = q THEN y - T ELSE y)
      /\ high = (IF s = q THEN y + T ELSE y + T + T)
  BY <1>1, <1>3, <1>4, <1>5
<1> HIDE DEF y, low, high
<1>7. low < x /\ x < high
  BY <1>1, <1>2, <1>6
<1> QED
  BY <1>7 DEF low, high, T, x, s

\* What each holder receives.
LEMMA SplitNat ==
    ASSUME NEW amount \in Nat, NEW shares, IsFiniteSet(DOMAIN shares),
           \A k \in DOMAIN shares : shares[k] \in Nat
    PROVE  /\ ProrataSplit(amount, shares) \in [DOMAIN shares -> Nat]
           /\ \A k \in DOMAIN shares : shares[k] = 0 => ProrataSplit(amount, shares)[k] = 0
<1> DEFINE split == ProrataSplit(amount, shares)
<1>1. ASSUME NEW k \in DOMAIN shares PROVE split[k] \in Nat
  <2>1. CASE Total(shares) > 0
    BY <2>1, SplitEntry
  <2>2. CASE Total(shares) = 0
    <3>1. shares[k] <= SumOver(shares, DOMAIN shares)
      BY SumNat
    <3>2. shares[k] = 0
      BY <2>2, <3>1 DEF Total
    <3> QED
      BY <3>2 DEF ProrataSplit
  <2>3. Total(shares) \in Nat
    BY SumNat DEF Total
  <2> QED
    BY <2>1, <2>2, <2>3
<1>2. split = [k \in DOMAIN shares |-> split[k]]
  BY DEF ProrataSplit
<1> HIDE DEF split
<1>3. split \in [DOMAIN shares -> Nat]
  BY <1>1, <1>2
<1>4. \A k \in DOMAIN shares : shares[k] = 0 => split[k] = 0
  BY DEF split, ProrataSplit
<1> QED
  BY <1>3, <1>4 DEF split

\* Nobody with more shares receives less.
LEMMA SplitOrdered ==
    ASSUME NEW amount \in Nat, NEW shares, IsFiniteSet(DOMAIN shares),
           \A k \in DOMAIN shares : shares[k] \in Nat, Total(shares) > 0,
           NEW j \in DOMAIN shares, NEW k \in DOMAIN shares, shares[j] > shares[k]
    PROVE  ProrataSplit(amount, shares)[j] >= ProrataSplit(amount, shares)[k]
<1> DEFINE T == Total(shares)
           H == Holders(shares)
           C == Lucky(amount, shares)
           split == ProrataSplit(amount, shares)
           xj == amount * shares[j]
           xk == amount * shares[k]
<1> SUFFICES split[j] >= split[k]
  OBVIOUS
<1>1. PICK qj \in Nat, rj \in Nat :
        /\ xj = T * qj + rj /\ rj < T
        /\ j \in H => rj = Remainder(amount, shares, j)
        /\ split[j] = qj + (IF j \in C THEN 1 ELSE 0)
  BY SplitEntry
<1>2. PICK qk \in Nat, rk \in Nat :
        /\ xk = T * qk + rk /\ rk < T
        /\ k \in H => rk = Remainder(amount, shares, k)
        /\ split[k] = qk + (IF k \in C THEN 1 ELSE 0)
  BY SplitEntry
<1>3. T \in Nat \ {0}
  BY SumInt DEF Total
<1>4. xk <= xj /\ xj \in Nat /\ xk \in Nat
  BY Grow, Product
<1>5. CASE split[k] = 0
  BY <1>1, <1>5
<1>6. CASE k \in H
  <2>1. j \in H
    BY <1>6 DEF Holders
  <2>2. qj >= qk
    <3> SUFFICES ASSUME qj + 1 <= qk PROVE FALSE
      OBVIOUS
    <3> DEFINE yj == T * qj
               yk == T * qk
    <3>1. T * (qj + 1) <= T * qk
      BY <1>3, Grow
    <3>2. T * (qj + 1) = T * qj + T
      BY <1>3
    <3>3. yj \in Nat /\ yk \in Nat /\ yj + T <= yk
      BY <1>3, <3>1, <3>2, Product
    <3>4. xj = yj + rj /\ rj < T /\ xk = yk + rk
      BY <1>1, <1>2
    <3> HIDE DEF yj, yk, xj, xk, T
    <3> QED
      BY <1>3, <1>4, <3>3, <3>4
  <2>3. CASE qj > qk
    <3> HIDE DEF split, C
    <3> QED
      BY <1>1, <1>2, <2>3
  <2>4. CASE qj = qk
    <3>1. rj >= rk
      <4> DEFINE y == T * qk
      <4>1. y \in Nat /\ xj = y + rj /\ xk = y + rk
        BY <1>1, <1>2, <1>3, <2>4, Product
      <4> HIDE DEF y, xj, xk
      <4> QED
        BY <1>4, <4>1
    <3>2. ASSUME k \in C PROVE j \in C
      <4> DEFINE before(x) == {i \in H : Precedes(amount, shares, i, x)}
      <4>1. IsFiniteSet(H) /\ \A i \in H : Remainder(amount, shares, i) \in Int
        <5>1. H \subseteq DOMAIN shares
          BY DEF Holders
        <5>2. \A i \in DOMAIN shares : amount * shares[i] \in Nat
          BY Product
        <5>3. ASSUME NEW i \in H PROVE (amount * shares[i]) % T \in Nat
          <6> DEFINE x == amount * shares[i]
          <6>1. x \in Nat
            BY <5>1, <5>2
          <6> HIDE DEF x, T
          <6> QED
            BY <1>3, <6>1, Division DEF x
        <5> HIDE DEF H
        <5> QED
          BY <5>1, <5>3, FS_Subset DEF Remainder
      <4>2. before(j) \subseteq before(k)
        <5> SUFFICES ASSUME NEW i \in H, Precedes(amount, shares, i, j)
                     PROVE  Precedes(amount, shares, i, k)
          OBVIOUS
        <5>1. Remainder(amount, shares, j) >= Remainder(amount, shares, k)
          BY <1>1, <1>2, <1>6, <2>1, <3>1
        <5>2. shares[i] \in Nat
          BY DEF Holders
        <5> HIDE DEF H
        <5> QED
          BY <1>6, <2>1, <4>1, <5>1, <5>2 DEF Precedes
      <4>3. before(k) \subseteq H
        OBVIOUS
      <4>4. j \in H /\ k \in H /\ Cardinality(before(k)) < Leftover(amount, shares)
        BY <2>1, <3>2 DEF Lucky
      <4>5. Leftover(amount, shares) \in Int
        BY Leftovers, FS_CardinalityType
      <4> DEFINE bj == before(j)
                 bk == before(k)
      <4> HIDE DEF bj, bk, H
      <4>6. IsFiniteSet(bk) /\ IsFiniteSet(bj) /\ Cardinality(bj) <= Cardinality(bk)
        BY <4>1, <4>2, <4>3, FS_Subset DEF bj, bk
      <4>7. Cardinality(bj) \in Nat /\ Cardinality(bk) \in Nat
        BY <4>6, FS_CardinalityType
      <4>8. Cardinality(bj) < Leftover(amount, shares)
        BY <4>4, <4>5, <4>6, <4>7 DEF bk
      <4> QED
        BY <2>1, <4>8 DEF bj, H, Lucky
    <3> HIDE DEF split, C
    <3> QED
      BY <1>1, <1>2, <2>4, <3>2
  <2> QED
    BY <2>2, <2>3, <2>4
<1>7. k \notin H => split[k] = 0
  BY DEF Holders, ProrataSplit
<1> QED
  BY <1>5, <1>6, <1>7

----------------------------------------------------------------------------
\* Taxes, tranches, vesting and the recession cut.

\* The floor of a quotient is the greatest number that fits.
LEMMA FloorFits ==
    ASSUME NEW a \in Nat, NEW b \in Nat \ {0}, NEW k \in Int
    PROVE  /\ b * (a \div b) <= a
           /\ b * k <= a => k <= a \div b
           /\ a <= b * k => a \div b <= k
<1> DEFINE q == a \div b
           r == a % b
<1>1. q \in Nat /\ r \in Nat /\ a = b * q + r /\ r < b
  BY Division
<1> HIDE DEF q, r
<1>2. b * q \in Nat
  BY <1>1, Product
<1>3. b * q <= a
  <2> DEFINE x == b * q
  <2>1. x \in Nat /\ a = x + r
    BY <1>1, <1>2
  <2> HIDE DEF x
  <2> QED
    BY <1>1, <2>1 DEF x
<1>4. ASSUME b * k <= a PROVE k <= q
  <2> SUFFICES ASSUME q + 1 <= k PROVE FALSE
    BY <1>1
  <2> DEFINE x == b * q
             y == b * k
  <2>1. b * (q + 1) = b * q + b /\ b * (q + 1) <= b * k
    BY <1>1, Grow
  <2>2. y \in Int /\ x \in Nat /\ x + b <= y /\ y <= a /\ a = x + r
    BY <1>1, <1>2, <1>4, <2>1
  <2> HIDE DEF x, y
  <2> QED
    BY <1>1, <2>2
<1>5. ASSUME a <= b * k PROVE q <= k
  <2> DEFINE y == b * k
             x == b * q
  <2>1. x \in Nat /\ y \in Int /\ x <= a /\ a <= y
    BY <1>2, <1>3, <1>5
  <2>2. b * q <= b * k
    <3>1. x <= y
      <4> HIDE DEF x, y
      <4> QED
        BY <2>1
    <3> QED
      BY <3>1
  <2> QED
    BY <1>1, <2>2, Cancel
<1> QED
  BY <1>3, <1>4, <1>5 DEF q

\* A tax is a part of what it is taken from.
LEMMA TaxWithin ==
    ASSUME NEW gross \in Nat, NEW rate \in 0 .. 100
    PROVE  TaxAmount(gross, rate) \in 0 .. gross
<1>1. CASE gross = 0 \/ rate = 0
  BY <1>1 DEF TaxAmount
<1>2. CASE gross > 0 /\ rate > 0
  <2> DEFINE x == gross * rate
  <2>1. x \in Nat
    BY Product
  <2>2. x <= 100 * gross
    <3>1. gross * rate <= gross * 100
      BY Grow
    <3> QED
      BY <3>1
  <2>3. TaxAmount(gross, rate) = x \div 100
    BY <1>2 DEF TaxAmount
  <2> HIDE DEF x
  <2>4. x \div 100 \in Nat /\ x \div 100 <= gross
    BY <2>1, <2>2, Division, FloorFits
  <2> QED
    BY <2>3, <2>4
<1> QED
  BY <1>1, <1>2

\* After tax, too, more is not less.
LEMMA NetGrows ==
    ASSUME NEW less \in Nat, NEW more \in Nat, less <= more, NEW rate \in 0 .. 100
    PROVE  less - TaxAmount(less, rate) <= more - TaxAmount(more, rate)
<1> DEFINE x == less * rate
           y == more * rate
<1>1. x \in Nat /\ y \in Nat
  BY Product
<1>2. ASSUME NEW gross \in Nat PROVE TaxAmount(gross, rate) = (gross * rate) \div 100
  <2>1. CASE gross = 0 \/ rate = 0
    <3>1. gross * rate = 0
      BY <2>1
    <3> QED
      BY <2>1, <3>1 DEF TaxAmount
  <2>2. CASE gross > 0 /\ rate > 0
    BY <2>2 DEF TaxAmount
  <2> QED
    BY <2>1, <2>2
<1>3. y <= x + 100 * (more - less)
  <2> DEFINE gap == more - less
  <2>1. gap \in Nat /\ more = less + gap
    OBVIOUS
  <2> HIDE DEF gap
  <2>2. y = x + gap * rate
    BY <2>1
  <2>3. gap * rate <= gap * 100
    BY <2>1, Grow
  <2>4. gap * rate \in Nat
    BY <2>1, Product
  <2> QED
    BY <1>1, <2>1, <2>2, <2>3, <2>4 DEF gap
<1>4. TaxAmount(less, rate) = x \div 100 /\ TaxAmount(more, rate) = y \div 100
  BY <1>2
<1> HIDE DEF x, y
<1>5. /\ x \div 100 \in Nat /\ x < 100 * (x \div 100) + 100
      /\ y \div 100 \in Nat /\ 100 * (y \div 100) <= y
  BY <1>1, Division
<1> QED
  BY <1>1, <1>3, <1>4, <1>5

\* A tranche never runs ahead of the money that is in, and the last one
\* completes the round.
LEMMA TrancheWithin ==
    ASSUME NEW new \in Nat, NEW amount \in Nat \ {0}, NEW funded \in 0 .. amount
    PROVE  /\ TrancheTarget(new, amount, funded) \in Nat
           /\ TrancheTarget(new, amount, funded) * amount <= new * funded
           /\ TrancheTarget(new, amount, amount) = new
<1>1. CASE funded = amount
  BY <1>1 DEF TrancheTarget
<1>2. CASE funded < amount
  <2> DEFINE x == new * funded
             t == TrancheTarget(new, amount, funded)
  <2>1. x \in Nat
    BY Product
  <2>2. t = x \div amount
    BY <1>2 DEF TrancheTarget
  <2>3. TrancheTarget(new, amount, amount) = new
    BY DEF TrancheTarget
  <2> HIDE DEF x, t
  <2>4. t \in Nat /\ amount * t <= x
    BY <2>1, <2>2, Division, FloorFits
  <2>5. t * amount = amount * t
    BY <2>4
  <2> QED
    BY <2>3, <2>4, <2>5 DEF x, t
<1> QED
  BY <1>1, <1>2

\* A grant never releases more than it is for, nor takes anything back.
LEMMA VestingGrows ==
    ASSUME NEW total \in Nat, NEW vest \in Nat \ {0}, NEW elapsed \in 0 .. vest - 1
    PROVE  /\ VestTarget(total, vest, elapsed + 1) \in Nat
           /\ (total * elapsed) \div vest <= VestTarget(total, vest, elapsed + 1)
           /\ (total * elapsed) \div vest \in Nat
<1> DEFINE x == total * elapsed
           y == total * (elapsed + 1)
<1>1. x \in Nat /\ y \in Nat /\ x <= y
  BY Product, Grow
<1>2. x <= vest * total
  <2>1. total * elapsed <= total * vest
    BY Grow
  <2>2. total * vest = vest * total
    OBVIOUS
  <2> QED
    BY <2>1, <2>2
<1>3. VestTarget(total, vest, elapsed + 1) = IF elapsed + 1 >= vest THEN total ELSE y \div vest
  BY DEF VestTarget
<1> HIDE DEF x, y
<1>4. x \div vest \in Nat /\ y \div vest \in Nat
  BY <1>1, Division
<1>5. x \div vest <= total
  BY <1>1, <1>2, FloorFits
<1>6. x \div vest <= y \div vest
  <2>1. vest * (x \div vest) <= x
    BY <1>1, FloorFits
  <2>2. vest * (x \div vest) <= y
    <3>1. vest * (x \div vest) \in Int
      BY <1>4
    <3> DEFINE z == vest * (x \div vest)
    <3> HIDE DEF z
    <3>2. z <= y
      BY <1>1, <2>1, <3>1 DEF z
    <3> QED
      BY <3>2 DEF z
  <2> QED
    BY <1>1, <1>4, <2>2, FloorFits
<1> QED
  BY <1>3, <1>4, <1>5, <1>6 DEF x

\* What one company's output may earn under the cap.
LEMMA RevenueCut ==
    ASSUME NEW output \in Nat, NEW sum \in Nat, NEW cap \in Nat, sum > cap,
           NEW earned \in RealizedRevenue(output, sum, cap)
    PROVE  earned \in Nat /\ sum * earned <= output * cap
<1> DEFINE x == output * cap
<1>1. x \in Nat /\ sum \in Nat \ {0}
  BY Product
<1>2. earned \in FloatFloor(x, sum)
  BY DEF RealizedRevenue
<1> HIDE DEF x
<1> DEFINE k == x \div sum
<1>3. k \in Nat /\ sum * k <= x
  BY <1>1, Division, FloorFits
<1>4. earned = k \/ (earned = k - 1 /\ k > 0)
  BY <1>2 DEF FloatFloor
<1> HIDE DEF k
<1>5. earned \in Nat /\ earned <= k
  BY <1>3, <1>4
<1>6. sum * earned <= sum * k
  BY <1>1, <1>3, <1>5, Grow
<1> DEFINE y == sum * earned
           z == sum * k
<1>7. y \in Nat /\ z \in Nat /\ y <= z /\ z <= x
  BY <1>1, <1>3, <1>5, <1>6, Product
<1>8. y <= x
  <2> HIDE DEF y, z
  <2> QED
    BY <1>1, <1>7
<1> QED
  BY <1>5, <1>8 DEF x

\* All companies together draw no more than the cap, nor than they offer.
LEMMA RevenueCapped ==
    ASSUME NEW D, IsFiniteSet(D), NEW offered \in [D -> Nat], NEW cap \in Nat,
           NEW earned,
           \A c \in D : earned[c] \in RealizedRevenue(offered[c], Total(offered), cap)
    PROVE  /\ \A c \in D : earned[c] \in Nat
           /\ SumOver(earned, D) <= Smaller(cap, Total(offered))
           /\ SumOver(earned, D) \in Nat
<1> DEFINE sum == Total(offered)
<1>1. sum \in Nat /\ sum = SumOver(offered, D)
  BY SumNat DEF Total
<1> HIDE DEF sum
<1>2. CASE sum <= cap
  <2>1. \A c \in D : earned[c] = offered[c]
    <3>1. ~(sum > cap)
      BY <1>1, <1>2
    <3>2. \A c \in D : RealizedRevenue(offered[c], sum, cap) = {offered[c]}
      BY <3>1 DEF RealizedRevenue
    <3>3. \A c \in D : earned[c] \in RealizedRevenue(offered[c], sum, cap)
      BY DEF sum
    <3> QED
      BY <3>2, <3>3
  <2>2. \A c \in D : offered[c] \in Int /\ earned[c] = offered[c]
    BY <2>1
  <2>3. SumOver(earned, D) = SumOver(offered, D)
    BY <2>2, SumSame
  <2> QED
    BY <1>1, <1>2, <2>1, <2>3 DEF Smaller, sum
<1>3. CASE sum > cap
  <2> DEFINE E == SumOver(earned, D)
             most == [c \in D |-> cap * offered[c]]
             used == [c \in D |-> sum * earned[c]]
  <2>1. \A c \in D : earned[c] \in Nat /\ sum * earned[c] <= offered[c] * cap
    BY <1>1, <1>3, RevenueCut DEF sum
  <2>2. E \in Nat
    BY <2>1, SumNat
  <2>3. \A c \in D : earned[c] \in Int /\ used[c] = sum * earned[c]
    BY <2>1
  <2>4. \A c \in D : offered[c] \in Int /\ most[c] = cap * offered[c]
    OBVIOUS
  <2>5. \A c \in D : used[c] \in Int /\ most[c] \in Int /\ used[c] <= most[c]
    <3> SUFFICES ASSUME NEW c \in D
                 PROVE  used[c] \in Int /\ most[c] \in Int /\ used[c] <= most[c]
      OBVIOUS
    <3>1. offered[c] * cap = cap * offered[c] /\ cap * offered[c] \in Nat
      BY Product
    <3>2. sum * earned[c] \in Nat
      BY <1>1, <2>1, Product
    <3> QED
      BY <2>1, <2>3, <2>4, <3>1, <3>2
  <2> HIDE DEF most, used
  <2>6. SumOver(used, D) = sum * E
    BY <1>1, <2>3, SumTimes
  <2>7. SumOver(most, D) = cap * sum
    BY <1>1, <2>4, SumTimes
  <2>8. SumOver(used, D) <= SumOver(most, D)
    BY <2>5, SumAtMost
  <2> HIDE DEF E
  <2>9. sum * E <= sum * cap
    <3>1. cap * sum = sum * cap
      BY <1>1
    <3> QED
      BY <2>6, <2>7, <2>8, <3>1
  <2>10. E <= cap
    BY <1>1, <1>3, <2>2, <2>9, Cancel
  <2> QED
    BY <1>1, <1>3, <2>1, <2>2, <2>10 DEF E, Smaller, sum
<1> QED
  BY <1>1, <1>2, <1>3

----------------------------------------------------------------------------
\* Sums in another order, and by groups.

\* A sum may be taken along any numbering without repetition.
LEMMA SumAlong ==
    ASSUME NEW f, NEW g, NEW S, IsFiniteSet(S), NEW order, NEW T,
           \A x \in S : order[x] \in T,
           \A y \in T : \E x \in S : order[x] = y,
           \A x, y \in S : order[x] = order[y] => x = y,
           \A x \in S : g[x] \in Int /\ g[x] = f[order[x]]
    PROVE  SumOver(g, S) = SumOver(f, T)
<1> DEFINE Image(A) == {order[x] : x \in A}
           G == {A \in SUBSET S : /\ IsFiniteSet(Image(A))
                                  /\ SumOver(g, A) = SumOver(f, Image(A))}
<1>1. {} \in G
  <2>1. Image({}) = {} /\ IsFiniteSet({})
    BY FS_EmptySet
  <2> HIDE DEF Image
  <2> QED
    BY <2>1, SumEmpty
<1>2. ASSUME NEW A \in SUBSET S, NEW x \in S \ A, A \in G
      PROVE  A \cup {x} \in G
  <2>1. /\ Image(A \cup {x}) = Image(A) \cup {order[x]}
        /\ order[x] \notin Image(A)
        /\ A \cup {x} \in SUBSET S
    OBVIOUS
  <2>2. \A z \in Image(A) \cup {order[x]} : f[z] \in Int
    OBVIOUS
  <2>3. IsFiniteSet(Image(A)) /\ IsFiniteSet(A) /\ SumOver(g, A) = SumOver(f, Image(A))
    BY <1>2, FS_Subset
  <2>4. \A z \in A \cup {x} : g[z] \in Int
    OBVIOUS
  <2>5. SumOver(g, A \cup {x}) = g[x] + SumOver(g, A)
    BY <2>3, <2>4, SumMore
  <2> DEFINE I == Image(A)
  <2> HIDE DEF I
  <2>6. SumOver(f, I \cup {order[x]}) = f[order[x]] + SumOver(f, I)
    BY <2>1, <2>2, <2>3, SumMore DEF I
  <2>7. IsFiniteSet(Image(A) \cup {order[x]})
    BY <2>3, FS_AddElement
  <2> HIDE DEF Image
  <2> QED
    BY <2>1, <2>3, <2>5, <2>6, <2>7 DEF I
<1>3. S \in G
  <2> HIDE DEF G
  <2> QED
    BY <1>1, <1>2, Induct
<1>4. Image(S) = T
  OBVIOUS
<1> QED
  BY <1>3, <1>4

\* A sum is the sum over groups of the sums of the groups, when every member is
\* of exactly one group.
LEMMA SumGroups ==
    ASSUME NEW f, NEW S, IsFiniteSet(S), \A x \in S : f[x] \in Int,
           NEW U, IsFiniteSet(U), NEW key, \A x \in S : key[x] \in U,
           NEW g, \A u \in U : g[u] = SumOver(f, {x \in S : key[x] = u})
    PROVE  SumOver(g, U) = SumOver(f, S) /\ \A u \in U : g[u] \in Int
<1> DEFINE m == [u \in U |-> [x \in S |-> IF key[x] = u THEN f[x] ELSE 0]]
           column == [x \in S |-> [u \in U |-> m[u][x]]]
           byUser == [u \in U |-> SumOver(m[u], S)]
           byMember == [x \in S |-> SumOver(column[x], U)]
<1>1. \A u \in U : \A x \in S : m[u][x] = IF key[x] = u THEN f[x] ELSE 0
  OBVIOUS
<1>2. \A u \in U : \A x \in S : m[u][x] \in Int
  <2> HIDE DEF m
  <2> QED
    BY <1>1
<1>3. SumOver(byUser, U) = SumOver(byMember, S)
  <2>1. \A x \in S : column[x] = [u \in U |-> m[u][x]]
    OBVIOUS
  <2>2. byMember = [x \in S |-> SumOver([u \in U |-> m[u][x]], U)]
    <3> HIDE DEF m
    <3> QED
      BY <2>1
  <2> HIDE DEF m, column, byMember
  <2>3. SumOver([u \in U |-> SumOver(m[u], S)], U)
          = SumOver([x \in S |-> SumOver([u \in U |-> m[u][x]], U)], S)
    BY <1>2, SumSwap
  <2> QED
    BY <2>2, <2>3
<1>4. ASSUME NEW u \in U
      PROVE  byUser[u] = g[u] /\ g[u] \in Int
  <2> DEFINE A == {x \in S : key[x] = u}
             row == m[u]
  <2>1. byUser[u] = SumOver(row, S) /\ g[u] = SumOver(f, A)
    OBVIOUS
  <2>2. \A x \in S : row[x] \in Int /\ (x \notin A => row[x] = 0)
    BY <1>1, <1>2
  <2>3. A \in SUBSET S /\ \A x \in A : f[x] \in Int /\ row[x] = f[x]
    BY <1>1
  <2> HIDE DEF A, row, byUser
  <2>4. SumOver(row, S) = SumOver(row, A)
    BY <2>2, <2>3, SumWithin
  <2>5. IsFiniteSet(A)
    BY <2>3, FS_Subset
  <2>6. SumOver(row, A) = SumOver(f, A) /\ SumOver(f, A) \in Int
    BY <2>3, <2>5, SumSame, SumInt
  <2> QED
    BY <2>1, <2>4, <2>6
<1>5. ASSUME NEW x \in S
      PROVE  byMember[x] = f[x]
  <2> DEFINE A == {key[x]}
             col == column[x]
  <2>1. byMember[x] = SumOver(col, U)
    OBVIOUS
  <2>2. \A u \in U : col[u] \in Int /\ (u \notin A => col[u] = 0)
    BY <1>1, <1>2
  <2>3. A \in SUBSET U /\ col[key[x]] = f[x]
    BY <1>1
  <2> HIDE DEF col, byMember
  <2>4. SumOver(col, U) = SumOver(col, A)
    BY <2>2, <2>3, SumWithin
  <2>5. SumOver(col, {} \cup {key[x]}) = col[key[x]] + SumOver(col, {})
    <3>1. \A u \in {} \cup {key[x]} : col[u] \in Int
      BY <2>2
    <3> QED
      BY <3>1, SumMore, FS_EmptySet
  <2>6. {} \cup {key[x]} = A
    OBVIOUS
  <2> QED
    BY <2>1, <2>3, <2>4, <2>5, <2>6, SumEmpty
<1> HIDE DEF byUser, byMember
<1>6. SumOver(byMember, S) = SumOver(f, S)
  BY <1>5, SumSame
<1>7. SumOver(g, U) = SumOver(byUser, U)
  <2>1. \A u \in U : byUser[u] \in Int /\ g[u] = byUser[u]
    BY <1>4
  <2> QED
    BY <2>1, SumSame
<1> QED
  BY <1>3, <1>4, <1>6, <1>7
=============================================================================
