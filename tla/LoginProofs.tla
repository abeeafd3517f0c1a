----------------------------- MODULE LoginProofs -----------------------------
(***************************************************************************)
(* Proofs about the lockout of Login.tla, under the specification of       *)
(* Sessions.tla: any number of users, workers and requests, any threshold  *)
(* and window, overlapping logins, unlocks and failures included.          *)
(*                                                                         *)
(* The lockout sums failed attempts over a window of the clock, so the     *)
(* module begins with what sums over finite sets are.  Each of those facts *)
(* holds of a set because it holds of its subsets: a smallest set that it  *)
(* does not hold of is looked for, and is not there.                       *)
(***************************************************************************)
EXTENDS SessionsProofs, WellFoundedInduction

-----------------------------------------------------------------------------
(* Sums over finite sets *)

\* The sum of f over A, as Recent and GuessesFrom make it.
Total(f, A) == MapThenSumSet(LAMBDA t : f[t], A)

\* The element a sum takes next, and the function that has the sums of the
\* subsets of A.
Element(s) == CHOOSE x \in s : TRUE

IsSums(f, A, g) ==
  g = [s \in SUBSET A |->
         IF s = {} THEN 0 ELSE f[Element(s)] + g[s \ {Element(s)}]]

Sums(f, A) == CHOOSE g : IsSums(f, A, g)

LEMMA TotalIsSums ==
  ASSUME NEW f, NEW A
  PROVE  Total(f, A) = Sums(f, A)[A]
  BY DEF Total, MapThenSumSet, MapThenFoldSet, Sums, IsSums, Element

LEMMA ElementIn ==
  ASSUME NEW s, s # {}
  PROVE  Element(s) \in s
  BY DEF Element

\* Of any subsets of a finite set, one is smallest.
LEMMA Smallest ==
  ASSUME NEW A, IsFiniteSet(A), NEW B \in SUBSET (SUBSET A), B # {}
  PROVE  \E s \in B : \A r \in B : r \subseteq s => r = s
<1>1. IsWellFoundedOn(StrictSubsetOrdering(A), SUBSET A)
  BY FS_StrictSubsetOrderingWellFounded, FS_FiniteSubsetsOfFinite
<1>2. PICK s \in B : \A r \in B : ~ (<<r, s>> \in StrictSubsetOrdering(A))
  BY <1>1, WFMin
<1>3. ASSUME NEW r \in B, r \subseteq s, r # s
      PROVE  FALSE
  BY <1>2, <1>3 DEF StrictSubsetOrdering
<1> QED
  BY <1>3

\* The equation has one solution, on the subsets of a subset too.
LEMMA SumsUnique ==
  ASSUME NEW f, NEW A, IsFiniteSet(A), NEW B \in SUBSET A,
         NEW g, IsSums(f, A, g), NEW h, IsSums(f, B, h)
  PROVE  \A s \in SUBSET B : g[s] = h[s]
<1> SUFFICES ASSUME {s \in SUBSET B : g[s] # h[s]} # {} PROVE FALSE
  OBVIOUS
<1> PICK Bad \in SUBSET (SUBSET B) : Bad = {s \in SUBSET B : g[s] # h[s]} /\ Bad # {}
  OBVIOUS
<1>1. IsFiniteSet(B)
  BY FS_Subset
<1>2. PICK s \in Bad : \A r \in Bad : r \subseteq s => r = s
  BY <1>1, Smallest
<1>3. g[s] = IF s = {} THEN 0 ELSE f[Element(s)] + g[s \ {Element(s)}]
  BY DEF IsSums
<1>4. h[s] = IF s = {} THEN 0 ELSE f[Element(s)] + h[s \ {Element(s)}]
  BY DEF IsSums
<1>5. s # {}
  BY <1>3, <1>4
<1>6. Element(s) \in s
  BY <1>5, ElementIn
<1>7. s \ {Element(s)} \notin Bad
  BY <1>2, <1>6
<1> QED
  BY <1>3, <1>4, <1>5, <1>7

\* It has a solution.
LEMMA SumsExist ==
  ASSUME NEW f, NEW A, IsFiniteSet(A)
  PROVE  IsSums(f, A, Sums(f, A))
<1> DEFINE Has(s) == \E g : IsSums(f, s, g)
<1> SUFFICES ASSUME ~ Has(A) PROVE FALSE
  BY DEF Sums
<1> HIDE DEF Has
<1> PICK Bad : Bad = {s \in SUBSET A : ~ Has(s)}
  OBVIOUS
<1>0. Bad \in SUBSET (SUBSET A) /\ Bad # {}
  OBVIOUS
<1>1. PICK B \in Bad : \A r \in Bad : r \subseteq B => r = B
  BY <1>0, Smallest
<1>2. ASSUME NEW s \in SUBSET B, s # B
      PROVE  IsSums(f, s, Sums(f, s))
  <2>1. Has(s)
    BY <1>1, <1>2
  <2> QED
    BY <2>1 DEF Has, Sums
<1> DEFINE rest(s) == s \ {Element(s)}
           g == [s \in SUBSET B |->
                   IF s = {} THEN 0
                   ELSE f[Element(s)] + Sums(f, rest(s))[rest(s)]]
<1>3. ASSUME NEW s \in SUBSET B, s # {}
      PROVE  g[rest(s)] = Sums(f, rest(s))[rest(s)]
  <2>1. PICK c : c = rest(s)
    OBVIOUS
  <2>2. c \in SUBSET B /\ c # B
    BY <1>3, <2>1, ElementIn
  <2>3. IsSums(f, c, Sums(f, c))
    BY <1>2, <2>2
  <2>4. Sums(f, c)[c] = IF c = {} THEN 0
                        ELSE f[Element(c)] + Sums(f, c)[rest(c)]
    BY <2>3 DEF IsSums
  <2>5. g[c] = IF c = {} THEN 0 ELSE f[Element(c)] + Sums(f, rest(c))[rest(c)]
    BY <2>2
  <2>6. ASSUME c # {}
        PROVE  Sums(f, c)[rest(c)] = Sums(f, rest(c))[rest(c)]
    <3>1. PICK d : d = rest(c)
      OBVIOUS
    <3>2. d \in SUBSET c /\ d \in SUBSET B /\ d # B
      BY <2>2, <2>6, <3>1, ElementIn
    <3>3. IsSums(f, d, Sums(f, d)) /\ IsFiniteSet(c)
      BY <1>2, <2>2, <3>2, FS_Subset
    <3>4. Sums(f, c)[d] = Sums(f, d)[d]
      BY <2>3, <3>2, <3>3, SumsUnique
    <3> QED
      BY <3>1, <3>4
  <2> QED
    BY <2>1, <2>4, <2>5, <2>6
<1>4. g = [s \in SUBSET B |->
             IF s = {} THEN 0 ELSE f[Element(s)] + g[rest(s)]]
  BY <1>3
<1>5. Has(B)
  BY <1>4 DEF IsSums, Has
<1> QED
  BY <1>1, <1>5

\* So the sum of a set is that of a smaller one, and one element more.
LEMMA TotalNone ==
  ASSUME NEW f
  PROVE  Total(f, {}) = 0
<1>1. IsSums(f, {}, Sums(f, {}))
  BY SumsExist, FS_EmptySet
<1> QED
  BY <1>1, TotalIsSums DEF IsSums

LEMMA TotalNext ==
  ASSUME NEW f, NEW A, IsFiniteSet(A), A # {}
  PROVE  /\ Element(A) \in A
         /\ Total(f, A) = f[Element(A)] + Total(f, A \ {Element(A)})
<1>1. PICK x, c : x = Element(A) /\ c = A \ {x}
  OBVIOUS
<1>2. x \in A /\ IsFiniteSet(c)
  BY <1>1, ElementIn, FS_RemoveElement
<1>3. IsSums(f, A, Sums(f, A)) /\ IsSums(f, c, Sums(f, c))
  BY <1>2, SumsExist
<1>4. Sums(f, A)[A] = f[x] + Sums(f, A)[c]
  BY <1>1, <1>3 DEF IsSums
<1>5. Sums(f, A)[c] = Sums(f, c)[c]
  BY <1>1, <1>3, SumsUnique
<1> QED
  BY <1>1, <1>2, <1>4, <1>5, TotalIsSums

\* It is a number ...
LEMMA TotalNat ==
  ASSUME NEW T, NEW f \in [T -> Nat], NEW A \in SUBSET T, IsFiniteSet(A)
  PROVE  Total(f, A) \in Nat
<1> DEFINE Fine(s) == Total(f, s) \in Nat
<1> SUFFICES ASSUME ~ Fine(A) PROVE FALSE
  OBVIOUS
<1> HIDE DEF Fine
<1> PICK Bad : Bad = {s \in SUBSET A : ~ Fine(s)}
  OBVIOUS
<1>1. Bad \in SUBSET (SUBSET A) /\ Bad # {}
  OBVIOUS
<1>2. PICK s \in Bad : \A r \in Bad : r \subseteq s => r = s
  BY <1>1, Smallest
<1>3. PICK x, c : x = Element(s) /\ c = s \ {x}
  OBVIOUS
<1>4. s \in SUBSET A /\ IsFiniteSet(s) /\ ~ Fine(s)
  BY <1>2, FS_Subset
<1>5. s # {}
  <2>1. Total(f, {}) = 0
    BY TotalNone
  <2>2. Fine({})
    BY <2>1 DEF Fine
  <2> QED
    BY <1>4, <2>2
<1>6. x \in s /\ Total(f, s) = f[x] + Total(f, c)
  BY <1>3, <1>4, <1>5, TotalNext
<1>7. Fine(c)
  BY <1>2, <1>3, <1>4, <1>6
<1> QED
  BY <1>4, <1>6, <1>7 DEF Fine

\* ... to which each element adds its own value, whichever is taken first.
LEMMA TotalTake ==
  ASSUME NEW T, NEW f \in [T -> Nat], NEW A \in SUBSET T, IsFiniteSet(A),
         NEW x \in A
  PROVE  Total(f, A) = f[x] + Total(f, A \ {x})
<1> DEFINE Fine(s) == \A y \in s : Total(f, s) = f[y] + Total(f, s \ {y})
<1> SUFFICES ASSUME ~ Fine(A) PROVE FALSE
  OBVIOUS
<1> HIDE DEF Fine
<1> PICK Bad : Bad = {s \in SUBSET A : ~ Fine(s)}
  OBVIOUS
<1>1. Bad \in SUBSET (SUBSET A) /\ Bad # {}
  OBVIOUS
<1>2. PICK s \in Bad : \A r \in Bad : r \subseteq s => r = s
  BY <1>1, Smallest
<1>3. s \in SUBSET A /\ IsFiniteSet(s) /\ ~ Fine(s)
  BY <1>2, FS_Subset
<1>4. PICK y \in s : Total(f, s) # f[y] + Total(f, s \ {y})
  BY <1>3 DEF Fine
<1>5. PICK z, c, d, e : z = Element(s) /\ c = s \ {z} /\ d = s \ {y} /\ e = c \ {y}
  OBVIOUS
<1>6. z \in s /\ Total(f, s) = f[z] + Total(f, c)
  BY <1>3, <1>4, <1>5, TotalNext
<1>7. z # y
  BY <1>4, <1>5, <1>6
<1>8. Fine(c) /\ Fine(d)
  BY <1>2, <1>3, <1>5, <1>6
<1>9. Total(f, c) = f[y] + Total(f, e)
  BY <1>4, <1>5, <1>7, <1>8 DEF Fine
<1>10. d \ {z} = e
  BY <1>5
<1>11. Total(f, d) = f[z] + Total(f, e)
  <2>1. z \in d
    BY <1>5, <1>6, <1>7
  <2>2. Total(f, d) = f[z] + Total(f, d \ {z})
    BY <1>8, <2>1 DEF Fine
  <2> QED
    BY <1>10, <2>2
<1>12. Total(f, e) \in Nat /\ f[y] \in Nat /\ f[z] \in Nat
  <2>1. e \in SUBSET T /\ IsFiniteSet(e)
    BY <1>3, <1>5, FS_Subset
  <2> QED
    BY <1>3, <1>6, <2>1, TotalNat
<1>13. Total(f, s) = f[y] + Total(f, d)
  BY <1>6, <1>9, <1>11, <1>12
<1> QED
  BY <1>4, <1>5, <1>13

\* Smaller values make a smaller sum, those outside the set aside.
LEMMA TotalLeq ==
  ASSUME NEW T, NEW f \in [T -> Nat], NEW g \in [T -> Nat], NEW A \in SUBSET T,
         IsFiniteSet(A), \A x \in A : f[x] <= g[x]
  PROVE  Total(f, A) <= Total(g, A)
<1> DEFINE Fine(s) == Total(f, s) <= Total(g, s)
<1> SUFFICES ASSUME ~ Fine(A) PROVE FALSE
  OBVIOUS
<1> HIDE DEF Fine
<1> PICK Bad : Bad = {s \in SUBSET A : ~ Fine(s)}
  OBVIOUS
<1>1. Bad \in SUBSET (SUBSET A) /\ Bad # {}
  OBVIOUS
<1>2. PICK s \in Bad : \A r \in Bad : r \subseteq s => r = s
  BY <1>1, Smallest
<1>3. PICK x, c : x = Element(s) /\ c = s \ {x}
  OBVIOUS
<1>4. s \in SUBSET A /\ IsFiniteSet(s) /\ ~ Fine(s)
  BY <1>2, FS_Subset
<1>5. s # {}
  <2>1. Total(f, {}) = 0 /\ Total(g, {}) = 0
    BY TotalNone
  <2>2. Fine({})
    BY <2>1 DEF Fine
  <2> QED
    BY <1>4, <2>2
<1>6. /\ x \in s
      /\ Total(f, s) = f[x] + Total(f, c)
      /\ Total(g, s) = g[x] + Total(g, c)
  BY <1>3, <1>4, <1>5, TotalNext
<1>7. Fine(c)
  BY <1>2, <1>3, <1>4, <1>6
<1>8. Total(f, c) \in Nat /\ Total(g, c) \in Nat /\ f[x] \in Nat /\ g[x] \in Nat
  <2>1. c \in SUBSET T /\ IsFiniteSet(c)
    BY <1>3, <1>4, FS_Subset
  <2> QED
    BY <1>4, <1>6, <2>1, TotalNat
<1>9. f[x] <= g[x]
  BY <1>4, <1>6
<1> QED
  BY <1>4, <1>6, <1>7, <1>8, <1>9 DEF Fine

\* So does a smaller set.
LEMMA TotalSubset ==
  ASSUME NEW T, NEW f \in [T -> Nat], NEW A \in SUBSET T, IsFiniteSet(A),
         NEW B \in SUBSET A
  PROVE  Total(f, B) <= Total(f, A)
<1> DEFINE Fine(s) == Total(f, s \cap B) <= Total(f, s)
<1> SUFFICES ASSUME ~ Fine(A) PROVE FALSE
  <2>1. A \cap B = B
    OBVIOUS
  <2> QED
    BY <2>1
<1> HIDE DEF Fine
<1> PICK Bad : Bad = {s \in SUBSET A : ~ Fine(s)}
  OBVIOUS
<1>1. Bad \in SUBSET (SUBSET A) /\ Bad # {}
  OBVIOUS
<1>2. PICK s \in Bad : \A r \in Bad : r \subseteq s => r = s
  BY <1>1, Smallest
<1>3. PICK x, c : x = Element(s) /\ c = s \ {x}
  OBVIOUS
<1>4. s \in SUBSET A /\ IsFiniteSet(s) /\ ~ Fine(s)
  BY <1>2, FS_Subset
<1>5. s # {}
  <2>1. Total(f, {}) = 0 /\ {} \cap B = {}
    BY TotalNone
  <2>2. Fine({})
    BY <2>1 DEF Fine
  <2> QED
    BY <1>4, <2>2
<1>6. /\ x \in s
      /\ Total(f, s) = f[x] + Total(f, c)
  BY <1>3, <1>4, <1>5, TotalNext
<1>7. Fine(c)
  BY <1>2, <1>3, <1>4, <1>6
<1>8. PICK d, e : d = s \cap B /\ e = c \cap B
  OBVIOUS
<1>9. /\ d \in SUBSET T /\ IsFiniteSet(d)
      /\ e \in SUBSET T /\ IsFiniteSet(e)
      /\ c \in SUBSET T /\ IsFiniteSet(c)
  BY <1>3, <1>4, <1>8, FS_Subset
<1>10. Total(f, e) \in Nat /\ Total(f, c) \in Nat /\ f[x] \in Nat
  BY <1>4, <1>6, <1>9, TotalNat
<1>11. Total(f, d) = Total(f, e) \/ Total(f, d) = f[x] + Total(f, e)
  <2>1. CASE x \in B
    <3>1. x \in d /\ d \ {x} = e
      BY <1>3, <1>6, <1>8, <2>1
    <3> QED
      BY <1>9, <3>1, TotalTake
  <2>2. CASE x \notin B
    <3>1. d = e
      BY <1>3, <1>8, <2>2
    <3> QED
      BY <3>1
  <2> QED
    BY <2>1, <2>2
<1> QED
  BY <1>4, <1>6, <1>7, <1>8, <1>10, <1>11 DEF Fine

\* Where values are erased, nothing is left to sum.
LEMMA TotalErased ==
  ASSUME NEW T, NEW f \in [T -> Nat], NEW A \in SUBSET T, IsFiniteSet(A), NEW Z,
         NEW g \in [T -> Nat],
         \A x \in A : g[x] = IF x \in Z THEN 0 ELSE f[x]
  PROVE  Total(g, A) = Total(f, A \ Z)
<1> DEFINE Fine(s) == Total(g, s) = Total(f, s \ Z)
<1> SUFFICES ASSUME ~ Fine(A) PROVE FALSE
  OBVIOUS
<1> HIDE DEF Fine
<1> PICK Bad : Bad = {s \in SUBSET A : ~ Fine(s)}
  OBVIOUS
<1>1. Bad \in SUBSET (SUBSET A) /\ Bad # {}
  OBVIOUS
<1>2. PICK s \in Bad : \A r \in Bad : r \subseteq s => r = s
  BY <1>1, Smallest
<1>3. PICK x, c, d, e : x = Element(s) /\ c = s \ {x} /\ d = s \ Z /\ e = c \ Z
  OBVIOUS
<1>4. s \in SUBSET A /\ IsFiniteSet(s) /\ ~ Fine(s)
  BY <1>2, FS_Subset
<1>5. s # {}
  <2>1. Total(f, {}) = 0 /\ Total(g, {}) = 0 /\ {} \ Z = {}
    BY TotalNone
  <2>2. Fine({})
    BY <2>1 DEF Fine
  <2> QED
    BY <1>4, <2>2
<1>6. x \in s /\ Total(g, s) = g[x] + Total(g, c)
  BY <1>3, <1>4, <1>5, TotalNext
<1>7. Total(g, c) = Total(f, e)
  <2>1. Fine(c)
    BY <1>2, <1>3, <1>4, <1>6
  <2> QED
    BY <1>3, <2>1 DEF Fine
<1>8. /\ d \in SUBSET T /\ IsFiniteSet(d)
      /\ e \in SUBSET T /\ IsFiniteSet(e)
  BY <1>3, <1>4, FS_Subset
<1>9. Total(f, e) \in Nat
  BY <1>8, TotalNat
<1>10. Total(f, d) = g[x] + Total(f, e)
  <2>1. CASE x \in Z
    <3>1. d = e /\ g[x] = 0
      BY <1>3, <1>4, <1>6, <2>1
    <3> QED
      BY <1>9, <3>1
  <2>2. CASE x \notin Z
    <3>1. x \in d /\ d \ {x} = e /\ g[x] = f[x]
      BY <1>3, <1>4, <1>6, <2>2
    <3> QED
      BY <1>8, <3>1, TotalTake
  <2> QED
    BY <2>1, <2>2
<1>11. Total(g, s) = Total(f, d)
  BY <1>6, <1>7, <1>10
<1> QED
  BY <1>3, <1>4, <1>11 DEF Fine

\* One more somewhere is one more in the sums over it.
LEMMA TotalRaised ==
  ASSUME NEW T, NEW f \in [T -> Nat], NEW A \in SUBSET T, IsFiniteSet(A), NEW t \in T,
         NEW g \in [T -> Nat], g[t] = f[t] + 1, \A x \in T \ {t} : g[x] = f[x]
  PROVE  Total(g, A) = Total(f, A) + IF t \in A THEN 1 ELSE 0
<1>1. PICK c \in SUBSET T : c = A \ {t}
  OBVIOUS
<1>2. IsFiniteSet(c)
  BY <1>1, FS_Subset
<1>3. g[t] = f[t] + 1 /\ \A x \in c : g[x] <= f[x] /\ f[x] <= g[x]
  BY <1>1
<1>4. /\ Total(g, c) \in Nat /\ Total(f, c) \in Nat /\ Total(f, A) \in Nat
      /\ f[t] \in Nat
  BY <1>2, TotalNat
<1>5. Total(g, c) = Total(f, c)
  <2>1. Total(g, c) <= Total(f, c) /\ Total(f, c) <= Total(g, c)
    BY <1>2, <1>3, TotalLeq
  <2> QED
    BY <1>4, <2>1
<1>6. CASE t \in A
  <2>1. Total(f, A) = f[t] + Total(f, c)
    BY <1>1, <1>6, TotalTake
  <2>2. Total(g, A) = g[t] + Total(g, c)
    BY <1>1, <1>6, TotalTake
  <2> QED
    BY <1>3, <1>4, <1>5, <1>6, <2>1, <2>2
<1>7. CASE t \notin A
  <2>1. A = c
    BY <1>1, <1>7
  <2> QED
    BY <1>4, <1>5, <1>7, <2>1
<1> QED
  BY <1>6, <1>7

-----------------------------------------------------------------------------
(* The lockout *)

\* Requests of u, stamped within A, that are to record their failed attempt.
Failing(u, A) ==
  {w \in Workers : At(w, "failing") /\ work[w].user = u /\ work[w].stamp \in A}

\* Whatever part of the clock is looked at: each wrong password that was
\* compared then has its attempt counted, or will have, or was lost.
Counted ==
  \A u \in Users, A \in SUBSET Times :
     Total(guesses[u], A)
       <= Total(failures[u], A) + Cardinality(Failing(u, A)) + lost[u]

\* What is summed up and counted are numbers.
LEMMA Numbers ==
  ASSUME Env, NEW u \in Users, NEW A \in SUBSET Times
  PROVE  /\ guesses[u] \in [Times -> Nat] /\ failures[u] \in [Times -> Nat]
         /\ IsFiniteSet(A)
         /\ Total(guesses[u], A) \in Nat /\ Total(failures[u], A) \in Nat
         /\ lost[u] \in Nat
         /\ IsFiniteSet(Failing(u, A)) /\ Cardinality(Failing(u, A)) \in Nat
<1>1. guesses[u] \in [Times -> Nat] /\ failures[u] \in [Times -> Nat] /\ lost[u] \in Nat
  BY DEF Env
<1>2. IsFiniteSet(A)
  <2>1. IsFiniteSet(Times)
    BY FS_Interval, LoginAssumption DEF Times
  <2> QED
    BY <2>1, FS_Subset
<1>3. IsFiniteSet(Failing(u, A))
  BY FS_Subset, LoginAssumption DEF Failing
<1> QED
  BY <1>1, <1>2, <1>3, TotalNat, FS_CardinalityType

LEMMA NumbersNext ==
  ASSUME Env', NEW u \in Users, NEW A \in SUBSET Times
  PROVE  /\ guesses'[u] \in [Times -> Nat] /\ failures'[u] \in [Times -> Nat]
         /\ Total(guesses'[u], A) \in Nat /\ Total(failures'[u], A) \in Nat
         /\ lost'[u] \in Nat
         /\ IsFiniteSet(Failing(u, A)') /\ Cardinality(Failing(u, A)') \in Nat
<1>1. /\ guesses'[u] \in [Times -> Nat] /\ failures'[u] \in [Times -> Nat]
      /\ lost'[u] \in Nat
  BY DEF Env
<1>2. IsFiniteSet(A)
  <2>1. IsFiniteSet(Times)
    BY FS_Interval, LoginAssumption DEF Times
  <2> QED
    BY <2>1, FS_Subset
<1>3. IsFiniteSet(Failing(u, A)')
  BY FS_Subset, LoginAssumption DEF Failing
<1> QED
  BY <1>1, <1>2, <1>3, TotalNat, FS_CardinalityType

\* The windows the bound is about, and the one the lockout looks at.
Span(a) == {t \in Times : a <= t /\ t <= a + Window}

Since(stamp) == {t \in Times : t + Window >= stamp}

LEMMA WindowSums ==
  ASSUME NEW u, NEW a
  PROVE  /\ GuessesFrom(u, a) = Total(guesses[u], Span(a))
         /\ Recent(u, a) = Total(failures[u], Since(a))
  BY DEF GuessesFrom, Recent, Sum, Total, Span, Since

LEMMA WindowSumsNext ==
  ASSUME NEW u, NEW a
  PROVE  (GuessesFrom(u, a) = Total(guesses[u], Span(a)))'
<1>1. GuessesFrom(u, a) = Total(guesses[u], Span(a))
  BY WindowSums
<1> QED
  BY <1>1, PTL

\* Neither is more guessed, nor are attempts forgotten: the bound stays.
LEMMA SameBound ==
  ASSUME Right, Right', GuessBound, guesses' = guesses,
         \A u \in Users : lost'[u] >= lost[u]
  PROVE  GuessBound'
<1> SUFFICES ASSUME NEW u \in Users, NEW a \in Times
             PROVE  (GuessesFrom(u, a) <= Threshold + Cardinality(Workers) - 1 + lost[u])'
  BY DEF GuessBound
<1>1. GuessesFrom(u, a)' = GuessesFrom(u, a)
  BY WindowSums, WindowSumsNext
<1>2. GuessesFrom(u, a) <= Threshold + Cardinality(Workers) - 1 + lost[u]
  BY DEF GuessBound
<1>3. GuessesFrom(u, a) \in Nat
  <2>1. Span(a) \in SUBSET Times
    BY DEF Span
  <2> QED
    BY <2>1, RightParts, Numbers, WindowSums
<1>4. /\ Threshold \in Nat /\ Cardinality(Workers) \in Nat
      /\ lost[u] \in Nat /\ lost'[u] \in Nat /\ lost'[u] >= lost[u]
  BY RightParts, RightPartsNext, LoginAssumption, FS_CardinalityType DEF Env
<1> QED
  BY <1>1, <1>2, <1>3, <1>4

\* A step that no request on its way to record a failure takes part in.
LEMMA QuietCounted ==
  ASSUME Right, Right', Counted, GuessBound, guesses' = guesses, failures' = failures,
         \A u \in Users : lost'[u] >= lost[u],
         \A v \in Workers : work[v].pc = "failing" => work'[v] = work[v]
  PROVE  Counted' /\ GuessBound'
<1>1. Env /\ Env'
  BY RightParts, RightPartsNext
<1>2. ASSUME NEW u \in Users, NEW A \in SUBSET Times
      PROVE  Total(guesses'[u], A)
               <= Total(failures'[u], A) + Cardinality(Failing(u, A)') + lost'[u]
  <2>1. Failing(u, A) \subseteq Failing(u, A)'
    BY DEF Failing, At
  <2>2. PICK g, f, c, d, l, m :
          /\ g = Total(guesses[u], A) /\ f = Total(failures[u], A)
          /\ c = Cardinality(Failing(u, A)) /\ d = Cardinality(Failing(u, A)')
          /\ l = lost[u] /\ m = lost'[u]
    OBVIOUS
  <2>3. /\ g \in Nat /\ f \in Nat /\ c \in Nat /\ d \in Nat /\ l \in Nat /\ m \in Nat
        /\ IsFiniteSet(Failing(u, A)')
    BY <1>1, <2>2, Numbers, NumbersNext
  <2>4. c <= d
    BY <2>1, <2>2, <2>3, FS_Subset
  <2>5. g <= f + c + l
    BY <2>2 DEF Counted
  <2>6. m >= l
    BY <2>2
  <2>7. g <= f + d + m
    BY <2>3, <2>4, <2>5, <2>6
  <2> QED
    BY <2>2, <2>7
<1> QED
  BY <1>2, SameBound DEF Counted

\* The bound, as sums over windows.
LEMMA BoundNext ==
  ASSUME \A u \in Users, a \in Times :
            Total(guesses'[u], Span(a)) <= Threshold + Cardinality(Workers) - 1 + lost'[u]
  PROVE  GuessBound'
<1> SUFFICES ASSUME NEW u \in Users, NEW a \in Times
             PROVE  (GuessesFrom(u, a) <= Threshold + Cardinality(Workers) - 1 + lost[u])'
  BY DEF GuessBound
<1> QED
  BY WindowSumsNext

\* No request that is to record its attempt fails or records it.
LEMMA OneQuietCounted ==
  ASSUME Right, Right', Counted, GuessBound, guesses' = guesses, failures' = failures,
         lost' = lost, NEW w \in Workers, work[w].pc # "failing",
         \A v \in Workers \ {w} : work'[v] = work[v]
  PROVE  Counted' /\ GuessBound'
<1>1. \A u \in Users : lost'[u] >= lost[u]
  BY RightParts DEF Env
<1>2. \A v \in Workers : work[v].pc = "failing" => work'[v] = work[v]
  OBVIOUS
<1> QED
  BY <1>1, <1>2, QuietCounted

LEMMA StillCounted ==
  ASSUME Right, Right', Counted, GuessBound, guesses' = guesses, failures' = failures,
         lost' = lost, work' = work
  PROVE  Counted' /\ GuessBound'
<1>1. \A u \in Users : lost'[u] >= lost[u]
  BY RightParts DEF Env
<1>2. \A v \in Workers : work[v].pc = "failing" => work'[v] = work[v]
  OBVIOUS
<1> QED
  BY <1>1, <1>2, QuietCounted

\* A wrong password is compared: its attempt is to be recorded.
LEMMA WrongCounted ==
  ASSUME Right, Right', Counted, GuessBound, NEW w \in Workers,
         work[w] \in LoginJob, work[w].pc = "read",
         To(w, "failing"), failures' = failures, lost' = lost,
         guesses' = [guesses EXCEPT ![work[w].user][work[w].stamp] = @ + 1],
         ~ Recent(work[w].user, work[w].stamp) >= Threshold
  PROVE  Counted' /\ GuessBound'
<1> DEFINE n == work[w].user
           t == work[w].stamp
           Into(u, A) == u = n /\ t \in A
<1>1. /\ Env /\ Env' /\ work \in [Workers -> Jobs]
      /\ n \in Users /\ t \in Times
  BY RightParts, RightPartsNext, LoginFields
<1>2. /\ work'[w] = [work[w] EXCEPT !.pc = "failing"]
      /\ \A v \in Workers \ {w} : work'[v] = work[v]
  BY <1>1 DEF To
<1>3. work'[w].pc = "failing" /\ work'[w].user = n /\ work'[w].stamp = t
  BY <1>2 DEF LoginJob
<1>4. \A u \in Users : u # n => guesses'[u] = guesses[u]
  BY <1>1 DEF Env
<1>5. guesses'[n] = [guesses[n] EXCEPT ![t] = @ + 1]
  BY <1>1 DEF Env
<1>6. ASSUME NEW u \in Users, NEW A \in SUBSET Times
      PROVE  Total(guesses'[u], A) = Total(guesses[u], A) + IF Into(u, A) THEN 1 ELSE 0
  <2>1. /\ guesses[u] \in [Times -> Nat] /\ guesses'[u] \in [Times -> Nat]
        /\ IsFiniteSet(A) /\ Total(guesses[u], A) \in Nat
    BY <1>1, Numbers, NumbersNext
  <2>2. CASE u = n
    <3>1. guesses'[u][t] = guesses[u][t] + 1
      BY <1>1, <1>5, <2>1, <2>2
    <3>2. \A x \in Times \ {t} : guesses'[u][x] = guesses[u][x]
      BY <1>1, <1>5, <2>1, <2>2
    <3>3. Total(guesses'[u], A) = Total(guesses[u], A) + IF t \in A THEN 1 ELSE 0
      BY <1>1, <2>1, <3>1, <3>2, TotalRaised
    <3> QED
      BY <2>2, <3>3
  <2>3. CASE u # n
    BY <1>4, <2>1, <2>3
  <2> QED
    BY <2>2, <2>3
<1>7. ASSUME NEW u \in Users, NEW A \in SUBSET Times
      PROVE  /\ w \notin Failing(u, A)
             /\ Failing(u, A)' = IF Into(u, A) THEN Failing(u, A) \cup {w} ELSE Failing(u, A)
  BY <1>2, <1>3 DEF Failing, At
<1>8. ASSUME NEW u \in Users, NEW A \in SUBSET Times
      PROVE  Cardinality(Failing(u, A)')
               = Cardinality(Failing(u, A)) + IF Into(u, A) THEN 1 ELSE 0
  <2>1. IsFiniteSet(Failing(u, A)) /\ Cardinality(Failing(u, A)) \in Nat
    BY <1>1, Numbers
  <2>2. Cardinality(Failing(u, A) \cup {w}) = Cardinality(Failing(u, A)) + 1
    BY <1>7, <2>1, FS_AddElement
  <2>3. CASE Into(u, A)
    BY <1>7, <2>2, <2>3
  <2>4. CASE ~ Into(u, A)
    BY <1>7, <2>1, <2>4
  <2> QED
    BY <2>3, <2>4
<1>9. ASSUME NEW u \in Users, NEW A \in SUBSET Times
      PROVE  Total(guesses'[u], A)
               <= Total(failures'[u], A) + Cardinality(Failing(u, A)') + lost'[u]
  <2>1. PICK g, f, c, l, d :
          /\ g = Total(guesses[u], A) /\ f = Total(failures[u], A)
          /\ c = Cardinality(Failing(u, A)) /\ l = lost[u]
          /\ d = IF Into(u, A) THEN 1 ELSE 0
    OBVIOUS
  <2>2. g \in Nat /\ f \in Nat /\ c \in Nat /\ l \in Nat /\ d \in Nat
    BY <1>1, <2>1, Numbers
  <2>3. g <= f + c + l
    BY <2>1 DEF Counted
  <2>4. Total(guesses'[u], A) = g + d
    BY <1>6, <2>1
  <2>5. Cardinality(Failing(u, A)') = c + d
    BY <1>8, <2>1
  <2>6. g + d <= f + (c + d) + l
    BY <2>2, <2>3
  <2> QED
    BY <2>1, <2>4, <2>5, <2>6
<1>10. Counted'
  BY <1>9 DEF Counted
<1>11. ASSUME NEW u \in Users, NEW a \in Times
       PROVE  Total(guesses'[u], Span(a)) <= Threshold + Cardinality(Workers) - 1 + lost'[u]
  <2>1. PICK A : A = Span(a)
    OBVIOUS
  <2>2. A \in SUBSET Times
    BY <2>1 DEF Span
  <2>3. PICK g, f, c, l, k :
          /\ g = Total(guesses[u], A) /\ f = Total(failures[u], A)
          /\ c = Cardinality(Failing(u, A)) /\ l = lost[u] /\ k = Cardinality(Workers)
    OBVIOUS
  <2>4. /\ g \in Nat /\ f \in Nat /\ c \in Nat /\ l \in Nat /\ k \in Nat
        /\ Threshold \in Nat
    BY <1>1, <2>2, <2>3, Numbers, LoginAssumption, FS_CardinalityType
  <2>5. CASE Into(u, A)
    <3>1. Span(a) \subseteq Since(t)
      <4> SUFFICES ASSUME NEW s \in Span(a) PROVE s \in Since(t)
        OBVIOUS
      <4>1. s \in Nat /\ t \in Nat /\ a \in Nat /\ Window \in Nat
        BY <1>1, LoginAssumption DEF Span, Times
      <4>2. a <= s /\ t <= a + Window /\ s \in Times
        BY <2>1, <2>5 DEF Span
      <4> QED
        BY <4>1, <4>2 DEF Since
    <3>2. Since(t) \in SUBSET Times
      BY DEF Since
    <3>3. PICK r : r = Total(failures[u], Since(t))
      OBVIOUS
    <3>4. r \in Nat /\ r < Threshold
      <4>1. Recent(n, t) = r
        BY <2>5, <3>3, WindowSums
      <4>2. r \in Nat
        BY <1>1, <3>2, <3>3, Numbers
      <4>3. ~ r >= Threshold
        BY <4>1
      <4> QED
        BY <2>4, <4>2, <4>3
    <3>5. f <= r
      <4>1. IsFiniteSet(Since(t)) /\ failures[u] \in [Times -> Nat]
        BY <1>1, <3>2, Numbers
      <4>2. Total(failures[u], Span(a)) <= Total(failures[u], Since(t))
        BY <3>1, <3>2, <4>1, TotalSubset
      <4> QED
        BY <2>1, <2>3, <3>3, <4>2
    <3>6. c + 1 <= k
      <4>1. Failing(u, A)' \subseteq Workers
        BY DEF Failing
      <4>2. Cardinality(Failing(u, A)') <= k
        BY <2>3, <4>1, FS_Subset, LoginAssumption
      <4>3. Cardinality(Failing(u, A)') = c + 1
        BY <1>8, <2>2, <2>3, <2>5
      <4> QED
        BY <4>2, <4>3
    <3>7. g <= f + c + l
      BY <2>2, <2>3 DEF Counted
    <3>8. g + 1 <= Threshold + k - 1 + l
      BY <2>4, <3>4, <3>5, <3>6, <3>7
    <3>9. Total(guesses'[u], A) = g + 1
      BY <1>6, <2>2, <2>3, <2>5
    <3> QED
      BY <2>1, <2>3, <3>8, <3>9
  <2>6. CASE ~ Into(u, A)
    <3>1. Total(guesses'[u], A) = g + 0
      BY <1>6, <2>2, <2>3, <2>6
    <3>2. g <= Threshold + k - 1 + l
      <4>1. GuessesFrom(u, a) <= Threshold + k - 1 + l
        BY <2>3 DEF GuessBound
      <4>2. GuessesFrom(u, a) = g
        BY <2>1, <2>3, WindowSums
      <4> QED
        BY <4>1, <4>2
    <3> QED
      BY <2>1, <2>3, <2>4, <3>1, <3>2
  <2> QED
    BY <2>5, <2>6
<1>12. GuessBound'
  BY <1>11, BoundNext
<1> QED
  BY <1>10, <1>12

\* An attempt is recorded: the request no longer counts for it, the row does.
LEMMA RecordedCounted ==
  ASSUME Right, Right', Counted, GuessBound, NEW w \in Workers, RecordFailure(w)
  PROVE  Counted' /\ GuessBound'
<1> DEFINE n == work[w].user
           t == work[w].stamp
           Into(u, A) == u = n /\ t \in A
<1>1. /\ Env /\ Env' /\ work \in [Workers -> Jobs]
      /\ work[w].pc = "failing" /\ work[w] \in LoginJob
      /\ failures' = [failures EXCEPT ![n][t] = @ + 1] /\ End(w)
      /\ guesses' = guesses /\ lost' = lost
  BY RightParts, RightPartsNext, Doing DEF RecordFailure, At, LoginPcs
<1>2. n \in Users /\ t \in Times
  BY <1>1, LoginFields
<1>3. work'[w].pc = "idle" /\ \A v \in Workers \ {w} : work'[v] = work[v]
  BY <1>1 DEF End, Idle
<1>4. \A u \in Users : u # n => failures'[u] = failures[u]
  BY <1>1 DEF Env
<1>5. failures'[n] = [failures[n] EXCEPT ![t] = @ + 1]
  BY <1>1, <1>2 DEF Env
<1>6. ASSUME NEW u \in Users, NEW A \in SUBSET Times
      PROVE  Total(failures'[u], A) = Total(failures[u], A) + IF Into(u, A) THEN 1 ELSE 0
  <2>1. /\ failures[u] \in [Times -> Nat] /\ failures'[u] \in [Times -> Nat]
        /\ IsFiniteSet(A) /\ Total(failures[u], A) \in Nat
    BY <1>1, Numbers, NumbersNext
  <2>2. CASE u = n
    <3>1. failures'[u][t] = failures[u][t] + 1
      BY <1>2, <1>5, <2>1, <2>2
    <3>2. \A x \in Times \ {t} : failures'[u][x] = failures[u][x]
      BY <1>2, <1>5, <2>1, <2>2
    <3>3. Total(failures'[u], A) = Total(failures[u], A) + IF t \in A THEN 1 ELSE 0
      BY <1>2, <2>1, <3>1, <3>2, TotalRaised
    <3> QED
      BY <2>2, <3>3
  <2>3. CASE u # n
    BY <1>4, <2>1, <2>3
  <2> QED
    BY <2>2, <2>3
<1>7. ASSUME NEW u \in Users, NEW A \in SUBSET Times
      PROVE  /\ w \in Failing(u, A) <=> Into(u, A)
             /\ Failing(u, A)' = Failing(u, A) \ {w}
  BY <1>1, <1>3 DEF Failing, At
<1>8. ASSUME NEW u \in Users, NEW A \in SUBSET Times
      PROVE  Cardinality(Failing(u, A)')
               = Cardinality(Failing(u, A)) - IF Into(u, A) THEN 1 ELSE 0
  <2>1. IsFiniteSet(Failing(u, A)) /\ Cardinality(Failing(u, A)) \in Nat
    BY <1>1, Numbers
  <2>2. CASE Into(u, A)
    <3>1. Cardinality(Failing(u, A) \ {w}) = Cardinality(Failing(u, A)) - 1
      BY <1>7, <2>1, <2>2, FS_RemoveElement
    <3> QED
      BY <1>7, <2>2, <3>1
  <2>3. CASE ~ Into(u, A)
    <3>1. Failing(u, A)' = Failing(u, A)
      BY <1>7, <2>3
    <3> QED
      BY <2>1, <2>3, <3>1
  <2> QED
    BY <2>2, <2>3
<1>9. ASSUME NEW u \in Users, NEW A \in SUBSET Times
      PROVE  Total(guesses'[u], A)
               <= Total(failures'[u], A) + Cardinality(Failing(u, A)') + lost'[u]
  <2>1. PICK g, f, c, l, d :
          /\ g = Total(guesses[u], A) /\ f = Total(failures[u], A)
          /\ c = Cardinality(Failing(u, A)) /\ l = lost[u]
          /\ d = IF Into(u, A) THEN 1 ELSE 0
    OBVIOUS
  <2>2. g \in Nat /\ f \in Nat /\ c \in Nat /\ l \in Nat /\ d \in Nat
    BY <1>1, <2>1, Numbers
  <2>3. g <= f + c + l
    BY <2>1 DEF Counted
  <2>4. Total(failures'[u], A) = f + d
    BY <1>6, <2>1
  <2>5. Cardinality(Failing(u, A)') = c - d
    BY <1>8, <2>1
  <2>6. g <= (f + d) + (c - d) + l
    BY <2>2, <2>3
  <2>7. guesses' = guesses /\ lost' = lost
    BY <1>1
  <2> QED
    BY <2>1, <2>4, <2>5, <2>6, <2>7
<1>10. \A u \in Users : lost'[u] >= lost[u]
  BY <1>1 DEF Env
<1> QED
  BY <1>1, <1>9, <1>10, SameBound DEF Counted

\* The failures of the window are forgotten, and so are the guesses.
LEMMA ForgottenCounted ==
  ASSUME Right, Right', Counted, GuessBound, NEW w \in Workers, ForgetFailures(w)
  PROVE  Counted' /\ GuessBound'
<1> DEFINE n == work[w].user
           Z == {t \in Times : t + Window >= now}
<1>1. /\ Env /\ Env' /\ work \in [Workers -> Jobs]
      /\ work[w].pc = "unlocked" /\ work[w] \in UnlockJob /\ n \in Users
      /\ End(w) /\ lost' = lost
      /\ failures' = [failures EXCEPT ![n] =
                        [t \in Times |-> IF t + Window >= now THEN 0 ELSE failures[n][t]]]
      /\ guesses' = [guesses EXCEPT ![n] =
                        [t \in Times |-> IF t + Window >= now THEN 0 ELSE guesses[n][t]]]
  BY RightParts, RightPartsNext, Doing DEF ForgetFailures, At, UnlockJob
<1>2. work'[w].pc = "idle" /\ \A v \in Workers \ {w} : work'[v] = work[v]
  BY <1>1 DEF End, Idle
<1>3. \A u \in Users : u # n => failures'[u] = failures[u] /\ guesses'[u] = guesses[u]
  BY <1>1 DEF Env
<1>4. /\ failures'[n] =
            [t \in Times |-> IF t + Window >= now THEN 0 ELSE failures[n][t]]
      /\ guesses'[n] =
            [t \in Times |-> IF t + Window >= now THEN 0 ELSE guesses[n][t]]
  BY <1>1 DEF Env
<1>5. ASSUME NEW u \in Users, NEW A \in SUBSET Times
      PROVE  Failing(u, A)' = Failing(u, A)
  BY <1>1, <1>2 DEF Failing, At
<1>6. ASSUME NEW A \in SUBSET Times
      PROVE  /\ Total(guesses'[n], A) = Total(guesses[n], A \ Z)
             /\ Total(failures'[n], A) = Total(failures[n], A \ Z)
  <2>1. /\ guesses[n] \in [Times -> Nat] /\ failures[n] \in [Times -> Nat]
        /\ IsFiniteSet(A)
        /\ guesses'[n] \in [Times -> Nat] /\ failures'[n] \in [Times -> Nat]
    BY <1>1, Numbers, NumbersNext
  <2>2. \A x \in A : guesses'[n][x] = IF x \in Z THEN 0 ELSE guesses[n][x]
    BY <1>4
  <2>3. \A x \in A : failures'[n][x] = IF x \in Z THEN 0 ELSE failures[n][x]
    BY <1>4
  <2> HIDE DEF Z, n
  <2>4. PICK z, f, g : z = Z /\ f = guesses[n] /\ g = guesses'[n]
    OBVIOUS
  <2>5. PICK r, q : r = failures[n] /\ q = failures'[n]
    OBVIOUS
  <2>6. Total(g, A) = Total(f, A \ z)
    <3>1. /\ f \in [Times -> Nat] /\ g \in [Times -> Nat] /\ IsFiniteSet(A)
          /\ \A x \in A : g[x] = IF x \in z THEN 0 ELSE f[x]
      BY <2>1, <2>2, <2>4
    <3> QED
      BY <3>1, TotalErased
  <2>7. Total(q, A) = Total(r, A \ z)
    <3>1. /\ r \in [Times -> Nat] /\ q \in [Times -> Nat] /\ IsFiniteSet(A)
          /\ \A x \in A : q[x] = IF x \in z THEN 0 ELSE r[x]
      BY <2>1, <2>3, <2>4, <2>5
    <3> QED
      BY <3>1, TotalErased
  <2> QED
    BY <2>4, <2>5, <2>6, <2>7
<1> HIDE DEF Z
<1>7. ASSUME NEW u \in Users, NEW A \in SUBSET Times
      PROVE  Total(guesses'[u], A)
               <= Total(failures'[u], A) + Cardinality(Failing(u, A)') + lost'[u]
  <2>1. CASE u # n
    BY <1>1, <1>3, <1>5, <2>1 DEF Counted
  <2>2. CASE u = n
    <3>1. A \ Z \in SUBSET Times /\ Failing(u, A \ Z) \subseteq Failing(u, A)
      BY DEF Failing
    <3>2. PICK g, f, c, d, l :
            /\ g = Total(guesses[u], A \ Z) /\ f = Total(failures[u], A \ Z)
            /\ c = Cardinality(Failing(u, A \ Z)) /\ d = Cardinality(Failing(u, A))
            /\ l = lost[u]
      OBVIOUS
    <3>3. g \in Nat /\ f \in Nat /\ c \in Nat /\ l \in Nat
      BY <1>1, <3>1, <3>2, Numbers
    <3>4. d \in Nat /\ IsFiniteSet(Failing(u, A))
      BY <1>1, <3>2, Numbers
    <3>5. c <= d
      BY <3>1, <3>2, <3>4, FS_Subset
    <3>6. g <= f + c + l
      BY <3>1, <3>2 DEF Counted
    <3>7. g <= f + d + l
      BY <3>3, <3>4, <3>5, <3>6
    <3>8. Total(guesses'[u], A) = g /\ Total(failures'[u], A) = f
      BY <1>6, <2>2, <3>2
    <3>9. Cardinality(Failing(u, A)') = d /\ lost'[u] = l
      BY <1>1, <1>5, <3>2
    <3> QED
      BY <3>7, <3>8, <3>9
  <2> QED
    BY <2>1, <2>2
<1>8. Counted'
  BY <1>7 DEF Counted
<1>9. ASSUME NEW u \in Users, NEW a \in Times
      PROVE  Total(guesses'[u], Span(a)) <= Threshold + Cardinality(Workers) - 1 + lost'[u]
  <2>1. PICK A : A = Span(a)
    OBVIOUS
  <2>2. A \in SUBSET Times
    BY <2>1 DEF Span
  <2>3. PICK g, h, l, k :
          /\ g = Total(guesses[u], A) /\ h = Total(guesses'[u], A)
          /\ l = lost[u] /\ k = Cardinality(Workers)
    OBVIOUS
  <2>4. g \in Nat /\ l \in Nat /\ k \in Nat /\ Threshold \in Nat
    BY <1>1, <2>2, <2>3, Numbers, LoginAssumption, FS_CardinalityType
  <2>5. h \in Nat
    BY <1>1, <2>2, <2>3, NumbersNext
  <2>6. h <= g
    <3>1. CASE u = n
      <4>1. h = Total(guesses[u], A \ Z)
        BY <1>6, <2>2, <2>3, <3>1
      <4>2. guesses[u] \in [Times -> Nat] /\ IsFiniteSet(A) /\ A \ Z \in SUBSET A
        BY <1>1, <2>2, Numbers
      <4> QED
        BY <2>2, <2>3, <4>1, <4>2, TotalSubset
    <3>2. CASE u # n
      BY <1>3, <2>3, <2>4, <3>2
    <3> QED
      BY <3>1, <3>2
  <2>7. GuessesFrom(u, a) <= Threshold + k - 1 + l
    BY <2>3 DEF GuessBound
  <2>8. GuessesFrom(u, a) = g
    BY <2>1, <2>3, WindowSums
  <2>9. h <= Threshold + k - 1 + l
    BY <2>4, <2>5, <2>6, <2>7, <2>8
  <2> QED
    BY <1>1, <2>1, <2>3, <2>9
<1> QED
  BY <1>8, <1>9, BoundNext

\* A request fails: if it was to record an attempt, that is lost.
LEMMA StopCounted ==
  ASSUME Right, Right', Counted, GuessBound, NEW w \in Workers, Stop(w)
  PROVE  Counted' /\ GuessBound'
<1>1. /\ Env /\ Env' /\ work \in [Workers -> Jobs] /\ End(w)
      /\ guesses' = guesses /\ failures' = failures
      /\ lost' = IF work[w] \in LoginJob THEN [lost EXCEPT ![work[w].user] = @ + 1] ELSE lost
  BY RightParts, RightPartsNext DEF Stop
<1>2. work'[w].pc = "idle" /\ \A v \in Workers \ {w} : work'[v] = work[v]
  BY <1>1 DEF End, Idle
<1>3. \A u \in Users : lost[u] \in Nat /\ lost'[u] \in Nat
  BY <1>1 DEF Env
<1>4. CASE work[w].pc = "failing"
  <2>1. work[w] \in LoginJob /\ work[w].user \in Users
    BY <1>4, Doing, LoginFields DEF LoginPcs
  <2>2. \A u \in Users : lost'[u] = IF u = work[w].user THEN lost[u] + 1 ELSE lost[u]
    BY <1>1, <2>1 DEF Env
  <2>3. \A u \in Users : lost'[u] >= lost[u]
    BY <1>3, <2>2
  <2>4. ASSUME NEW u \in Users, NEW A \in SUBSET Times
        PROVE  Total(guesses'[u], A)
                 <= Total(failures'[u], A) + Cardinality(Failing(u, A)') + lost'[u]
    <3>1. Failing(u, A)' = Failing(u, A) \ {w}
      BY <1>2 DEF Failing, At
    <3>2. PICK g, f, c, d, l :
            /\ g = Total(guesses[u], A) /\ f = Total(failures[u], A)
            /\ c = Cardinality(Failing(u, A)) /\ d = Cardinality(Failing(u, A)')
            /\ l = lost[u]
      OBVIOUS
    <3>3. g \in Nat /\ f \in Nat /\ c \in Nat /\ l \in Nat /\ IsFiniteSet(Failing(u, A))
      BY <1>1, <3>2, Numbers
    <3>4. d \in Nat
      BY <1>1, <3>2, NumbersNext
    <3>5. g <= f + c + l
      BY <3>2 DEF Counted
    <3>6. CASE u = work[w].user
      <4>1. d >= c - 1
        <5>1. \/ Cardinality(Failing(u, A) \ {w}) = c - 1
              \/ Cardinality(Failing(u, A) \ {w}) = c
          BY <3>2, <3>3, FS_RemoveElement
        <5> QED
          BY <3>1, <3>2, <3>3, <5>1
      <4>2. lost'[u] = l + 1
        BY <2>2, <3>2, <3>6
      <4>3. g <= f + d + (l + 1)
        BY <3>3, <3>4, <3>5, <4>1
      <4> QED
        BY <1>1, <3>2, <4>2, <4>3
    <3>7. CASE u # work[w].user
      <4>1. w \notin Failing(u, A)
        BY <3>7 DEF Failing
      <4>2. d = c /\ lost'[u] = l
        BY <2>2, <3>1, <3>2, <3>7, <4>1
      <4> QED
        BY <1>1, <3>2, <3>5, <4>2
    <3> QED
      BY <3>6, <3>7
  <2> QED
    BY <1>1, <2>3, <2>4, SameBound DEF Counted
<1>5. CASE work[w].pc # "failing"
  <2>1. \A u \in Users : lost'[u] >= lost[u]
    <3>1. CASE work[w] \in LoginJob
      <4>1. work[w].user \in Users
        BY <3>1, LoginFields
      <4>2. \A u \in Users : lost'[u] = IF u = work[w].user THEN lost[u] + 1 ELSE lost[u]
        BY <1>1, <3>1, <4>1 DEF Env
      <4> QED
        BY <1>3, <4>2
    <3>2. CASE work[w] \notin LoginJob
      BY <1>1, <1>3, <3>2
    <3> QED
      BY <3>1, <3>2
  <2>2. \A v \in Workers : work[v].pc = "failing" => work'[v] = work[v]
    BY <1>2, <1>5
  <2> QED
    BY <1>1, <2>1, <2>2, QuietCounted
<1> QED
  BY <1>4, <1>5

LEMMA LoginCounted ==
  ASSUME Right, Right', Counted, GuessBound, NEW w \in Workers, LoginStep(w)
  PROVE  Counted' /\ GuessBound'
<1>1. \A v \in Workers \ {w} : work'[v] = work[v]
  BY LoginShape
<1>2. CASE Decide(w)
  <2> DEFINE j == work[w]
             locked == j.seen.until > j.stamp
             full == Recent(j.user, j.stamp) >= Threshold
  <2>1. /\ j \in LoginJob /\ j.pc = "read" /\ failures' = failures /\ lost' = lost
    BY <1>2, Doing DEF Decide, At, LoginPcs
  <2>2. CASE ~ locked /\ ~ full /\ j.seen.active /\ ~ j.right
    <3>1. /\ To(w, "failing")
          /\ guesses' = [guesses EXCEPT ![j.user][j.stamp] = @ + 1]
      BY <1>2, <2>2 DEF Decide
    <3> QED
      BY <2>1, <2>2, <3>1, WrongCounted
  <2>3. CASE ~ (~ locked /\ ~ full /\ j.seen.active /\ ~ j.right)
    <3>1. guesses' = guesses
      BY <1>2, <2>3 DEF Decide
    <3> QED
      BY <1>1, <2>1, <3>1, OneQuietCounted
  <2> QED
    BY <2>2, <2>3
<1>3. CASE RecordFailure(w)
  BY <1>3, RecordedCounted
<1>4. CASE ~ Decide(w) /\ ~ RecordFailure(w)
  <2>1. guesses' = guesses /\ failures' = failures /\ lost' = lost /\ work[w].pc # "failing"
    BY <1>4 DEF LoginStep, Arrive, ReadUser, Lock, Lookup, Unlocked, Issue, Store, At, loginVars
  <2> QED
    BY <1>1, <2>1, OneQuietCounted
<1> QED
  BY <1>2, <1>3, <1>4

LEMMA OtherCounted ==
  ASSUME Right, Right', Counted, GuessBound, NEW w \in Workers,
         UnlockStep(w) \/ AuthStep(w) \/ AdminStep(w)
  PROVE  Counted' /\ GuessBound'
<1>1. work \in [Workers -> Jobs]
  BY RightParts
<1>2. CASE ForgetFailures(w)
  BY <1>2, ForgottenCounted
<1>3. CASE ~ ForgetFailures(w)
  <2>1. guesses' = guesses /\ failures' = failures /\ lost' = lost
    BY <1>3 DEF UnlockStep, AuthStep, AdminStep, AskUnlock, LiftLock, Present, Find, Check,
       LoadUser, LoadRoles, LoadPermissions, Bump, Handle, AskUpdate, LoadEdited, Edit, Drop,
       Add, Answer, loginVars
  <2>2. work[w].pc # "failing"
    BY <1>3 DEF UnlockStep, AuthStep, AdminStep, AskUnlock, LiftLock, Present, Find, Check,
       LoadUser, LoadRoles, LoadPermissions, Bump, Handle, AskUpdate, LoadEdited, Edit, Drop,
       Add, Answer, At
  <2>3. CASE UnlockStep(w)
    <3>1. \A v \in Workers \ {w} : work'[v] = work[v]
      BY <2>3, LoginShape
    <3> QED
      BY <2>1, <2>2, <3>1, OneQuietCounted
  <2>4. CASE AuthStep(w)
    <3>1. \A v \in Workers \ {w} : work'[v] = work[v]
      BY <1>1, <2>4 DEF AuthStep, Present, Find, Check, LoadUser, LoadRoles, LoadPermissions,
         Bump, Handle, End, To
    <3> QED
      BY <2>1, <2>2, <3>1, OneQuietCounted
  <2>5. CASE AdminStep(w) /\ ~ \E a \in Updates : AskUpdate(w, a)
    <3>1. \A v \in Workers \ {w} : work'[v] = work[v]
      BY <2>5, AdminShape DEF AdminStep
    <3> QED
      BY <2>1, <2>2, <3>1, OneQuietCounted
  <2>6. ASSUME NEW a \in Updates, AskUpdate(w, a)
        PROVE  Counted' /\ GuessBound'
    <3>1. a \in Update
      BY SessionsAssumption
    <3>2. ASSUME NEW v \in Workers, work[v].pc = "failing"
          PROVE  work'[v] = work[v]
      <4>1. v # w
        BY <2>2, <3>2
      <4>2. work[v] \notin AdminJob
        BY <3>2, AdminFields DEF AdminPcs
      <4>3. work[v] \notin AuthJob
        BY <3>2, AuthFields DEF AuthPcs
      <4>4. ~ Updating(v, a.of)
        BY <4>2 DEF Updating
      <4> QED
        BY <2>6, <3>1, <4>1, <4>3, <4>4, AskedWork
    <3>3. \A u \in Users : lost'[u] >= lost[u]
      BY <2>1, RightParts DEF Env
    <3> QED
      BY <2>1, <3>2, <3>3, QuietCounted
  <2> QED
    BY <2>3, <2>4, <2>5, <2>6
<1> QED
  BY <1>2, <1>3

LEMMA CountedStep ==
  Right /\ Counted /\ GuessBound /\ [Next]_vars => (Right /\ Counted /\ GuessBound)'
<1> SUFFICES ASSUME Right, Counted, GuessBound, [Next]_vars
             PROVE  Right' /\ Counted' /\ GuessBound'
  OBVIOUS
<1>1. Right'
  BY RightStep
<1>2. ASSUME NEW w \in Workers, LoginStep(w)
      PROVE  Counted' /\ GuessBound'
  BY <1>1, <1>2, LoginCounted
<1>3. ASSUME NEW w \in Workers, UnlockStep(w) \/ AuthStep(w) \/ AdminStep(w)
      PROVE  Counted' /\ GuessBound'
  BY <1>1, <1>3, OtherCounted
<1>4. ASSUME NEW w \in Workers, Stop(w)
      PROVE  Counted' /\ GuessBound'
  BY <1>1, <1>4, StopCounted
<1>5. ASSUME \/ UNCHANGED vars
             \/ \E w \in Workers : TurnAway(w)
             \/ Reap \/ Tick
      PROVE  Counted' /\ GuessBound'
  <2>1. guesses' = guesses /\ failures' = failures /\ lost' = lost /\ work' = work
    BY <1>5 DEF TurnAway, Reap, Tick, vars, loginVars
  <2> QED
    BY <1>1, <2>1, StillCounted
<1> QED
  BY <1>1, <1>2, <1>3, <1>4, <1>5 DEF Next

LEMMA InitCounted == Init => Counted /\ GuessBound
<1> SUFFICES ASSUME Init PROVE Counted /\ GuessBound
  OBVIOUS
<1>1. Env
  BY InitRight, RightParts
<1>2. /\ guesses = [u \in Users |-> [t \in Times |-> 0]]
      /\ failures = [u \in Users |-> [t \in Times |-> 0]]
  BY DEF Init, LoginInit
<1>3. ASSUME NEW u \in Users, NEW A \in SUBSET Times
      PROVE  Total(guesses[u], A) = 0
  <2>1. PICK g : g = guesses[u]
    OBVIOUS
  <2>2. g \in [Times -> Nat] /\ IsFiniteSet(A)
    BY <1>1, <2>1, Numbers
  <2>3. \A x \in A : g[x] = IF x \in Times THEN 0 ELSE g[x]
    BY <1>2, <2>1
  <2>4. Total(g, A) = Total(g, A \ Times)
    BY <2>2, <2>3, TotalErased
  <2>5. A \ Times = {}
    OBVIOUS
  <2> QED
    BY <2>1, <2>4, <2>5, TotalNone
<1>4. Counted
  <2> SUFFICES ASSUME NEW u \in Users, NEW A \in SUBSET Times
               PROVE  Total(guesses[u], A)
                        <= Total(failures[u], A) + Cardinality(Failing(u, A)) + lost[u]
    BY DEF Counted
  <2>1. /\ Total(failures[u], A) \in Nat /\ Cardinality(Failing(u, A)) \in Nat
        /\ lost[u] \in Nat
    BY <1>1, Numbers
  <2>2. Total(guesses[u], A) = 0
    BY <1>3
  <2> QED
    BY <2>1, <2>2
<1>5. GuessBound
  <2> SUFFICES ASSUME NEW u \in Users, NEW a \in Times
               PROVE  GuessesFrom(u, a) <= Threshold + Cardinality(Workers) - 1 + lost[u]
    BY DEF GuessBound
  <2>1. Span(a) \in SUBSET Times
    BY DEF Span
  <2>2. GuessesFrom(u, a) = 0
    BY <1>3, <2>1, WindowSums
  <2>3. Threshold \in Nat \ {0} /\ Cardinality(Workers) \in Nat /\ lost[u] \in Nat
    BY <1>1, LoginAssumption, FS_CardinalityType DEF Env
  <2> QED
    BY <2>2, <2>3
<1> QED
  BY <1>4, <1>5

\* Within any window, fewer wrong passwords of a user are compared than the
\* threshold and the workers together, however logins, unlocks and failures
\* overlap: the count is read before the password is verified and the attempt
\* recorded after it (handlers/auth.rs, login), so that at most one comparison
\* for each other worker can escape the count.
THEOREM GuessesBounded == Spec => []GuessBound
  BY InitRight, InitCounted, CountedStep, PTL DEF Spec
=============================================================================
