-------------------------------- MODULE Totals --------------------------------
(***************************************************************************)
(* The total of the amounts of a finite set of rows, which the models take *)
(* with MapThenSumSet: of exposures in the crash game, of ledger entries   *)
(* in the treasury, of shares and points in a payout.  MapThenSumSet folds with a table of the totals of all *)
(* subsets of its set; what is proved of the table goes by the smallest    *)
(* subset that would be an exception.                                      *)
(***************************************************************************)
EXTENDS Integers, FiniteSetsExt, FiniteSetTheorems, WellFoundedInduction, TLAPS

Pick(s) == CHOOSE x \in s : TRUE
Totals(f, e, R) ==
  f = [s \in SUBSET R |-> IF s = {} THEN 0 ELSE e[Pick(s)].amount + f[s \ {Pick(s)}]]
Total(e, R) == (CHOOSE f : Totals(f, e, R))[R]

\* A nonempty collection of finite sets has a member none of whose proper subsets is in it.
LEMMA Smallest ==
  ASSUME NEW S, IsFiniteSet(S), NEW T, T \subseteq SUBSET S, T # {}
  PROVE  \E x \in T : \A y \in SUBSET x : y # x => y \notin T
<1>1. IsWellFoundedOn(StrictSubsetOrdering(S), FiniteSubsetsOf(S))
  BY FS_StrictSubsetOrderingWellFounded
<1>2. FiniteSubsetsOf(S) = SUBSET S
  BY FS_FiniteSubsetsOfFinite
<1>3. PICK x \in T : \A y \in T : ~ (<<y, x>> \in StrictSubsetOrdering(S))
  BY <1>1, <1>2, WFMin
<1>4. ASSUME NEW y \in SUBSET x, y # x, y \in T
      PROVE  FALSE
  <2>1. <<y, x>> \in (SUBSET S) \X (SUBSET S)
    BY <1>4
  <2>2. <<y, x>> \in StrictSubsetOrdering(S)
    BY <1>4, <2>1 DEF StrictSubsetOrdering
  <2> QED BY <1>3, <1>4, <2>2
<1> QED BY <1>3, <1>4

LEMMA PickIsMember ==
  ASSUME NEW s, s # {}
  PROVE  Pick(s) \in s /\ s \ {Pick(s)} # s /\ s \ {Pick(s)} \subseteq s
  BY DEF Pick

LEMMA TotalsUnfold ==
  ASSUME NEW f, NEW e, NEW R, Totals(f, e, R), NEW s \in SUBSET R
  PROVE  /\ s = {} => f[s] = 0
         /\ s # {} => f[s] = e[Pick(s)].amount + f[s \ {Pick(s)}]
  BY DEF Totals

\* Two tables agree on the sets both know.
LEMMA TotalsAgree ==
  ASSUME NEW f, NEW g, NEW e, NEW Q, IsFiniteSet(Q), NEW R \in SUBSET Q,
         Totals(f, e, R), Totals(g, e, Q)
  PROVE  \A s \in SUBSET R : f[s] = g[s]
<1> DEFINE T == {s \in SUBSET R : f[s] # g[s]}
<1>1. SUFFICES ASSUME T # {} PROVE FALSE
  OBVIOUS
<1>2. T \subseteq SUBSET Q
  OBVIOUS
<1> HIDE DEF T
<1>3. PICK x \in T : \A y \in SUBSET x : y # x => y \notin T
  BY <1>1, <1>2, Smallest
<1>4. x \in SUBSET R /\ x \in SUBSET Q /\ f[x] # g[x]
  BY <1>3 DEF T
<1>5. x # {}
  <2>1. SUFFICES ASSUME x = {} PROVE FALSE
    OBVIOUS
  <2>2. f[x] = 0
    BY <2>1, <1>4, TotalsUnfold
  <2>3. g[x] = 0
    BY <2>1, <1>4, TotalsUnfold
  <2> QED BY <2>2, <2>3, <1>4
<1>6. Pick(x) \in x /\ x \ {Pick(x)} # x /\ x \ {Pick(x)} \subseteq x
  BY <1>5, PickIsMember
<1> DEFINE y == x \ {Pick(x)}
<1>7. y \in SUBSET x /\ y # x /\ y \in SUBSET R
  BY <1>6, <1>4
<1>8. f[y] = g[y]
  BY <1>7, <1>3 DEF T
<1>9. f[x] = e[Pick(x)].amount + f[y]
  BY <1>4, <1>5, TotalsUnfold
<1>10. g[x] = e[Pick(x)].amount + g[y]
  BY <1>4, <1>5, TotalsUnfold
<1> QED BY <1>8, <1>9, <1>10, <1>4

\* Every finite set has a table of totals.
LEMMA TotalsExist ==
  ASSUME NEW e, NEW S, IsFiniteSet(S)
  PROVE  \A R \in SUBSET S : \E f : Totals(f, e, R)
<1> DEFINE T == {R \in SUBSET S : ~ \E f : Totals(f, e, R)}
<1>1. SUFFICES ASSUME T # {} PROVE FALSE
  OBVIOUS
<1>2. T \subseteq SUBSET S
  OBVIOUS
<1> HIDE DEF T
<1>3. PICK R \in T : \A y \in SUBSET R : y # R => y \notin T
  BY <1>1, <1>2, Smallest
<1>4. R \in SUBSET S /\ ~ \E f : Totals(f, e, R)
  BY <1>3 DEF T
<1>5. ASSUME NEW t \in SUBSET R, t # R
      PROVE  Totals(CHOOSE f : Totals(f, e, t), e, t)
  <2>1. t \in SUBSET S /\ t \notin T
    BY <1>3, <1>4, <1>5
  <2>2. \E f : Totals(f, e, t)
    BY <2>1 DEF T
  <2> QED BY <2>2
<1> DEFINE G(t) == (CHOOSE f : Totals(f, e, t))[t]
           F == [s \in SUBSET R |-> IF s = {} THEN 0 ELSE e[Pick(s)].amount + G(s \ {Pick(s)})]
<1>6. ASSUME NEW t \in SUBSET R, t # R
      PROVE  F[t] = G(t)
  <2> DEFINE g == CHOOSE f : Totals(f, e, t)
  <2>1. Totals(g, e, t)
    BY <1>5, <1>6
  <2> HIDE DEF g
  <2>2. t \in SUBSET t
    OBVIOUS
  <2>3. CASE t = {}
    <3>1. g[t] = 0
      BY <2>1, <2>2, <2>3, TotalsUnfold
    <3>2. F[t] = 0
      BY <2>3, <1>6
    <3> QED BY <3>1, <3>2 DEF g
  <2>4. CASE t # {}
    <3> DEFINE u == t \ {Pick(t)}
    <3>1. Pick(t) \in t /\ u # t /\ u \subseteq t
      BY <2>4, PickIsMember
    <3>2. g[t] = e[Pick(t)].amount + g[u]
      BY <2>1, <2>2, <2>4, TotalsUnfold
    <3>3. u \in SUBSET R /\ u # R
      BY <3>1, <1>6
    <3> DEFINE h == CHOOSE f : Totals(f, e, u)
    <3>4. Totals(h, e, u)
      BY <3>3, <1>5
    <3> HIDE DEF h
    <3>5. IsFiniteSet(t) /\ u \in SUBSET t
      BY <1>4, <3>1, FS_Subset
    <3>6. h[u] = g[u]
      <4>1. \A s \in SUBSET u : h[s] = g[s]
        BY <3>4, <2>1, <3>5, TotalsAgree
      <4> QED BY <4>1
    <3>7. F[t] = e[Pick(t)].amount + h[u]
      BY <2>4, <1>6 DEF h
    <3> QED BY <3>2, <3>6, <3>7 DEF g
  <2> QED BY <2>3, <2>4
<1>7. ASSUME NEW s \in SUBSET R, s # {}
      PROVE  F[s] = e[Pick(s)].amount + F[s \ {Pick(s)}]
  <2> DEFINE u == s \ {Pick(s)}
  <2>1. Pick(s) \in s /\ u # s /\ u \subseteq s
    BY <1>7, PickIsMember
  <2>2. u \in SUBSET R /\ u # R
    BY <2>1
  <2>3. F[u] = G(u)
    BY <2>2, <1>6
  <2>4. F[s] = e[Pick(s)].amount + G(u)
    BY <1>7
  <2> QED BY <2>3, <2>4
<1>8. \A s \in SUBSET R : s = {} => F[s] = 0
  OBVIOUS
<1>9. F = [s \in SUBSET R |-> F[s]]
  OBVIOUS
<1> HIDE DEF F
<1>10. F = [s \in SUBSET R |-> IF s = {} THEN 0 ELSE e[Pick(s)].amount + F[s \ {Pick(s)}]]
  <2>1. \A s \in SUBSET R : F[s] = IF s = {} THEN 0 ELSE e[Pick(s)].amount + F[s \ {Pick(s)}]
    BY <1>7, <1>8
  <2> QED BY <2>1, <1>9
<1>11. Totals(F, e, R)
  BY <1>10 DEF Totals
<1> QED BY <1>4, <1>11

\* The total of a set is that of the set without the member it picks, and the member.
LEMMA TotalUnfold ==
  ASSUME NEW e, NEW R, IsFiniteSet(R)
  PROVE  /\ R = {} => Total(e, R) = 0
         /\ R # {} => Total(e, R) = e[Pick(R)].amount + Total(e, R \ {Pick(R)})
<1> DEFINE g == CHOOSE f : Totals(f, e, R)
<1>0. R \in SUBSET R
  OBVIOUS
<1>1. Totals(g, e, R)
  <2>1. \E f : Totals(f, e, R)
    BY <1>0, TotalsExist
  <2> QED BY <2>1
<1>2. Total(e, R) = g[R]
  BY DEF Total
<1> HIDE DEF g
<1>3. CASE R = {}
  BY <1>0, <1>1, <1>2, <1>3, TotalsUnfold
<1>4. CASE R # {}
  <2> DEFINE u == R \ {Pick(R)}
             h == CHOOSE f : Totals(f, e, u)
  <2>1. Pick(R) \in R /\ u # R /\ u \in SUBSET R
    BY <1>4, PickIsMember
  <2>2. Totals(h, e, u)
    <3>1. \E f : Totals(f, e, u)
      BY <2>1, TotalsExist
    <3> QED BY <3>1
  <2>3. Total(e, u) = h[u]
    BY DEF Total
  <2> HIDE DEF h
  <2>4. \A s \in SUBSET u : h[s] = g[s]
    BY <2>1, <2>2, <1>1, TotalsAgree
  <2>5. h[u] = g[u]
    BY <2>4
  <2>6. g[R] = e[Pick(R)].amount + g[u]
    BY <1>0, <1>1, <1>4, TotalsUnfold
  <2> QED BY <1>4, <1>2, <2>3, <2>5, <2>6
<1> QED BY <1>3, <1>4

\* The total counts each member once, whichever is taken out first.
LEMMA TotalSplits ==
  ASSUME NEW e, NEW S, IsFiniteSet(S), \A r \in S : e[r].amount \in Nat
  PROVE  \A R \in SUBSET S :
           /\ Total(e, R) \in Nat
           /\ \A x \in R : Total(e, R) = e[x].amount + Total(e, R \ {x})
<1> DEFINE Good(R) == /\ Total(e, R) \in Nat
                      /\ \A x \in R : Total(e, R) = e[x].amount + Total(e, R \ {x})
           T == {R \in SUBSET S : ~ Good(R)}
<1>1. SUFFICES ASSUME T # {} PROVE FALSE
  OBVIOUS
<1>2. T \subseteq SUBSET S
  OBVIOUS
<1> HIDE DEF T
<1>3. PICK R \in T : \A y \in SUBSET R : y # R => y \notin T
  BY <1>1, <1>2, Smallest
<1>4. R \in SUBSET S /\ ~ Good(R)
  BY <1>3 DEF T
<1>5. ASSUME NEW t \in SUBSET R, t # R
      PROVE  Good(t)
  BY <1>3, <1>4, <1>5 DEF T
<1>6. IsFiniteSet(R)
  BY <1>4, FS_Subset
<1>7. R # {}
  <2>1. SUFFICES ASSUME R = {} PROVE FALSE
    OBVIOUS
  <2>2. Total(e, R) = 0
    BY <2>1, <1>6, TotalUnfold
  <2> QED BY <2>1, <2>2, <1>4
<1> HIDE DEF Good
<1> DEFINE c == Pick(R)
           u == R \ {c}
<1>8. c \in R /\ u # R /\ u \in SUBSET R
  BY <1>7, PickIsMember
<1>9. Total(e, R) = e[c].amount + Total(e, u)
  BY <1>6, <1>7, TotalUnfold
<1>10. Good(u)
  BY <1>5, <1>8
<1>11. e[c].amount \in Nat /\ Total(e, u) \in Nat
  BY <1>8, <1>10, <1>4 DEF Good
<1>12. ASSUME NEW x \in R
       PROVE  Total(e, R) = e[x].amount + Total(e, R \ {x})
  <2>1. CASE x = c
    BY <2>1, <1>9
  <2>2. CASE x # c
    <3> DEFINE both == u \ {x}
    <3>1. x \in u /\ c \in R \ {x} /\ (R \ {x}) \ {c} = both
      BY <2>2, <1>8
    <3>2. Total(e, u) = e[x].amount + Total(e, both)
      BY <3>1, <1>10 DEF Good
    <3>3. Good(R \ {x})
      <4>1. R \ {x} \in SUBSET R /\ R \ {x} # R
        OBVIOUS
      <4> QED BY <4>1, <1>5
    <3>4. Total(e, R \ {x}) = e[c].amount + Total(e, both)
      BY <3>1, <3>3 DEF Good
    <3>5. both \in SUBSET R /\ both # R
      BY <1>8
    <3>6. Total(e, both) \in Nat /\ e[x].amount \in Nat
      BY <3>5, <1>5, <1>4 DEF Good
    <3> HIDE DEF both, u, c
    <3> QED BY <3>2, <3>4, <3>6, <1>9, <1>11
  <2> QED BY <2>1, <2>2
<1>13. Total(e, R) \in Nat
  <2> HIDE DEF u, c
  <2> QED BY <1>9, <1>11
<1>14. Good(R)
  BY <1>12, <1>13 DEF Good
<1> QED BY <1>4, <1>14

\* It depends on the amounts of the members alone.
LEMMA TotalsEqual ==
  ASSUME NEW d, NEW e, NEW S, IsFiniteSet(S), \A r \in S : d[r].amount = e[r].amount
  PROVE  \A R \in SUBSET S : Total(d, R) = Total(e, R)
<1> DEFINE T == {R \in SUBSET S : Total(d, R) # Total(e, R)}
<1>1. SUFFICES ASSUME T # {} PROVE FALSE
  OBVIOUS
<1>2. T \subseteq SUBSET S
  OBVIOUS
<1> HIDE DEF T
<1>3. PICK R \in T : \A y \in SUBSET R : y # R => y \notin T
  BY <1>1, <1>2, Smallest
<1>4. R \in SUBSET S /\ Total(d, R) # Total(e, R)
  BY <1>3 DEF T
<1>5. IsFiniteSet(R)
  BY <1>4, FS_Subset
<1>6. R # {}
  <2>1. SUFFICES ASSUME R = {} PROVE FALSE
    OBVIOUS
  <2>2. Total(d, R) = 0 /\ Total(e, R) = 0
    BY <2>1, <1>5, TotalUnfold
  <2> QED BY <2>2, <1>4
<1> DEFINE u == R \ {Pick(R)}
<1>7. Pick(R) \in R /\ u # R /\ u \in SUBSET R
  BY <1>6, PickIsMember
<1>8. Total(d, u) = Total(e, u)
  BY <1>7, <1>3, <1>4 DEF T
<1>9. Total(d, R) = d[Pick(R)].amount + Total(d, u) /\ Total(e, R) = e[Pick(R)].amount + Total(e, u)
  BY <1>5, <1>6, TotalUnfold
<1>10. d[Pick(R)].amount = e[Pick(R)].amount
  BY <1>7, <1>4
<1> QED BY <1>4, <1>8, <1>9, <1>10

(***************************************************************************)
(* Sums of functions to numbers, over the subsets of a finite set.         *)
(***************************************************************************)
Amounted(f) == [x \in DOMAIN f |-> [amount |-> f[x]]]
Sum(f, R) == Total(Amounted(f), R)

\* What holds of the empty set, and of a set if it holds without one of its members, holds
\* of every subset.
LEMMA SubsetInduction ==
  ASSUME NEW S, IsFiniteSet(S), NEW T, {} \in T,
         \A R \in SUBSET S : \A x \in R : R \ {x} \in T => R \in T
  PROVE  \A R \in SUBSET S : R \in T
<1> DEFINE Others == {R \in SUBSET S : R \notin T}
<1> SUFFICES ASSUME Others # {} PROVE FALSE
  OBVIOUS
<1>1. Others \subseteq SUBSET S
  OBVIOUS
<1>2. PICK R \in Others : \A y \in SUBSET R : y # R => y \notin Others
  <2> HIDE DEF Others
  <2> QED
    BY <1>1, Smallest
<1>3. PICK x : x \in R
  BY <1>2
<1>4. R \ {x} \in SUBSET R /\ R \ {x} # R /\ R \ {x} \in SUBSET S
  BY <1>2, <1>3
<1>5. R \ {x} \in T
  BY <1>2, <1>4
<1> QED
  BY <1>2, <1>3, <1>5

LEMMA SumTakesOut ==
  ASSUME NEW f, IsFiniteSet(DOMAIN f), \A x \in DOMAIN f : f[x] \in Nat,
         NEW R \in SUBSET DOMAIN f
  PROVE  /\ Sum(f, R) \in Nat /\ Sum(f, {}) = 0
         /\ \A x \in R : Sum(f, R) = f[x] + Sum(f, R \ {x})
<1>1. \A x \in DOMAIN f : Amounted(f)[x].amount = f[x]
  BY DEF Amounted
<1>2. \A x \in DOMAIN f : Amounted(f)[x].amount \in Nat
  BY <1>1
<1>3. IsFiniteSet({})
  BY FS_EmptySet
<1>4. Total(Amounted(f), {}) = 0
  BY <1>3, TotalUnfold
<1>5. /\ Total(Amounted(f), R) \in Nat
      /\ \A x \in R : Total(Amounted(f), R) = Amounted(f)[x].amount + Total(Amounted(f), R \ {x})
  BY <1>2, TotalSplits
<1> QED
  BY <1>1, <1>4, <1>5 DEF Sum

\* Numbers that are smaller one by one are smaller together.
LEMMA SumIsMonotone ==
  ASSUME NEW S, IsFiniteSet(S), NEW f \in [S -> Nat], NEW g \in [S -> Nat],
         \A x \in S : f[x] <= g[x]
  PROVE  \A R \in SUBSET S : Sum(f, R) <= Sum(g, R)
<1> DEFINE T == {R \in SUBSET S : Sum(f, R) <= Sum(g, R)}
<1>1. {} \in T
  BY SumTakesOut
<1>2. ASSUME NEW R \in SUBSET S, NEW x \in R, R \ {x} \in T
      PROVE  R \in T
  <2>1. Sum(f, R) = f[x] + Sum(f, R \ {x}) /\ Sum(g, R) = g[x] + Sum(g, R \ {x})
    BY SumTakesOut
  <2>2. /\ Sum(f, R \ {x}) \in Nat /\ Sum(g, R \ {x}) \in Nat /\ f[x] \in Nat /\ g[x] \in Nat
        /\ f[x] <= g[x]
    BY SumTakesOut
  <2>3. Sum(f, R \ {x}) <= Sum(g, R \ {x})
    BY <1>2
  <2>4. Sum(f, R) <= Sum(g, R)
    BY <2>1, <2>2, <2>3
  <2> QED
    BY <2>4
<1> HIDE DEF T
<1>3. \A R \in SUBSET S : R \in T
  BY <1>1, <1>2, SubsetInduction
<1> QED
  BY <1>3 DEF T

\* A sum of sums is the sum of both.
LEMMA SumAdds ==
  ASSUME NEW S, IsFiniteSet(S), NEW f \in [S -> Nat], NEW g \in [S -> Nat],
         NEW h \in [S -> Nat], \A x \in S : h[x] = f[x] + g[x]
  PROVE  \A R \in SUBSET S : Sum(h, R) = Sum(f, R) + Sum(g, R)
<1> DEFINE T == {R \in SUBSET S : Sum(h, R) = Sum(f, R) + Sum(g, R)}
<1>1. {} \in T
  BY SumTakesOut
<1>2. ASSUME NEW R \in SUBSET S, NEW x \in R, R \ {x} \in T
      PROVE  R \in T
  <2>1. /\ Sum(f, R) = f[x] + Sum(f, R \ {x}) /\ Sum(g, R) = g[x] + Sum(g, R \ {x})
        /\ Sum(h, R) = h[x] + Sum(h, R \ {x})
    BY SumTakesOut
  <2>2. /\ Sum(f, R \ {x}) \in Nat /\ Sum(g, R \ {x}) \in Nat /\ f[x] \in Nat /\ g[x] \in Nat
        /\ h[x] = f[x] + g[x]
    BY SumTakesOut
  <2>3. Sum(h, R \ {x}) = Sum(f, R \ {x}) + Sum(g, R \ {x})
    BY <1>2
  <2>4. Sum(h, R) = Sum(f, R) + Sum(g, R)
    BY <2>1, <2>2, <2>3
  <2> QED
    BY <2>4
<1> HIDE DEF T
<1>3. \A R \in SUBSET S : R \in T
  BY <1>1, <1>2, SubsetInduction
<1> QED
  BY <1>3 DEF T

LEMMA Distributes ==
  ASSUME NEW c \in Nat, NEW a \in Nat, NEW b \in Nat
  PROVE  c * (a + b) = c * a + c * b /\ c * a \in Nat
  OBVIOUS

\* A factor can be taken out of a sum.
LEMMA SumScales ==
  ASSUME NEW S, IsFiniteSet(S), NEW c \in Nat, NEW f \in [S -> Nat], NEW g \in [S -> Nat],
         \A x \in S : g[x] = c * f[x]
  PROVE  \A R \in SUBSET S : Sum(g, R) = c * Sum(f, R)
<1> DEFINE T == {R \in SUBSET S : Sum(g, R) = c * Sum(f, R)}
<1>1. {} \in T
  BY SumTakesOut
<1>2. ASSUME NEW R \in SUBSET S, NEW x \in R, R \ {x} \in T
      PROVE  R \in T
  <2>1. Sum(f, R) = f[x] + Sum(f, R \ {x}) /\ Sum(g, R) = g[x] + Sum(g, R \ {x})
    BY SumTakesOut
  <2>2. Sum(f, R \ {x}) \in Nat /\ f[x] \in Nat /\ g[x] = c * f[x]
    BY SumTakesOut
  <2>3. Sum(g, R \ {x}) = c * Sum(f, R \ {x})
    BY <1>2
  <2>4. c * (f[x] + Sum(f, R \ {x})) = c * f[x] + c * Sum(f, R \ {x})
    BY <2>2, Distributes
  <2>5. Sum(g, R) = c * Sum(f, R)
    BY <2>1, <2>2, <2>3, <2>4
  <2> QED
    BY <2>5
<1> HIDE DEF T
<1>3. \A R \in SUBSET S : R \in T
  BY <1>1, <1>2, SubsetInduction
<1> QED
  BY <1>3 DEF T

\* Ones count.
LEMMA SumCounts ==
  ASSUME NEW S, IsFiniteSet(S), NEW f \in [S -> Nat], \A x \in S : f[x] = 1
  PROVE  \A R \in SUBSET S : Sum(f, R) = Cardinality(R)
<1> DEFINE T == {R \in SUBSET S : Sum(f, R) = Cardinality(R)}
<1>1. {} \in T
  BY SumTakesOut, FS_EmptySet
<1>2. ASSUME NEW R \in SUBSET S, NEW x \in R, R \ {x} \in T
      PROVE  R \in T
  <2>1. Sum(f, R) = f[x] + Sum(f, R \ {x}) /\ f[x] = 1
    BY SumTakesOut
  <2>2. IsFiniteSet(R)
    BY FS_Subset
  <2>3. Cardinality(R \ {x}) = Cardinality(R) - 1 /\ Cardinality(R) \in Nat
    BY <2>2, FS_RemoveElement, FS_CardinalityType
  <2>4. Sum(f, R) = Cardinality(R)
    BY <1>2, <2>1, <2>3
  <2> QED
    BY <2>4
<1> HIDE DEF T
<1>3. \A R \in SUBSET S : R \in T
  BY <1>1, <1>2, SubsetInduction
<1> QED
  BY <1>3 DEF T

\* Two disjoint parts add up.
LEMMA SumOfParts ==
  ASSUME NEW S, IsFiniteSet(S), NEW f \in [S -> Nat], NEW Q \in SUBSET S
  PROVE  \A R \in SUBSET S : R \cap Q = {} => Sum(f, Q \cup R) = Sum(f, Q) + Sum(f, R)
<1> DEFINE T == {R \in SUBSET S : R \cap Q = {} => Sum(f, Q \cup R) = Sum(f, Q) + Sum(f, R)}
<1>1. {} \in T
  <2>1. Q \cup {} = Q /\ Sum(f, {}) = 0 /\ Sum(f, Q) \in Nat
    BY SumTakesOut
  <2> QED
    BY <2>1
<1>2. ASSUME NEW R \in SUBSET S, NEW x \in R, R \ {x} \in T, R \cap Q = {}
      PROVE  Sum(f, Q \cup R) = Sum(f, Q) + Sum(f, R)
  <2>1. Sum(f, R) = f[x] + Sum(f, R \ {x})
    BY SumTakesOut
  <2>2. Sum(f, Q \cup R) = f[x] + Sum(f, (Q \cup R) \ {x})
    BY SumTakesOut
  <2>3. (Q \cup R) \ {x} = Q \cup (R \ {x}) /\ (R \ {x}) \cap Q = {}
    BY <1>2
  <2>4. Sum(f, Q \cup (R \ {x})) = Sum(f, Q) + Sum(f, R \ {x})
    BY <1>2, <2>3
  <2>5. Sum(f, R \ {x}) \in Nat /\ Sum(f, Q) \in Nat /\ f[x] \in Nat
    BY SumTakesOut
  <2>6. Sum(f, Q \cup R) = f[x] + Sum(f, Q \cup (R \ {x}))
    BY <2>2, <2>3
  <2>7. Sum(f, Q \cup R) = f[x] + (Sum(f, Q) + Sum(f, R \ {x}))
    BY <2>4, <2>6
  <2> QED
    BY <2>1, <2>5, <2>7
<1>3. \A R \in SUBSET S : \A x \in R : R \ {x} \in T => R \in T
  BY <1>2
<1> HIDE DEF T
<1>4. \A R \in SUBSET S : R \in T
  BY <1>1, <1>3, SubsetInduction
<1> QED
  BY <1>4 DEF T

\* A part is no more than the whole.
LEMMA SumOfPart ==
  ASSUME NEW S, IsFiniteSet(S), NEW f \in [S -> Nat], NEW Q \in SUBSET S, NEW R \in SUBSET Q
  PROVE  Sum(f, R) <= Sum(f, Q)
<1>1. R \cup (Q \ R) = Q /\ (Q \ R) \cap R = {} /\ Q \ R \in SUBSET S /\ R \in SUBSET S
  OBVIOUS
<1>2. Sum(f, Q) = Sum(f, R) + Sum(f, Q \ R)
  BY <1>1, SumOfParts
<1>3. Sum(f, R) \in Nat /\ Sum(f, Q \ R) \in Nat
  BY <1>1, SumTakesOut
<1> QED
  BY <1>2, <1>3

\* A sum over names of different things is the sum over the things.
LEMMA SumRenamed ==
  ASSUME NEW S, IsFiniteSet(S), NEW f \in [S -> Nat], NEW K, IsFiniteSet(K),
         NEW name \in [K -> S], \A j, k \in K : name[j] = name[k] => j = k,
         NEW g \in [K -> Nat], \A k \in K : g[k] = f[name[k]]
  PROVE  \A R \in SUBSET K : Sum(g, R) = Sum(f, {name[k] : k \in R})
<1> DEFINE Named(R) == {name[k] : k \in R}
           T == {R \in SUBSET K : Sum(g, R) = Sum(f, Named(R))}
<1>1. {} \in T
  <2>1. Named({}) = {}
    OBVIOUS
  <2>2. Sum(g, {}) = 0 /\ Sum(f, {}) = 0
    BY SumTakesOut
  <2> QED
    BY <2>1, <2>2
<1>2. ASSUME NEW R \in SUBSET K, NEW x \in R, R \ {x} \in T
      PROVE  R \in T
  <2>1. Named(R) \in SUBSET S /\ name[x] \in Named(R) /\ Named(R) \ {name[x]} = Named(R \ {x})
    OBVIOUS
  <2> HIDE DEF Named
  <2>2. Sum(g, R) = g[x] + Sum(g, R \ {x})
    BY SumTakesOut
  <2>3. Sum(f, Named(R)) = f[name[x]] + Sum(f, Named(R) \ {name[x]})
    BY <2>1, SumTakesOut
  <2>4. Sum(g, R) = Sum(f, Named(R))
    BY <1>2, <2>1, <2>2, <2>3
  <2> QED
    BY <2>4
<1> HIDE DEF T
<1>3. \A R \in SUBSET K : R \in T
  BY <1>1, <1>2, SubsetInduction
<1> QED
  BY <1>3 DEF T

LEMMA Numbered ==
  ASSUME NEW n \in Nat
  PROVE  IsFiniteSet(1..n) /\ Cardinality(1..n) = n
  BY FS_Interval
===============================================================================
