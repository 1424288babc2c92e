---------------------------- MODULE BisectProofs ----------------------------
(***************************************************************************)
(* bisect_failure (module Bisect) for graphs and oracles of any size: the  *)
(* binary search, and the plan it searches.                                *)
(***************************************************************************)
EXTENDS Bisect, FiniteSetTheorems, WellFoundedInduction, TLAPS

\* The image of a finite set is finite.
LEMMA FiniteImage ==
    ASSUME NEW S, IsFiniteSet(S), NEW f, DOMAIN f = S
    PROVE  IsFiniteSet({f[x] : x \in S})
<1> DEFINE T == {f[x] : x \in S}
           g == [x \in S |-> f[x]]
<1>1. g \in Surjection(S, T)
  BY DEF Surjection
<1> QED
  BY <1>1, FS_Surjection

\* A finite graph has finitely many nodes.
LEMMA FiniteGraph ==
    ASSUME NEW g, Finite(g)
    PROVE  IsFiniteSet(DOMAIN g.nodes)
<1>1. Len(g.nodes) \in Nat /\ DOMAIN g.nodes = 1..Len(g.nodes)
  BY DEF Finite
<1> QED
  BY <1>1, FS_Interval

\* Finite graphs have finitely many differences.
LEMMA FiniteItems ==
    ASSUME NEW b, NEW c, NEW fu, Finite(b), Finite(c)
    PROVE  IsFiniteSet(Items(b, c, fu))
<1> DEFINE B == DiffBase(b, c)
           C == DiffCand(b, c)
           D == DiffInit(b, c)
           fb == [i \in B |-> BaseItem(b, c, fu, i)]
           fc == [j \in C |-> CandItem(b, c, fu, j)]
           fd == [n \in D |-> InitItem(b, c, n)]
<1>1. IsFiniteSet(B)
  <2>1. B \subseteq DOMAIN b.nodes
    BY DEF DiffBase
  <2> QED
    BY <2>1, FiniteGraph, FS_Subset
<1>2. IsFiniteSet(C)
  <2>1. C \subseteq DOMAIN c.nodes
    BY DEF DiffCand
  <2> QED
    BY <2>1, FiniteGraph, FS_Subset
<1>3. IsFiniteSet(D)
  <2>1. D \subseteq (DOMAIN b.inits) \union (DOMAIN c.inits)
    BY DEF DiffInit
  <2>2. IsFiniteSet((DOMAIN b.inits) \union (DOMAIN c.inits))
    BY FS_Union DEF Finite
  <2> QED
    BY <2>1, <2>2, FS_Subset
<1>4. IsFiniteSet({fb[i] : i \in B})
  <2> HIDE DEF B
  <2> QED BY <1>1, FiniteImage
<1>5. IsFiniteSet({fc[j] : j \in C})
  <2> HIDE DEF C
  <2> QED BY <1>2, FiniteImage
<1>6. IsFiniteSet({fd[n] : n \in D})
  <2> HIDE DEF D
  <2> QED BY <1>3, FiniteImage
<1>7. Items(b, c, fu) = ({fb[i] : i \in B} \union {fc[j] : j \in C}) \union {fd[n] : n \in D}
  BY DEF Items
<1> QED
  <2>1. IsFiniteSet({fb[i] : i \in B} \union {fc[j] : j \in C})
    BY <1>4, <1>5, FS_Union
  <2> HIDE DEF fb, fc, fd
  <2> QED
    <3> DEFINE X == {fb[i] : i \in B} \union {fc[j] : j \in C}
               Y == {fd[n] : n \in D}
    <3>1. IsFiniteSet(X) /\ IsFiniteSet(Y) /\ Items(b, c, fu) = X \union Y
      BY <2>1, <1>6, <1>7
    <3> HIDE DEF X, Y
    <3> QED
      BY <3>1, FS_Union

\* So a plan is finite; it has a unit unless it is empty.
LEMMA FinitePlan ==
    ASSUME NEW b, NEW c, NEW fu, Finite(b), Finite(c)
    PROVE  /\ Len(Plan(b, c, fu)) \in Nat
           /\ Plan(b, c, fu) # <<>> => Len(Plan(b, c, fu)) >= 1
<1> DEFINE items == Items(b, c, fu)
           groups == {Group(items, x) : x \in items}
           f == [x \in items |-> Group(items, x)]
           Place(g) == Cardinality({h \in groups : GroupBefore(h, g)}) + 1
           unit == [k \in 1..Cardinality(groups) |->
                      UnitOf(b, c, fu, CHOOSE g \in groups : Place(g) = k)]
<1>1. IsFiniteSet(items)
  BY FiniteItems
<1>2. IsFiniteSet(groups)
  <2> HIDE DEF items
  <2>1. IsFiniteSet({f[x] : x \in items})
    BY <1>1, FiniteImage
  <2> QED
    BY <2>1
<1>3. Cardinality(groups) \in Nat
  BY <1>2, FS_CardinalityType
<1>4. Plan(b, c, fu) = unit
  BY DEF Plan
<1> QED
  <2> HIDE DEF groups, Place
  <2>1. Len(unit) = Cardinality(groups)
    BY <1>3
  <2>2. Cardinality(groups) = 0 => unit = <<>>
    BY <1>3
  <2> QED
    BY <1>3, <1>4, <2>1, <2>2

-----------------------------------------------------------------------------
\* The loop's invariant: the search is between a prefix that passed and one
\* that failed, and has run both, except the base and the candidate.
Bracket ==
    pc \in {"search", "found"} =>
        /\ passes \in [0..Len(units) -> BOOLEAN]
        /\ lo # 0 => lo \in probed /\ passes[lo]
        /\ hi \in probed \union {Len(units)} /\ ~passes[hi]

IInv ==
    /\ TypeOK
    /\ Len(units) \in Nat
    /\ Finite(base) /\ Finite(cand)
    /\ pc = "check" => probed = {}
    /\ Bracket
    /\ pc = "found" => hi = lo + 1

\* The search begins with it.
LEMMA InitIInv == Init => IInv
<1> SUFFICES ASSUME Init PROVE IInv
  OBVIOUS
<1>1. Finite(base) /\ Finite(cand)
  BY ChangesType DEF Init, Runnable, WellFormed
<1> QED
  BY <1>1 DEF Init, IInv, TypeOK, Bracket

\* Every step keeps it.
LEMMA StepIInv == IInv /\ [Next]_vars => IInv'
<1> SUFFICES ASSUME IInv, [Next]_vars PROVE IInv'
  OBVIOUS
<1>1. CASE NoFailure \/ CheckRaises
  BY <1>1 DEF NoFailure, CheckRaises, IInv, TypeOK, Bracket, args
<1>2. CASE MakePlan
  <2> DEFINE p == Plan(base, cand, fused)
  <2>1. Len(p) \in Nat /\ (p # <<>> => Len(p) >= 1)
    BY FinitePlan DEF IInv
  <2>2. units' = p /\ p # <<>> /\ lo' = 0 /\ hi' = Len(p) /\ pc' = "search"
        /\ UNCHANGED <<base, cand, evaluations, probed>>
    BY <1>2 DEF MakePlan, args
  <2>3. passes' \in [0..Len(p) -> BOOLEAN] /\ ~passes'[Len(p)]
    BY <1>2, <2>2 DEF MakePlan
  <2>4. probed = {} /\ evaluations \in Nat /\ Finite(base) /\ Finite(cand)
    BY <1>2 DEF IInv, TypeOK, MakePlan
  <2> HIDE DEF p
  <2>5. Finite(base)' /\ Finite(cand)'
    BY <2>2, <2>4 DEF Finite
  <2> QED
    BY <2>1, <2>2, <2>3, <2>4, <2>5 DEF IInv, TypeOK, Bracket
<1>3. CASE NothingDiffers
  BY <1>3 DEF NothingDiffers, IInv, TypeOK, Bracket, args
<1>4. CASE Probe
  <2>1. lo < Mid /\ Mid < hi /\ Mid \in Nat
    BY <1>4 DEF Probe, IInv, TypeOK, Mid
  <2>2. pc = "search" /\ pc' = pc /\ units' = units /\ passes' = passes /\ base' = base
        /\ cand' = cand /\ evaluations' = evaluations + 1 /\ probed' = probed \union {Mid}
    BY <1>4 DEF Probe, args
  <2>3. IF passes[Mid] THEN lo' = Mid /\ hi' = hi ELSE hi' = Mid /\ lo' = lo
    BY <1>4 DEF Probe
  <2> QED
    BY <2>1, <2>2, <2>3 DEF IInv, TypeOK, Bracket, Finite
<1>5. CASE ProbeInvalid \/ ProbeRaises
  BY <1>5 DEF ProbeInvalid, ProbeRaises, IInv, TypeOK, Bracket, args
<1>6. CASE Return
  BY <1>6 DEF Return, IInv, TypeOK, Bracket, args
<1>7. CASE UNCHANGED vars
  BY <1>7 DEF vars, args, IInv, TypeOK, Bracket
<1> QED
  BY <1>1, <1>2, <1>3, <1>4, <1>5, <1>6, <1>7 DEF Next

\* So it always holds.
LEMMA Invariance == Spec => []IInv
  BY InitIInv, StepIInv, PTL DEF Spec

\* bisect_failure keeps its types for every pair of graphs; in particular the
\* search interval never becomes empty.
THEOREM BisectTypes == Spec => []TypeOK
<1>1. IInv => TypeOK
  BY DEF IInv
<1> QED
  BY <1>1, Invariance, PTL

\* The culprit is on a boundary between a prefix that passed, or the base, and
\* one that failed, for every oracle.
THEOREM BisectBoundary == Spec => []FoundBoundary
<1>1. IInv => FoundBoundary
  BY DEF IInv, TypeOK, Bracket, FoundBoundary
<1> QED
  BY <1>1, Invariance, PTL

\* When failures persist, the culprit's prefix is the first that fails of
\* those that have a unit.
THEOREM BisectFirst == Spec => []FirstIfMonotone
<1>1. IInv => FirstIfMonotone
  BY DEF IInv, TypeOK, Bracket, FirstIfMonotone
<1> QED
  BY <1>1, Invariance, PTL

-----------------------------------------------------------------------------
(* How often the models are run *)

\* Every set of numbers that is not empty has a least one.
LEMMA LeastNumber ==
    ASSUME NEW S \in SUBSET Nat, S # {}
    PROVE  \E x \in S : \A y \in S : x <= y
<1> DEFINE R == OpToRel(<, Nat)
<1>1. IsWellFoundedOn(R, Nat)
  BY NatLessThanWellFounded
<1> HIDE DEF R
<1>2. PICK x \in S : \A y \in S : ~ (<<y, x>> \in R)
  BY <1>1, WFMin
<1>3. ASSUME NEW y \in S PROVE x <= y
  <2>1. x \in Nat /\ y \in Nat
    OBVIOUS
  <2>2. <<y, x>> \in R <=> y < x
    BY <2>1 DEF R, OpToRel
  <2> QED
    BY <1>2, <2>1, <2>2
<1> QED
  BY <1>3

\* f starts with a and follows step up to n.
Iterates(f, T, a, step, n) == /\ f \in [0 .. n -> T] /\ f[0] = a
                              /\ \A m \in 1 .. n : f[m] = step[f[m - 1]]

\* There is such a function for every n, by going up from 0 ...
LEMMA IterationExists ==
    ASSUME NEW T, NEW a \in T, NEW step \in [T -> T], NEW n \in Nat
    PROVE  \E f : Iterates(f, T, a, step, n)
<1> DEFINE Bad == {m \in Nat : ~ \E f : Iterates(f, T, a, step, m)}
<1> SUFFICES ASSUME Bad # {} PROVE FALSE
  OBVIOUS
<1>1. PICK m \in Bad : \A y \in Bad : m <= y
  BY LeastNumber
<1>2. m # 0
  <2>1. Iterates([j \in 0 .. 0 |-> a], T, a, step, 0)
    BY DEF Iterates
  <2> QED
    BY <1>1, <2>1
<1>3. m - 1 \in Nat /\ m - 1 \notin Bad /\ m \in Nat
  BY <1>1, <1>2
<1>4. PICK f : Iterates(f, T, a, step, m - 1)
  BY <1>3
<1> DEFINE g == [j \in 0 .. m |-> IF j = m THEN step[f[m - 1]] ELSE f[j]]
<1>5. Iterates(g, T, a, step, m)
  <2>1. f \in [0 .. m - 1 -> T] /\ f[0] = a /\ \A j \in 1 .. m - 1 : f[j] = step[f[j - 1]]
    BY <1>4 DEF Iterates
  <2>2. g \in [0 .. m -> T]
    BY <1>3, <2>1
  <2>3. g[0] = a
    BY <1>2, <1>3, <2>1
  <2>4. \A j \in 1 .. m : g[j] = step[g[j - 1]]
    BY <1>3, <2>1
  <2> QED
    BY <2>2, <2>3, <2>4 DEF Iterates
<1> QED
  BY <1>1, <1>5

\* ... and only one, as far as two of them reach.
LEMMA IterationUnique ==
    ASSUME NEW T, NEW a, NEW step, NEW n \in Nat, NEW p \in Nat, NEW f, NEW g,
           Iterates(f, T, a, step, n), Iterates(g, T, a, step, p),
           NEW j \in Nat, j <= n, j <= p
    PROVE  f[j] = g[j]
<1> DEFINE Bad == {m \in Nat : m <= n /\ m <= p /\ f[m] # g[m]}
<1> SUFFICES ASSUME Bad # {} PROVE FALSE
  OBVIOUS
<1>1. PICK m \in Bad : \A y \in Bad : m <= y
  BY LeastNumber
<1>2. m \in Nat /\ m <= n /\ m <= p /\ f[m] # g[m]
  BY <1>1
<1>3. m # 0
  BY <1>2 DEF Iterates
<1>4. f[m] = step[f[m - 1]] /\ g[m] = step[g[m - 1]]
  BY <1>2, <1>3 DEF Iterates
<1>5. m - 1 \in Bad
  BY <1>2, <1>3, <1>4
<1> QED
  BY <1>1, <1>2, <1>5

\* So a step can be iterated for ever.
Iterated(f, T, a, step) == /\ f \in [Nat -> T] /\ f[0] = a
                           /\ \A n \in Nat : f[n + 1] = step[f[n]]

\* The two, put together
LEMMA Iteration ==
    ASSUME NEW T, NEW a \in T, NEW step \in [T -> T]
    PROVE  \E f : Iterated(f, T, a, step)
<1> DEFINE F(n) == CHOOSE f : Iterates(f, T, a, step, n)
           g == [n \in Nat |-> F(n)[n]]
<1>1. \A n \in Nat : Iterates(F(n), T, a, step, n)
  BY IterationExists
<1> HIDE DEF F
<1>2. g \in [Nat -> T] /\ g[0] = a
  BY <1>1 DEF Iterates
<1>3. ASSUME NEW n \in Nat PROVE g[n + 1] = step[g[n]]
  <2>1. n + 1 \in Nat /\ n + 1 \in 1 .. n + 1 /\ (n + 1) - 1 = n
    OBVIOUS
  <2>2. F(n + 1)[n + 1] = step[F(n + 1)[n]]
    BY <1>1, <2>1 DEF Iterates
  <2>3. F(n + 1)[n] = F(n)[n]
    BY <1>1, <2>1, IterationUnique
  <2> QED
    BY <2>1, <2>2, <2>3
<1> HIDE DEF g
<1> QED
  BY <1>2, <1>3 DEF Iterated

\* The recursive definition of the powers of 2 means what it says.
LEMMA TwoToTheIs ==
    /\ TwoToThe \in [Nat -> Nat] /\ TwoToThe[0] = 1
    /\ \A n \in Nat : TwoToThe[n + 1] = 2 * TwoToThe[n]
<1> DEFINE Def(h) == h = [n \in Nat |-> IF n = 0 THEN 1 ELSE 2 * h[n - 1]]
           double == [n \in Nat |-> 2 * n]
<1>0. double \in [Nat -> Nat]
  OBVIOUS
<1> HIDE DEF double
<1>a. PICK g : Iterated(g, Nat, 1, double)
  BY <1>0, Iteration
<1>1. g \in [Nat -> Nat] /\ g[0] = 1 /\ \A n \in Nat : g[n + 1] = double[g[n]]
  BY <1>a DEF Iterated
<1>2. \A n \in Nat : n # 0 => g[n] = 2 * g[n - 1]
  <2> SUFFICES ASSUME NEW n \in Nat, n # 0 PROVE g[n] = 2 * g[n - 1]
    OBVIOUS
  <2>1. n - 1 \in Nat /\ (n - 1) + 1 = n
    OBVIOUS
  <2>2. g[(n - 1) + 1] = double[g[n - 1]] /\ g[n - 1] \in Nat
    BY <1>1, <2>1
  <2> QED
    BY <2>1, <2>2 DEF double
<1>4. Def(g)
  BY <1>1, <1>2
<1>5. TwoToThe = CHOOSE h : Def(h)
  BY DEF TwoToThe
<1>6. Def(TwoToThe)
  BY <1>4, <1>5
<1>7. TwoToThe[0] = 1 /\ \A n \in Nat : TwoToThe[n + 1] = 2 * TwoToThe[n]
  BY <1>6
<1> DEFINE Bad == {n \in Nat : TwoToThe[n] \notin Nat}
<1>8. Bad = {}
  <2> SUFFICES ASSUME Bad # {} PROVE FALSE
    OBVIOUS
  <2> HIDE DEF Def
  <2>1. PICK m \in Bad : \A y \in Bad : m <= y
    BY LeastNumber
  <2>2. m # 0 /\ m \in Nat
    BY <1>7, <2>1
  <2>3. m - 1 \in Nat /\ m - 1 \notin Bad /\ TwoToThe[(m - 1) + 1] = 2 * TwoToThe[m - 1]
    BY <1>7, <2>1, <2>2
  <2> QED
    BY <2>1, <2>2, <2>3
<1>9. TwoToThe \in [Nat -> Nat]
  <2>1. TwoToThe = [n \in Nat |-> TwoToThe[n]]
    BY <1>6
  <2> QED
    BY <1>8, <2>1
<1> QED
  BY <1>7, <1>9

\* Two factors that halve and double.
LEMMA HalveAndDouble ==
    ASSUME NEW P \in Nat, NEW x \in Nat, NEW y \in Nat, 2 * x <= y
    PROVE  (2 * P) * x <= P * y
<1>1. (2 * P) * x = P * (2 * x)
  OBVIOUS
<1>2. PICK r \in Nat : y = 2 * x + r
  <2>1. y - 2 * x \in Nat /\ y = 2 * x + (y - 2 * x)
    OBVIOUS
  <2> QED
    BY <2>1
<1>3. P * (2 * x + r) = P * (2 * x) + P * r /\ P * r \in Nat /\ P * (2 * x) \in Nat
  OBVIOUS
<1> QED
  BY <1>1, <1>2, <1>3

\* What is left of the plan shrinks as the number of runs doubles, and until
\* the search is over something is left.
Halving ==
    /\ pc = "check" => evaluations = 0
    /\ pc \in {"search", "found"} =>
         /\ TwoToThe[evaluations] * (hi - lo - 1) <= Len(units) - 1
         /\ evaluations = 0 \/ TwoToThe[evaluations] <= 2 * (Len(units) - 1)

\* Every step keeps that.
LEMMA HalvingKept ==
    ASSUME IInv, Halving, [Next]_vars
    PROVE  Halving'
<1>0. /\ TwoToThe \in [Nat -> Nat] /\ TwoToThe[0] = 1
      /\ \A n \in Nat : TwoToThe[n + 1] = 2 * TwoToThe[n]
  BY TwoToTheIs
<1> HIDE DEF TwoToThe
<1>1. CASE MakePlan
  <2> DEFINE p == Plan(base, cand, fused)
  <2>1. Len(p) \in Nat /\ (p # <<>> => Len(p) >= 1)
    BY FinitePlan DEF IInv
  <2>2. /\ units' = p /\ p # <<>> /\ lo' = 0 /\ hi' = Len(p) /\ pc' = "search"
        /\ evaluations' = 0
    BY <1>1 DEF MakePlan, Halving
  <2> HIDE DEF p
  <2> QED
    BY <1>0, <2>1, <2>2 DEF Halving
<1>2. CASE Probe
  <2> DEFINE P == TwoToThe[evaluations]
             n == Len(units)
             d == hi - lo - 1
             e == hi' - lo' - 1
  <2>1. /\ lo \in Nat /\ hi \in Nat /\ hi - lo > 1 /\ n \in Nat /\ hi <= n /\ evaluations \in Nat
        /\ pc = "search"
    BY <1>2 DEF Probe, IInv, TypeOK
  <2>2. /\ pc' = pc /\ units' = units /\ evaluations' = evaluations + 1
        /\ IF passes[Mid] THEN lo' = Mid /\ hi' = hi ELSE hi' = Mid /\ lo' = lo
    BY <1>2 DEF Probe
  <2>3. d \in Nat /\ d >= 1 /\ e \in Nat /\ 2 * e <= d
    BY <2>1, <2>2 DEF Mid
  <2>4. P \in Nat /\ P * d <= n - 1 /\ TwoToThe[evaluations'] = 2 * P
    BY <1>0, <2>1, <2>2 DEF Halving
  <2> HIDE DEF P, d, e, n
  <2>5. (2 * P) * e <= P * d /\ P * 1 <= P * d /\ P * d \in Nat /\ (2 * P) * e \in Nat
    <3>1. PICK r \in Nat : d = 1 + r
      <4>1. d - 1 \in Nat /\ d = 1 + (d - 1)
        BY <2>3
      <4> QED
        BY <4>1
    <3>2. P * (1 + r) = P * 1 + P * r /\ P * r \in Nat
      BY <2>4, <3>1
    <3> QED
      BY <2>3, <2>4, <3>1, <3>2, HalveAndDouble
  <2>6. (2 * P) * e <= n - 1 /\ 2 * P <= 2 * (n - 1)
    BY <2>1, <2>4, <2>5 DEF n
  <2> QED
    BY <2>1, <2>2, <2>4, <2>6 DEF Halving, e, n
<1>3. CASE NoFailure \/ CheckRaises \/ NothingDiffers \/ ProbeInvalid \/ ProbeRaises
  BY <1>3 DEF NoFailure, CheckRaises, NothingDiffers, ProbeInvalid, ProbeRaises, Halving
<1>4. CASE Return
  BY <1>4 DEF Return, Halving
<1>5. CASE UNCHANGED vars
  BY <1>5 DEF vars, Halving
<1> QED
  BY <1>1, <1>2, <1>3, <1>4, <1>5 DEF Next

\* bisect_failure runs the models no more often than the logarithm of the
\* number of units, rounded up, for a plan of any length and every oracle.
THEOREM BisectFew == Spec => []FewEvaluations
<1>1. Init => Halving
  BY DEF Init, Halving
<1>2. IInv /\ Halving /\ [Next]_vars => Halving'
  BY HalvingKept
<1>3. IInv /\ Halving => FewEvaluations
  <2> SUFFICES ASSUME IInv, Halving, pc = "found" PROVE TwoToThe[evaluations] < 2 * Len(units)
    BY DEF FewEvaluations
  <2>1. Len(units) \in Nat /\ Len(units) >= 1 /\ evaluations \in Nat
    BY DEF IInv, TypeOK
  <2>2. TwoToThe[evaluations] \in Nat /\ TwoToThe[0] = 1
    BY <2>1, TwoToTheIs
  <2> HIDE DEF TwoToThe
  <2>3. evaluations = 0 \/ TwoToThe[evaluations] <= 2 * (Len(units) - 1)
    BY DEF Halving
  <2> QED
    BY <2>1, <2>2, <2>3
<1> QED
  BY <1>1, <1>2, <1>3, Invariance, PTL DEF Spec

-----------------------------------------------------------------------------
(* Groups of linked items *)

\* A set of items with everything that is linked to one of them
Closed(items, A) == A \subseteq items /\ \A x \in A, y \in items : Linked(x, y) => y \in A

\* Links go both ways.
LEMMA LinkedBack ==
    ASSUME NEW x, NEW y, Linked(x, y)
    PROVE  Linked(y, x)
BY DEF Linked

\* What is outside of a closed set is closed.
LEMMA ClosedOutside ==
    ASSUME NEW items, NEW A, Closed(items, A)
    PROVE  Closed(items, items \ A)
BY LinkedBack DEF Closed

\* One round of growing a group
Grown(items, S) == {y \in items : y \in S \/ \E z \in S : Linked(z, y)}

\* The group of an item is what the rounds leave after as many as there are items.
LEMMA GroupGrows ==
    ASSUME NEW items, IsFiniteSet(items), NEW x \in items
    PROVE  \E f : /\ \A k \in Nat : f[k] \subseteq items
                  /\ f[0] = {x} /\ \A k \in Nat : f[k + 1] = Grown(items, f[k])
                  /\ Group(items, x) = f[Cardinality(items)]
<1> DEFINE N == Cardinality(items)
           step == [S \in SUBSET items |-> Grown(items, S)]
           Def(h) == h = [k \in 0 .. N |->
                            IF k = 0 THEN {x}
                            ELSE {y \in items : y \in h[k - 1] \/ \E z \in h[k - 1] : Linked(z, y)}]
           G == CHOOSE h : Def(h)
<1>1. N \in Nat
  BY FS_CardinalityType
<1>2. step \in [SUBSET items -> SUBSET items] /\ {x} \in SUBSET items
  BY DEF Grown
<1>3. PICK f : Iterated(f, SUBSET items, {x}, step)
  <2> HIDE DEF step
  <2> QED
    BY <1>2, Iteration
<1>4. f \in [Nat -> SUBSET items] /\ f[0] = {x} /\ \A k \in Nat : f[k + 1] = Grown(items, f[k])
  <2>1. f \in [Nat -> SUBSET items] /\ f[0] = {x} /\ \A k \in Nat : f[k + 1] = step[f[k]]
    BY <1>3 DEF Iterated
  <2> QED
    BY <2>1
<1> DEFINE g == [k \in 0 .. N |-> f[k]]
<1>5. Group(items, x) = G[N]
  BY DEF Group
<1> HIDE DEF N
<1>6. Def(g)
  <2>1. ASSUME NEW k \in 0 .. N, k # 0 PROVE f[k] = Grown(items, g[k - 1])
    <3>1. k - 1 \in Nat /\ (k - 1) + 1 = k /\ k - 1 \in 0 .. N
      BY <1>1, <2>1
    <3>2. f[(k - 1) + 1] = Grown(items, f[k - 1])
      BY <1>4, <3>1
    <3> QED
      BY <3>1, <3>2
  <2>2. ASSUME NEW k \in 0 .. N
        PROVE  f[k] = IF k = 0 THEN {x}
                      ELSE {y \in items : y \in g[k - 1] \/ \E z \in g[k - 1] : Linked(z, y)}
    BY <1>4, <2>1 DEF Grown
  <2> HIDE DEF g
  <2>3. g = [k \in 0 .. N |->
                            IF k = 0 THEN {x}
                            ELSE {y \in items : y \in g[k - 1] \/ \E z \in g[k - 1] : Linked(z, y)}]
    BY <2>2 DEF g
  <2> QED
    BY <2>3
<1>7. Def(G)
  <2> HIDE DEF Def, g
  <2> QED
    BY <1>6
<1> HIDE DEF G
<1>8. \A k \in 0 .. N : G[k] = f[k]
  <2> DEFINE Bad == {k \in Nat : k <= N /\ G[k] # f[k]}
  <2> SUFFICES ASSUME Bad # {} PROVE FALSE
    BY <1>1
  <2>1. PICK k \in Bad : \A y \in Bad : k <= y
    BY LeastNumber
  <2>2. k \in 0 .. N /\ k \in Nat /\ G[k] # f[k]
    BY <1>1, <2>1
  <2>3. k # 0
    BY <1>4, <1>7, <2>2
  <2>4. k - 1 \in Nat /\ (k - 1) + 1 = k /\ k - 1 \in 0 .. N
    BY <1>1, <2>2, <2>3
  <2>5. f[k] = Grown(items, f[k - 1])
    BY <1>4, <2>4
  <2>6. G[k] = Grown(items, G[k - 1])
    BY <1>7, <2>2, <2>3 DEF Grown
  <2>7. k - 1 \in Bad
    BY <1>1, <2>2, <2>4, <2>5, <2>6
  <2> QED
    BY <2>1, <2>2, <2>7
<1>9. G[N] = f[N]
  BY <1>1, <1>8
<1> QED
  BY <1>4, <1>5, <1>9 DEF N

\* It is the least closed set with the item in it.
LEMMA GroupLeast ==
    ASSUME NEW items, IsFiniteSet(items), NEW x \in items
    PROVE  /\ x \in Group(items, x) /\ Closed(items, Group(items, x))
           /\ \A S : Closed(items, S) /\ x \in S => Group(items, x) \subseteq S
<1> DEFINE N == Cardinality(items)
<1>1. PICK f : /\ \A k \in Nat : f[k] \subseteq items
               /\ f[0] = {x} /\ \A k \in Nat : f[k + 1] = Grown(items, f[k])
               /\ Group(items, x) = f[N]
  BY GroupGrows
<1>2. N \in Nat
  BY FS_CardinalityType
<1> HIDE DEF N
<1>3. ASSUME NEW S, Closed(items, S), x \in S PROVE \A k \in Nat : f[k] \subseteq S
  <2> DEFINE Bad == {k \in Nat : ~ (f[k] \subseteq S)}
  <2> SUFFICES ASSUME Bad # {} PROVE FALSE
    OBVIOUS
  <2>1. PICK k \in Bad : \A y \in Bad : k <= y
    BY LeastNumber
  <2>2. k # 0 /\ k \in Nat
    BY <1>1, <1>3, <2>1
  <2>3. k - 1 \in Nat /\ (k - 1) + 1 = k /\ k - 1 \notin Bad
    BY <2>1, <2>2
  <2>4. f[k] = Grown(items, f[k - 1]) /\ f[k - 1] \subseteq S
    BY <1>1, <2>3
  <2>5. f[k] \subseteq S
    BY <1>3, <2>4 DEF Grown, Closed
  <2> QED
    BY <2>1, <2>5
<1>4. \A k \in Nat : x \in f[k]
  <2> DEFINE Bad == {k \in Nat : x \notin f[k]}
  <2> SUFFICES ASSUME Bad # {} PROVE FALSE
    OBVIOUS
  <2>1. PICK k \in Bad : \A y \in Bad : k <= y
    BY LeastNumber
  <2>2. k # 0 /\ k \in Nat
    BY <1>1, <2>1
  <2>3. k - 1 \in Nat /\ (k - 1) + 1 = k /\ k - 1 \notin Bad
    BY <2>1, <2>2
  <2>4. f[k] = Grown(items, f[k - 1]) /\ x \in f[k - 1]
    BY <1>1, <2>3
  <2> QED
    BY <2>1, <2>4 DEF Grown
<1>5. \A k \in Nat : Closed(items, f[k]) \/ Cardinality(f[k]) >= k + 1
  <2> DEFINE Bad == {k \in Nat : ~ Closed(items, f[k]) /\ ~ (Cardinality(f[k]) >= k + 1)}
  <2> SUFFICES ASSUME Bad # {} PROVE FALSE
    OBVIOUS
  <2>1. PICK k \in Bad : \A y \in Bad : k <= y
    BY LeastNumber
  <2>2. k # 0 /\ k \in Nat
    <3>1. Cardinality(f[0]) = 1
      BY <1>1, FS_Singleton
    <3> QED
      BY <2>1, <3>1
  <2>3. k - 1 \in Nat /\ (k - 1) + 1 = k /\ k - 1 \notin Bad
    BY <2>1, <2>2
  <2>4. f[k] = Grown(items, f[k - 1]) /\ f[k - 1] \subseteq items /\ f[k] \subseteq items
    BY <1>1, <2>2, <2>3
  <2>5. CASE Closed(items, f[k - 1])
    <3>1. f[k] = f[k - 1]
      BY <2>4, <2>5 DEF Grown, Closed
    <3> QED
      BY <2>1, <2>5, <3>1
  <2>6. CASE Cardinality(f[k - 1]) >= (k - 1) + 1 /\ ~ Closed(items, f[k - 1])
    <3>1. f[k - 1] \subseteq f[k] /\ f[k - 1] # f[k]
      BY <2>4, <2>6 DEF Grown, Closed
    <3>2. IsFiniteSet(f[k])
      BY <2>4, FS_Subset
    <3>3. Cardinality(f[k - 1]) <= Cardinality(f[k]) /\ Cardinality(f[k - 1]) # Cardinality(f[k])
      BY <3>1, <3>2, FS_Subset
    <3>4. Cardinality(f[k]) \in Nat /\ Cardinality(f[k - 1]) \in Nat
      BY <3>1, <3>2, FS_Subset, FS_CardinalityType
    <3>5. Cardinality(f[k]) >= k + 1
      BY <2>2, <2>6, <3>3, <3>4
    <3> QED
      BY <2>1, <3>5
  <2> QED
    BY <2>3, <2>5, <2>6
<1>6. Closed(items, f[N])
  <2> SUFFICES ASSUME Cardinality(f[N]) >= N + 1 PROVE FALSE
    BY <1>2, <1>5
  <2>1. f[N] \subseteq items
    BY <1>1, <1>2
  <2>2. Cardinality(f[N]) <= N /\ Cardinality(f[N]) \in Nat
    BY <2>1, FS_Subset, FS_CardinalityType DEF N
  <2> QED
    BY <1>2, <2>2
<1> QED
  BY <1>1, <1>2, <1>3, <1>4, <1>6

\* Two groups with an item in common are one.
LEMMA GroupsApart ==
    ASSUME NEW items, IsFiniteSet(items), NEW x \in items, NEW y \in items,
           NEW z, z \in Group(items, x), z \in Group(items, y)
    PROVE  Group(items, x) = Group(items, y)
<1>1. ASSUME NEW u \in items, NEW v \in items, z \in Group(items, u), z \in Group(items, v)
      PROVE  Group(items, u) \subseteq Group(items, v)
  <2>1. Closed(items, Group(items, v)) /\ Closed(items, items \ Group(items, v))
    BY GroupLeast, ClosedOutside
  <2>2. u \in Group(items, v)
    <3> SUFFICES ASSUME u \in items \ Group(items, v) PROVE FALSE
      OBVIOUS
    <3>1. Group(items, u) \subseteq items \ Group(items, v)
      BY <2>1, GroupLeast
    <3> QED
      BY <1>1, <3>1
  <2> QED
    BY <2>1, <2>2, GroupLeast
<1> QED
  BY <1>1

\* A graph's node list
LEMMA NodeList ==
    ASSUME NEW g, Finite(g)
    PROVE  Len(g.nodes) \in Nat /\ DOMAIN g.nodes = 1 .. Len(g.nodes)
BY DEF Finite

\* Two nodes of a graph with a tensor in common, and in particular with the
\* same first output, are one.
LEMMA OneMaker ==
    ASSUME NEW g, WellFormed(g), NEW i \in DOMAIN g.nodes, NEW j \in DOMAIN g.nodes,
           \/ g.nodes[i].outs[1] = g.nodes[j].outs[1]
           \/ Outs(g.nodes[i]) \intersect Outs(g.nodes[j]) # {}
    PROVE  i = j
<1>1. \A k \in DOMAIN g.nodes : g.nodes[k].outs[1] \in Outs(g.nodes[k])
  BY DEF WellFormed, Outs, ToSet
<1> SUFFICES ASSUME i # j PROVE FALSE
  OBVIOUS
<1>2. Outs(g.nodes[i]) \intersect Outs(g.nodes[j]) = {}
  BY DEF WellFormed
<1> QED
  BY <1>1, <1>2

\* A base node goes where its match is, or after the candidate.
LEMMA Positions ==
    ASSUME NEW b, NEW c, Finite(b), Finite(c), NEW i \in DOMAIN b.nodes
    PROVE  \/ Position(b, c, i) = Len(c.nodes) + i
           \/ Position(b, c, i) \in DOMAIN c.nodes /\ <<i, Position(b, c, i)>> \in Matched(b, c)
<1> DEFINE js == {p[2] : p \in {q \in Matched(b, c) : q[1] = i}}
<1>1. Position(b, c, i) = IF js = {} THEN Len(c.nodes) + i ELSE CHOOSE j \in js : TRUE
  BY DEF Position
<1>2. \A j \in js : j \in DOMAIN c.nodes /\ <<i, j>> \in Matched(b, c)
  BY DEF Matched
<1> HIDE DEF js
<1>3. js # {} => (CHOOSE j \in js : TRUE) \in js
  OBVIOUS
<1> QED
  BY <1>1, <1>2, <1>3

\* What the three kinds of items are: a base node that goes,
LEMMA BaseIs ==
    ASSUME NEW b, NEW c, NEW fu, NEW i, NEW x, x = BaseItem(b, c, fu, i)
    PROVE  /\ x.kind = "base" /\ x.ref = i /\ x.outs = Outs(b.nodes[i]) /\ x.ins = Ins(b.nodes[i])
           /\ x.key = <<"block", FusionBlocks(b, fu)[i]>>
BY DEF BaseItem, Item

\* A candidate node that comes,
LEMMA CandIs ==
    ASSUME NEW b, NEW c, NEW fu, NEW j, NEW x, x = CandItem(b, c, fu, j)
    PROVE  /\ x.kind = "cand" /\ x.ref = j /\ x.outs = Outs(c.nodes[j]) /\ x.ins = Ins(c.nodes[j])
BY DEF CandItem, Item

\* and an initializer that changes.
LEMMA InitIs ==
    ASSUME NEW b, NEW c, NEW n, NEW x, x = InitItem(b, c, n)
    PROVE  /\ x.kind = "init" /\ x.ref = n /\ x.outs = {n} /\ x.ins = {}
BY DEF InitItem, Item

\* An item is of one of the three kinds.
LEMMA ItemKinds ==
    ASSUME NEW b, NEW c, NEW fu, NEW x \in Items(b, c, fu)
    PROVE  \/ \E i \in DiffBase(b, c) : x = BaseItem(b, c, fu, i)
           \/ \E j \in DiffCand(b, c) : x = CandItem(b, c, fu, j)
           \/ \E n \in DiffInit(b, c) : x = InitItem(b, c, n)
BY DEF Items

\* Items have different places in the list, and none comes before it.
LEMMA RanksApart ==
    ASSUME NEW b, NEW c, NEW fu, WellFormed(b), WellFormed(c), NEW x \in Items(b, c, fu)
    PROVE  /\ x.rank \in Nat /\ x.pos \in Int /\ x.pos >= -1
           /\ \A y \in Items(b, c, fu) : x.rank = y.rank => x = y
<1> DEFINE B == Len(b.nodes)
           C == Len(c.nodes)
           P(i) == Position(b, c, i)
<1>1. B \in Nat /\ C \in Nat /\ DOMAIN b.nodes = 1 .. B /\ DOMAIN c.nodes = 1 .. C
  BY NodeList DEF WellFormed
<1>2. DiffBase(b, c) \subseteq 1 .. B /\ DiffCand(b, c) \subseteq 1 .. C /\ DiffInit(b, c) \subseteq Nat \ {0}
  BY <1>1 DEF DiffBase, DiffCand, DiffInit, WellFormed
<1>3. \A i \in 1 .. B : P(i) = C + i \/ (P(i) \in 1 .. C /\ b.nodes[i].outs[1] = c.nodes[P(i)].outs[1])
  <2> SUFFICES ASSUME NEW i \in 1 .. B
               PROVE  P(i) = C + i \/ (P(i) \in 1 .. C /\ b.nodes[i].outs[1] = c.nodes[P(i)].outs[1])
    OBVIOUS
  <2>1. P(i) = C + i \/ (P(i) \in 1 .. C /\ <<i, P(i)>> \in Matched(b, c))
    BY <1>1, Positions DEF WellFormed
  <2> QED
    BY <2>1 DEF Matched
<1>4. \A i, j \in 1 .. B : P(i) \in 1 .. C /\ P(i) = P(j) => i = j
  <2> SUFFICES ASSUME NEW i \in 1 .. B, NEW j \in 1 .. B, P(i) \in 1 .. C, P(i) = P(j) PROVE i = j
    OBVIOUS
  <2>1. b.nodes[i].outs[1] = c.nodes[P(i)].outs[1] /\ b.nodes[j].outs[1] = c.nodes[P(i)].outs[1]
    BY <1>1, <1>3
  <2> QED
    BY <1>1, <2>1, OneMaker
<1> HIDE DEF B, C, P
<1> DEFINE Is(y) ==
             \/ /\ y.kind = "base" /\ y = BaseItem(b, c, fu, y.ref) /\ y.ref \in 1 .. B
                /\ y.pos = P(y.ref) /\ y.rank = IF P(y.ref) > C THEN y.ref ELSE B + P(y.ref)
             \/ /\ y.kind = "cand" /\ y = CandItem(b, c, fu, y.ref) /\ y.ref \in 1 .. C
                /\ y.pos = y.ref /\ y.rank = B + C + y.ref
             \/ /\ y.kind = "init" /\ y = InitItem(b, c, y.ref) /\ y.ref \in Nat \ {0}
                /\ y.pos = -1 /\ y.rank = B + 2 * C + y.ref
<1>5. ASSUME NEW y \in Items(b, c, fu) PROVE Is(y)
  <2> HIDE DEF Is
  <2>1. ASSUME NEW i \in DiffBase(b, c), y = BaseItem(b, c, fu, i) PROVE Is(y)
    <3>1. y.kind = "base" /\ y.ref = i /\ y.pos = P(i) /\ y.rank = IF P(i) > C THEN i ELSE B + P(i)
      BY <2>1 DEF BaseItem, Item, B, C, P
    <3> QED
      BY <1>2, <2>1, <3>1 DEF Is
  <2>2. ASSUME NEW j \in DiffCand(b, c), y = CandItem(b, c, fu, j) PROVE Is(y)
    <3>1. y.kind = "cand" /\ y.ref = j /\ y.pos = j /\ y.rank = B + C + j
      BY <1>1, <1>2, <2>2 DEF CandItem, Item, B, C
    <3> QED
      BY <1>2, <2>2, <3>1 DEF Is
  <2>3. ASSUME NEW n \in DiffInit(b, c), y = InitItem(b, c, n) PROVE Is(y)
    <3>1. y.kind = "init" /\ y.ref = n /\ y.pos = -1 /\ y.rank = B + 2 * C + n
      BY <1>1, <1>2, <2>3 DEF InitItem, Item, B, C
    <3> QED
      BY <1>2, <2>3, <3>1 DEF Is
  <2> QED
    BY <2>1, <2>2, <2>3, ItemKinds
<1>6. ASSUME NEW y \in Items(b, c, fu)
      PROVE  /\ y.pos \in Int /\ y.pos >= -1
             /\ \/ /\ y.kind = "base" /\ y.ref \in 1 .. B
                   /\ \/ y.rank = y.ref
                      \/ P(y.ref) \in 1 .. C /\ y.rank = B + P(y.ref)
                \/ y.kind = "cand" /\ y.ref \in 1 .. C /\ y.rank = B + C + y.ref
                \/ y.kind = "init" /\ y.ref \in Nat \ {0} /\ y.rank = B + 2 * C + y.ref
  <2>1. CASE y.kind = "base"
    <3>1. /\ y.ref \in 1 .. B /\ y.pos = P(y.ref)
          /\ y.rank = IF P(y.ref) > C THEN y.ref ELSE B + P(y.ref)
      BY <1>5, <2>1
    <3>2. P(y.ref) = C + y.ref \/ P(y.ref) \in 1 .. C
      BY <1>3, <3>1
    <3> QED
      BY <1>1, <2>1, <3>1, <3>2
  <2>2. CASE y.kind # "base"
    BY <1>1, <1>5, <2>2
  <2> QED
    BY <2>1, <2>2
<1>7. ASSUME NEW y \in Items(b, c, fu) PROVE y.rank \in Nat
  BY <1>1, <1>6
<1>8. ASSUME NEW y \in Items(b, c, fu), x.rank = y.rank PROVE x = y
  <2>1. x.kind = y.kind
    <3> DEFINE Above(it) == /\ it.kind = "base" => it.rank <= B + C
                            /\ it.kind = "cand" => it.rank > B + C /\ it.rank <= B + 2 * C
                            /\ it.kind = "init" => it.rank > B + 2 * C
    <3>1. ASSUME NEW z \in Items(b, c, fu)
          PROVE  Above(z) /\ z.kind \in {"base", "cand", "init"}
      <4>1. CASE z.kind = "base"
        BY <1>1, <1>6, <4>1
      <4>2. CASE z.kind = "cand"
        BY <1>1, <1>6, <4>2
      <4>3. CASE z.kind = "init"
        BY <1>1, <1>6, <4>3
      <4> QED
        BY <1>6, <4>1, <4>2, <4>3
    <3>2. Above(x) /\ Above(y) /\ x.rank \in Nat /\ y.rank \in Nat
      BY <1>7, <3>1
    <3>3. x.kind \in {"base", "cand", "init"} /\ y.kind \in {"base", "cand", "init"}
      BY <3>1
    <3> QED
      BY <1>1, <1>8, <3>2, <3>3
  <2>2. CASE x.kind = "base"
    <3>1. /\ x.ref \in 1 .. B /\ y.ref \in 1 .. B
          /\ x.rank = x.ref \/ (P(x.ref) \in 1 .. C /\ x.rank = B + P(x.ref))
          /\ y.rank = y.ref \/ (P(y.ref) \in 1 .. C /\ y.rank = B + P(y.ref))
      BY <1>6, <2>1, <2>2
    <3>2. x.ref = y.ref \/ (P(x.ref) \in 1 .. C /\ P(x.ref) = P(y.ref))
      BY <1>1, <1>8, <3>1
    <3> QED
      BY <1>4, <1>5, <2>1, <2>2, <3>1, <3>2
  <2>3. CASE x.kind # "base"
    <3>1. x.ref = y.ref
      BY <1>1, <1>6, <1>8, <2>1, <2>3
    <3> QED
      BY <1>5, <2>1, <2>3, <3>1
  <2> QED
    BY <2>2, <2>3
<1> QED
  BY <1>6, <1>7, <1>8

-----------------------------------------------------------------------------
(* The order of the units *)

\* A set of integers from -1 on has a least element.
LEMMA LeastInteger ==
    ASSUME NEW S, S # {}, \A x \in S : x \in Int /\ x >= -1
    PROVE  Min(S) \in S /\ \A x \in S : Min(S) <= x
<1> DEFINE T == {x + 1 : x \in S}
<1>1. T \in SUBSET Nat /\ T # {}
  OBVIOUS
<1>2. PICK t \in T : \A y \in T : t <= y
  BY <1>1, LeastNumber
<1>3. PICK x \in S : t = x + 1
  BY <1>2
<1>4. \A y \in S : x <= y
  <2> SUFFICES ASSUME NEW y \in S PROVE x <= y
    OBVIOUS
  <2>1. y + 1 \in T
    OBVIOUS
  <2>2. x + 1 <= y + 1
    BY <1>2, <1>3, <2>1
  <2> QED
    BY <2>2
<1> QED
  BY <1>4 DEF Min

\* The groups of a plan
Groups(b, c, fu) == {Group(Items(b, c, fu), x) : x \in Items(b, c, fu)}

\* Groups are closed sets of items, not empty, and apart.
LEMMA GroupsAre ==
    ASSUME NEW b, NEW c, NEW fu, Finite(b), Finite(c)
    PROVE  /\ \A g \in Groups(b, c, fu) : Closed(Items(b, c, fu), g) /\ g # {}
           /\ \A g, h \in Groups(b, c, fu) : \A x : x \in g /\ x \in h => g = h
           /\ \A x \in Items(b, c, fu) : \E g \in Groups(b, c, fu) : x \in g
           /\ IsFiniteSet(Groups(b, c, fu))
<1> DEFINE items == Items(b, c, fu)
           f == [x \in items |-> Group(items, x)]
<1>0. IsFiniteSet(items)
  BY FiniteItems
<1>1. Groups(b, c, fu) = {Group(items, x) : x \in items}
  BY DEF Groups
<1> HIDE DEF items
<1>2. \A g \in Groups(b, c, fu) : Closed(items, g) /\ g # {}
  BY <1>0, <1>1, GroupLeast
<1>3. ASSUME NEW g \in Groups(b, c, fu), NEW h \in Groups(b, c, fu), NEW x, x \in g, x \in h
      PROVE  g = h
  <2>1. PICK u \in items, v \in items : g = Group(items, u) /\ h = Group(items, v)
    BY <1>1
  <2> QED
    BY <1>0, <1>3, <2>1, GroupsApart
<1>4. \A x \in items : \E g \in Groups(b, c, fu) : x \in g
  BY <1>0, <1>1, GroupLeast
<1>5. IsFiniteSet({f[x] : x \in items})
  BY <1>0, FiniteImage
<1>6. IsFiniteSet(Groups(b, c, fu))
  BY <1>1, <1>5
<1> HIDE DEF f
<1> QED
  BY <1>2, <1>3, <1>4, <1>6 DEF items

\* Where a group comes, and its earliest item in the list
FirstPos(g) == Min({x.pos : x \in g})
FirstRank(g) == Min({x.rank : x \in g})

\* No two groups have the same, and so the groups are in one order.
LEMMA GroupsOrdered ==
    ASSUME NEW b, NEW c, NEW fu, WellFormed(b), WellFormed(c)
    PROVE  /\ \A g \in Groups(b, c, fu) : FirstPos(g) \in Int /\ FirstRank(g) \in Int
           /\ \A g, h \in Groups(b, c, fu) : FirstRank(g) = FirstRank(h) => g = h
<1> DEFINE items == Items(b, c, fu)
<1>1. ASSUME NEW g \in Groups(b, c, fu)
      PROVE  FirstPos(g) \in Int /\ FirstRank(g) \in Int /\ \E x \in g : FirstRank(g) = x.rank
  <2>1. g \subseteq items /\ g # {}
    BY GroupsAre DEF Closed, WellFormed
  <2>2. \A x \in g : x.pos \in Int /\ x.pos >= -1 /\ x.rank \in Int /\ x.rank >= -1
    BY <2>1, RanksApart
  <2>3. FirstPos(g) \in {x.pos : x \in g}
    <3> DEFINE S == {x.pos : x \in g}
    <3>1. S # {} /\ \A n \in S : n \in Int /\ n >= -1
      BY <2>1, <2>2
    <3>2. FirstPos(g) = Min(S)
      BY DEF FirstPos
    <3> HIDE DEF S
    <3>3. Min(S) \in S
      BY <3>1, LeastInteger
    <3> QED
      BY <3>2, <3>3 DEF S
  <2>4. FirstRank(g) \in {x.rank : x \in g}
    <3> DEFINE S == {x.rank : x \in g}
    <3>1. S # {} /\ \A n \in S : n \in Int /\ n >= -1
      BY <2>1, <2>2
    <3>2. FirstRank(g) = Min(S)
      BY DEF FirstRank
    <3> HIDE DEF S
    <3>3. Min(S) \in S
      BY <3>1, LeastInteger
    <3> QED
      BY <3>2, <3>3 DEF S
  <2> QED
    BY <2>2, <2>3, <2>4
<1>2. ASSUME NEW g \in Groups(b, c, fu), NEW h \in Groups(b, c, fu), FirstRank(g) = FirstRank(h)
      PROVE  g = h
  <2>1. PICK x \in g, y \in h : x.rank = y.rank
    BY <1>1, <1>2
  <2>2. x \in items /\ y \in items
    BY GroupsAre DEF Closed, WellFormed
  <2>3. x = y
    BY <2>1, <2>2, RanksApart
  <2> QED
    BY <2>3, GroupsAre DEF WellFormed
<1> QED
  BY <1>1, <1>2

\* A group's place in that order, and the group at a place
PlaceOf(b, c, fu, g) == Cardinality({h \in Groups(b, c, fu) : GroupBefore(h, g)}) + 1
GroupAt(b, c, fu, k) == CHOOSE g \in Groups(b, c, fu) : PlaceOf(b, c, fu, g) = k

\* Every place is taken, by one group.
LEMMA Places ==
    ASSUME NEW b, NEW c, NEW fu, WellFormed(b), WellFormed(c),
           NEW k \in 1 .. Cardinality(Groups(b, c, fu))
    PROVE  \E g \in Groups(b, c, fu) : PlaceOf(b, c, fu, g) = k
<1> DEFINE G == Groups(b, c, fu)
           N == Cardinality(G)
           Below(g) == {h \in G : GroupBefore(h, g)}
           f == [g \in G |-> Cardinality(Below(g)) + 1]
<1>1. IsFiniteSet(G) /\ N \in Nat
  BY GroupsAre, FS_CardinalityType DEF WellFormed
<1>2. /\ \A g \in G : FirstPos(g) \in Int /\ FirstRank(g) \in Int
      /\ \A g, h \in G : FirstRank(g) = FirstRank(h) => g = h
  BY GroupsOrdered
<1> HIDE DEF G
<1>3. \A g, h : GroupBefore(g, h) <=> \/ FirstPos(g) < FirstPos(h)
                                      \/ FirstPos(g) = FirstPos(h) /\ FirstRank(g) < FirstRank(h)
  BY DEF GroupBefore, FirstPos, FirstRank
<1>4. ASSUME NEW g \in G PROVE Below(g) \subseteq G \ {g}
  BY <1>2, <1>3
<1>5. \A g \in G : f[g] \in 1 .. N
  <2> SUFFICES ASSUME NEW g \in G PROVE Cardinality(Below(g)) + 1 \in 1 .. N
    OBVIOUS
  <2>1. IsFiniteSet(G \ {g}) /\ Cardinality(G \ {g}) = N - 1
    BY <1>1, FS_RemoveElement
  <2>2. Cardinality(Below(g)) <= N - 1 /\ Cardinality(Below(g)) \in Nat
    BY <1>4, <2>1, FS_Subset, FS_CardinalityType
  <2> QED
    BY <1>1, <2>2
<1>6. ASSUME NEW g \in G, NEW h \in G, GroupBefore(g, h) PROVE f[g] # f[h]
  <2>1. Below(g) \subseteq Below(h) /\ g \in Below(h) /\ g \notin Below(g)
    <3>1. ASSUME NEW x \in G, GroupBefore(x, g) PROVE GroupBefore(x, h)
      BY <1>2, <1>3, <1>6, <3>1
    <3> QED
      BY <1>4, <1>6, <3>1
  <2>2. IsFiniteSet(Below(h))
    BY <1>1, FS_Subset
  <2>3. Cardinality(Below(g)) # Cardinality(Below(h))
    BY <2>1, <2>2, FS_Subset
  <2>4. Cardinality(Below(g)) \in Nat /\ Cardinality(Below(h)) \in Nat
    BY <2>1, <2>2, FS_Subset, FS_CardinalityType
  <2> HIDE DEF Below
  <2> QED
    BY <2>3, <2>4
<1>7. \A g, h \in G : f[g] = f[h] => g = h
  <2> SUFFICES ASSUME NEW g \in G, NEW h \in G, g # h PROVE f[g] # f[h]
    OBVIOUS
  <2>1. GroupBefore(g, h) \/ GroupBefore(h, g)
    BY <1>2, <1>3
  <2> QED
    BY <1>6, <2>1
<1>8. f \in Injection(G, 1 .. N)
  <2> HIDE DEF f
  <2>1. f \in [G -> 1 .. N]
    BY <1>5 DEF f
  <2> QED
    BY <1>7, <2>1 DEF Injection, IsInjective
<1>9. f \in Surjection(G, 1 .. N)
  <2>1. IsFiniteSet(1 .. N) /\ Cardinality(1 .. N) = N
    BY <1>1, FS_Interval
  <2> HIDE DEF f
  <2> QED
    BY <1>8, <2>1, FS_Injection
<1>10. PICK g \in G : f[g] = k
  <2> HIDE DEF f
  <2>1. k \in 1 .. N
    BY DEF G
  <2> QED
    BY <1>9, <2>1 DEF Surjection
<1> QED
  BY <1>10 DEF PlaceOf, G

\* A plan is made of the groups, each at its place.
LEMMA PlanIs ==
    ASSUME NEW b, NEW c, NEW fu, WellFormed(b), WellFormed(c)
    PROVE  LET N == Cardinality(Groups(b, c, fu))
           IN  /\ N \in Nat /\ Len(Plan(b, c, fu)) = N /\ DOMAIN Plan(b, c, fu) = 1 .. N
               /\ \A k \in 1 .. N : /\ Plan(b, c, fu)[k] = UnitOf(b, c, fu, GroupAt(b, c, fu, k))
                                    /\ GroupAt(b, c, fu, k) \in Groups(b, c, fu)
               /\ \A k, l \in 1 .. N : GroupAt(b, c, fu, k) = GroupAt(b, c, fu, l) => k = l
               /\ \A g \in Groups(b, c, fu) : \E k \in 1 .. N : g = GroupAt(b, c, fu, k)
<1> DEFINE G == Groups(b, c, fu)
           N == Cardinality(G)
           At(k) == GroupAt(b, c, fu, k)
           P(g) == PlaceOf(b, c, fu, g)
           unit == [k \in 1 .. N |-> UnitOf(b, c, fu, At(k))]
<1>1. IsFiniteSet(G) /\ N \in Nat
  BY GroupsAre, FS_CardinalityType DEF WellFormed
<1>2. Plan(b, c, fu) = unit
  BY DEF Plan, Groups, GroupAt, PlaceOf
<1>3. \A k \in 1 .. N : At(k) \in G /\ P(At(k)) = k
  BY Places DEF GroupAt
<1> HIDE DEF G, P, At
<1>4. \A k, l \in 1 .. N : At(k) = At(l) => k = l
  BY <1>3
<1>5. \A g \in G : \E k \in 1 .. N : g = At(k)
  <2> DEFINE f == [k \in 1 .. N |-> At(k)]
  <2>1. IsFiniteSet(1 .. N) /\ Cardinality(1 .. N) = N
    BY <1>1, FS_Interval
  <2>2. f \in Injection(1 .. N, G)
    BY <1>3, <1>4 DEF Injection, IsInjective
  <2>3. f \in Surjection(1 .. N, G)
    <3> HIDE DEF f
    <3> QED
      BY <1>1, <2>1, <2>2, FS_Injection
  <2> QED
    BY <2>3 DEF Surjection
<1>6. Len(unit) = N /\ DOMAIN unit = 1 .. N /\ \A k \in 1 .. N : unit[k] = UnitOf(b, c, fu, At(k))
  BY <1>1
<1> HIDE DEF unit
<1> QED
  BY <1>1, <1>2, <1>3, <1>4, <1>5, <1>6 DEF G, At

-----------------------------------------------------------------------------
(* What applying a set of items does *)

\* The base nodes that go
Taken(b, fu, A) == {i \in DOMAIN b.nodes : \E x \in A : x.key = <<"block", FusionBlocks(b, fu)[i]>>}

\* The candidate node that replaces a base node is in the base node's block.
LEMMA CandKey ==
    ASSUME NEW b, NEW c, NEW fu, WellFormed(b), NEW i, NEW j, <<i, j>> \in Matched(b, c)
    PROVE  CandItem(b, c, fu, j).key = <<"block", FusionBlocks(b, fu)[i]>>
<1> DEFINE n == c.nodes[j]
           partner == {p[1] : p \in {q \in Matched(b, c) : q[2] = j}}
           Makers(k) == {m \in DOMAIN b.nodes : n.ins[k] \in Outs(b.nodes[m])}
           read == {k \in DOMAIN n.ins : Makers(k) # {}}
           near == IF partner # {} THEN partner ELSE IF read # {} THEN Makers(Min(read)) ELSE {}
<1>1. partner = {i}
  <2>1. i \in partner
    OBVIOUS
  <2>2. ASSUME NEW m \in partner PROVE m = i
    <3>1. m \in DOMAIN b.nodes /\ i \in DOMAIN b.nodes /\ b.nodes[m].outs[1] = b.nodes[i].outs[1]
      BY DEF Matched
    <3> QED
      BY <3>1, OneMaker
  <2> QED
    BY <2>1, <2>2
<1> HIDE DEF partner
<1>2. near = {i}
  BY <1>1
<1>3. CandItem(b, c, fu, j).key = IF near = {} THEN <<"cand", j>>
                                  ELSE <<"block", FusionBlocks(b, fu)[CHOOSE m \in near : TRUE]>>
  BY DEF CandItem, Item, partner
<1> HIDE DEF near
<1>4. (CHOOSE m \in near : TRUE) = i
  BY <1>2
<1> QED
  BY <1>2, <1>3, <1>4

\* A unit, in terms of its items
LEMMA UnitIs ==
    ASSUME NEW b, NEW c, NEW fu, NEW A, A \subseteq Items(b, c, fu)
    PROVE  /\ UnitOf(b, c, fu, A).rm = Taken(b, fu, A)
           /\ UnitOf(b, c, fu, A).add = {j \in DiffCand(b, c) : CandItem(b, c, fu, j) \in A}
                \union {p[2] : p \in {q \in Matched(b, c) : q[1] \in Taken(b, fu, A)}}
           /\ UnitOf(b, c, fu, A).inits = {n \in DiffInit(b, c) : InitItem(b, c, n) \in A}
<1> DEFINE block == FusionBlocks(b, fu)
           members == {i \in DOMAIN b.nodes : <<"block", block[i]>> \in {x.key : x \in A}}
           Refs(kind) == {x.ref : x \in {y \in A : y.kind = kind}}
<1>1. members = Taken(b, fu, A)
  BY DEF Taken
<1>2. /\ UnitOf(b, c, fu, A).rm = Refs("base") \union members
      /\ UnitOf(b, c, fu, A).add = Refs("cand") \union
            {p[2] : p \in {q \in Matched(b, c) : q[1] \in members}}
      /\ UnitOf(b, c, fu, A).inits = Refs("init")
  BY DEF UnitOf
<1>3. Refs("base") \subseteq Taken(b, fu, A)
  <2> SUFFICES ASSUME NEW x \in A, x.kind = "base" PROVE x.ref \in Taken(b, fu, A)
    OBVIOUS
  <2>1. PICK i \in DiffBase(b, c) : x = BaseItem(b, c, fu, i)
    BY ItemKinds, CandIs, InitIs
  <2>2. i \in DOMAIN b.nodes /\ x.ref = i /\ x.key = <<"block", FusionBlocks(b, fu)[i]>>
    BY <2>1, BaseIs DEF DiffBase
  <2> QED
    BY <2>2 DEF Taken
<1>4. Refs("cand") = {j \in DiffCand(b, c) : CandItem(b, c, fu, j) \in A}
  <2>1. ASSUME NEW x \in A, x.kind = "cand"
        PROVE  x.ref \in DiffCand(b, c) /\ CandItem(b, c, fu, x.ref) \in A
    <3>1. PICK j \in DiffCand(b, c) : x = CandItem(b, c, fu, j)
      BY <2>1, ItemKinds, BaseIs, InitIs
    <3>2. x.ref = j
      BY <3>1, CandIs
    <3> QED
      BY <3>1, <3>2
  <2>2. ASSUME NEW j \in DiffCand(b, c), CandItem(b, c, fu, j) \in A PROVE j \in Refs("cand")
    BY <2>2, CandIs
  <2> QED
    BY <2>1, <2>2
<1>5. Refs("init") = {n \in DiffInit(b, c) : InitItem(b, c, n) \in A}
  <2>1. ASSUME NEW x \in A, x.kind = "init"
        PROVE  x.ref \in DiffInit(b, c) /\ InitItem(b, c, x.ref) \in A
    <3>1. PICK n \in DiffInit(b, c) : x = InitItem(b, c, n)
      BY <2>1, ItemKinds, BaseIs, CandIs
    <3>2. x.ref = n
      BY <3>1, InitIs
    <3> QED
      BY <3>1, <3>2
  <2>2. ASSUME NEW n \in DiffInit(b, c), InitItem(b, c, n) \in A PROVE n \in Refs("init")
    BY <2>2, InitIs
  <2> QED
    BY <2>1, <2>2
<1> QED
  BY <1>1, <1>2, <1>3, <1>4, <1>5

\* A candidate node that is no change is a base node as it stands.
LEMMA Twin ==
    ASSUME NEW b, NEW c, NEW j \in (DOMAIN c.nodes) \ DiffCand(b, c)
    PROVE  \E i \in (DOMAIN b.nodes) \ DiffBase(b, c) :
              b.nodes[i] = c.nodes[j] /\ <<i, j>> \in Matched(b, c)
BY DEF DiffCand, DiffBase, Same, Matched

\* And the other way round
LEMMA TwinBack ==
    ASSUME NEW b, NEW c, NEW i \in (DOMAIN b.nodes) \ DiffBase(b, c)
    PROVE  \E j \in (DOMAIN c.nodes) \ DiffCand(b, c) :
              b.nodes[i] = c.nodes[j] /\ <<i, j>> \in Matched(b, c)
BY DEF DiffCand, DiffBase, Same, Matched

\* A closed set that takes a changed node along has its item.
LEMMA TakenHas ==
    ASSUME NEW b, NEW c, NEW fu, WellFormed(b), NEW A, Closed(Items(b, c, fu), A)
    PROVE  /\ \A i \in DiffBase(b, c) : i \in Taken(b, fu, A) => BaseItem(b, c, fu, i) \in A
           /\ \A j \in DiffCand(b, c), i \in Taken(b, fu, A) :
                 <<i, j>> \in Matched(b, c) => CandItem(b, c, fu, j) \in A
<1>1. ASSUME NEW i \in DiffBase(b, c), i \in Taken(b, fu, A) PROVE BaseItem(b, c, fu, i) \in A
  <2>1. PICK x \in A : x.key = <<"block", FusionBlocks(b, fu)[i]>>
    BY <1>1 DEF Taken
  <2>2. BaseItem(b, c, fu, i).key = x.key /\ BaseItem(b, c, fu, i) \in Items(b, c, fu)
    BY <2>1, BaseIs DEF Items
  <2> QED
    BY <2>2 DEF Closed, Linked
<1>2. ASSUME NEW j \in DiffCand(b, c), NEW i \in Taken(b, fu, A), <<i, j>> \in Matched(b, c)
      PROVE  CandItem(b, c, fu, j) \in A
  <2>1. PICK x \in A : x.key = <<"block", FusionBlocks(b, fu)[i]>>
    BY <1>2 DEF Taken
  <2>2. CandItem(b, c, fu, j).key = x.key /\ CandItem(b, c, fu, j) \in Items(b, c, fu)
    BY <1>2, <2>1, CandKey DEF Items
  <2> QED
    BY <2>2 DEF Closed, Linked
<1> QED
  BY <1>1, <1>2

\* What applying a closed set of items removes, adds and changes
LEMMA UnitHas ==
    ASSUME NEW b, NEW c, NEW fu, WellFormed(b), NEW A, Closed(Items(b, c, fu), A),
           NEW u, u = UnitOf(b, c, fu, A)
    PROVE  /\ u.rm \subseteq DOMAIN b.nodes /\ u.add \subseteq DOMAIN c.nodes
           /\ \A i \in DiffBase(b, c) : i \in u.rm <=> BaseItem(b, c, fu, i) \in A
           /\ \A j \in DiffCand(b, c) : j \in u.add <=> CandItem(b, c, fu, j) \in A
           /\ \A n \in DiffInit(b, c) : n \in u.inits <=> InitItem(b, c, n) \in A
           /\ u.inits \subseteq DiffInit(b, c)
           /\ \A p \in Matched(b, c) : p[1] \in u.rm => p[2] \in u.add
           /\ \A j \in (DOMAIN c.nodes) \ DiffCand(b, c) : j \in u.add =>
                 \E i \in u.rm : <<i, j>> \in Matched(b, c) /\ b.nodes[i] = c.nodes[j]
<1> DEFINE T == Taken(b, fu, A)
<1>1. /\ u.rm = T
      /\ u.add = {j \in DiffCand(b, c) : CandItem(b, c, fu, j) \in A}
                    \union {p[2] : p \in {q \in Matched(b, c) : q[1] \in T}}
      /\ u.inits = {n \in DiffInit(b, c) : InitItem(b, c, n) \in A}
  BY UnitIs DEF Closed
<1>2. T \subseteq DOMAIN b.nodes
  BY DEF Taken
<1>3. ASSUME NEW i \in DiffBase(b, c) PROVE i \in T <=> BaseItem(b, c, fu, i) \in A
  <2>1. BaseItem(b, c, fu, i) \in A => i \in T
    BY BaseIs DEF Taken, DiffBase
  <2> QED
    BY <2>1, TakenHas
<1>4. \A j \in DiffCand(b, c), i \in T : <<i, j>> \in Matched(b, c) => CandItem(b, c, fu, j) \in A
  BY TakenHas
<1> HIDE DEF T
<1>5. Matched(b, c) \subseteq (DOMAIN b.nodes) \X (DOMAIN c.nodes) /\ DiffCand(b, c) \subseteq DOMAIN c.nodes
  BY DEF Matched, DiffCand
<1>6. \A p \in Matched(b, c) : p = <<p[1], p[2]>>
  BY <1>5
<1>7. u.add \subseteq DOMAIN c.nodes
  BY <1>1, <1>5
<1>8. \A j \in DiffCand(b, c) : j \in u.add <=> CandItem(b, c, fu, j) \in A
  BY <1>1, <1>4, <1>6
<1>9. \A p \in Matched(b, c) : p[1] \in u.rm => p[2] \in u.add
  BY <1>1
<1>10. ASSUME NEW j \in (DOMAIN c.nodes) \ DiffCand(b, c), j \in u.add
       PROVE  \E i \in u.rm : <<i, j>> \in Matched(b, c) /\ b.nodes[i] = c.nodes[j]
  <2>1. PICK i \in T : <<i, j>> \in Matched(b, c)
    BY <1>1, <1>6, <1>10
  <2>2. PICK m \in DOMAIN b.nodes : b.nodes[m] = c.nodes[j] /\ <<m, j>> \in Matched(b, c)
    BY Twin
  <2>3. i \in DOMAIN b.nodes /\ b.nodes[i].outs[1] = b.nodes[m].outs[1]
    BY <2>1, <2>2 DEF Matched
  <2>4. i = m
    BY <2>3, OneMaker
  <2> QED
    BY <1>1, <2>1, <2>2, <2>4
<1> QED
  BY <1>1, <1>2, <1>3, <1>7, <1>8, <1>9, <1>10

\* The tensors there are with a unit u applied
There(b, c, u) ==
    Inputs \union ((DOMAIN b.inits) \ u.inits) \union ((DOMAIN c.inits) \intersect u.inits)
        \union (UNION {Outs(b.nodes[i]) : i \in (DOMAIN b.nodes) \ u.rm})
        \union (UNION {Outs(c.nodes[j]) : j \in u.add})

\* Where they come from
LEMMA ThereIs ==
    ASSUME NEW b, NEW c, NEW u
    PROVE  /\ Inputs \subseteq There(b, c, u)
           /\ (DOMAIN b.inits) \ u.inits \subseteq There(b, c, u)
           /\ (DOMAIN c.inits) \intersect u.inits \subseteq There(b, c, u)
           /\ \A i \in (DOMAIN b.nodes) \ u.rm : Outs(b.nodes[i]) \subseteq There(b, c, u)
           /\ \A j \in u.add : Outs(c.nodes[j]) \subseteq There(b, c, u)
<1> DEFINE kept == {Outs(b.nodes[i]) : i \in (DOMAIN b.nodes) \ u.rm}
           new == {Outs(c.nodes[j]) : j \in u.add}
<1>1. \A i \in (DOMAIN b.nodes) \ u.rm : Outs(b.nodes[i]) \in kept
  OBVIOUS
<1>2. \A j \in u.add : Outs(c.nodes[j]) \in new
  OBVIOUS
<1>3. There(b, c, u) = Inputs \union ((DOMAIN b.inits) \ u.inits)
        \union ((DOMAIN c.inits) \intersect u.inits) \union (UNION kept) \union (UNION new)
  BY DEF There
<1> HIDE DEF kept, new
<1>4. \A S \in kept \union new : S \subseteq There(b, c, u)
  <2> SUFFICES ASSUME NEW S \in kept \union new, NEW t \in S PROVE t \in There(b, c, u)
    OBVIOUS
  <2>1. t \in UNION kept \/ t \in UNION new
    OBVIOUS
  <2> QED
    BY <1>3, <2>1
<1> QED
  BY <1>1, <1>2, <1>3, <1>4

\* A tensor of the base of which no maker is applied is there,
LEMMA ThereFromBase ==
    ASSUME NEW b, NEW c, NEW fu, WellFormed(b), NEW A, Closed(Items(b, c, fu), A),
           NEW u, u = UnitOf(b, c, fu, A), NEW t \in Tensors(b), \A x \in A : t \notin x.outs
    PROVE  t \in There(b, c, u)
<1>1. CASE t \in Inputs
  BY <1>1, ThereIs
<1>2. CASE t \in DOMAIN b.inits
  <2>1. t \notin u.inits
    <3> SUFFICES ASSUME t \in u.inits PROVE FALSE
      OBVIOUS
    <3>1. InitItem(b, c, t) \in A
      BY UnitHas
    <3> QED
      BY <3>1, InitIs
  <2> QED
    BY <1>2, <2>1, ThereIs
<1>3. ASSUME NEW i \in DOMAIN b.nodes, t \in Outs(b.nodes[i]) PROVE t \in There(b, c, u)
  <2>1. CASE i \notin u.rm
    BY <1>3, <2>1, ThereIs
  <2>2. CASE i \in u.rm
    <3>1. i \notin DiffBase(b, c)
      <4> SUFFICES ASSUME i \in DiffBase(b, c) PROVE FALSE
        OBVIOUS
      <4>1. BaseItem(b, c, fu, i) \in A
        BY <2>2, UnitHas
      <4> QED
        BY <1>3, <4>1, BaseIs
    <3>a. i \in (DOMAIN b.nodes) \ DiffBase(b, c)
      BY <3>1
    <3>2. PICK j \in (DOMAIN c.nodes) \ DiffCand(b, c) :
            b.nodes[i] = c.nodes[j] /\ <<i, j>> \in Matched(b, c)
      BY <3>a, TwinBack
    <3>3. j \in u.add
      <4>1. \A p \in Matched(b, c) : p[1] \in u.rm => p[2] \in u.add
        BY UnitHas
      <4> QED
        BY <2>2, <3>2, <4>1
    <3> QED
      BY <1>3, <3>2, <3>3, ThereIs
  <2> QED
    BY <2>1, <2>2
<1> QED
  BY <1>1, <1>2, <1>3 DEF Tensors, Nodes, ToSet

\* and one of the candidate of which all makers are applied.
LEMMA ThereFromCand ==
    ASSUME NEW b, NEW c, NEW fu, WellFormed(b), NEW A, Closed(Items(b, c, fu), A),
           NEW u, u = UnitOf(b, c, fu, A), NEW t \in Tensors(c),
           \A x \in Items(b, c, fu) : t \in x.outs => x \in A
    PROVE  t \in There(b, c, u)
<1>1. CASE t \in Inputs
  BY <1>1, ThereIs
<1>2. CASE t \in DOMAIN c.inits
  <2>1. CASE t \in DiffInit(b, c)
    <3>1. InitItem(b, c, t) \in Items(b, c, fu) /\ t \in InitItem(b, c, t).outs
      BY <2>1, InitIs DEF Items
    <3>2. t \in u.inits
      BY <2>1, <3>1, UnitHas
    <3> QED
      BY <1>2, <3>2, ThereIs
  <2>2. CASE t \notin DiffInit(b, c)
    <3>1. t \in DOMAIN b.inits
      BY <1>2, <2>2 DEF DiffInit
    <3>2. t \notin u.inits
      BY <2>2, UnitHas
    <3> QED
      BY <3>1, <3>2, ThereIs
  <2> QED
    BY <2>1, <2>2
<1>3. ASSUME NEW j \in DOMAIN c.nodes, t \in Outs(c.nodes[j]) PROVE t \in There(b, c, u)
  <2>1. CASE j \in DiffCand(b, c)
    <3>1. CandItem(b, c, fu, j) \in Items(b, c, fu) /\ t \in CandItem(b, c, fu, j).outs
      BY <1>3, <2>1, CandIs DEF Items
    <3>2. j \in u.add
      BY <2>1, <3>1, UnitHas
    <3> QED
      BY <1>3, <3>2, ThereIs
  <2>2. CASE j \notin DiffCand(b, c)
    <3>0. j \in (DOMAIN c.nodes) \ DiffCand(b, c)
      BY <2>2
    <3>1. PICK i \in (DOMAIN b.nodes) \ DiffBase(b, c) :
            b.nodes[i] = c.nodes[j] /\ <<i, j>> \in Matched(b, c)
      BY <3>0, Twin
    <3>2. i \in u.rm => j \in u.add
      <4>1. \A p \in Matched(b, c) : p[1] \in u.rm => p[2] \in u.add
        BY UnitHas
      <4> QED
        BY <3>1, <4>1
    <3> QED
      BY <1>3, <3>1, <3>2, ThereIs
  <2> QED
    BY <2>1, <2>2
<1> QED
  BY <1>1, <1>2, <1>3 DEF Tensors, Nodes, ToSet

\* So one of both graphs always is: the makers of a tensor are linked.
LEMMA ThereFromBoth ==
    ASSUME NEW b, NEW c, NEW fu, WellFormed(b), NEW A, Closed(Items(b, c, fu), A),
           NEW u, u = UnitOf(b, c, fu, A), NEW t \in Tensors(b), t \in Tensors(c)
    PROVE  t \in There(b, c, u)
<1>1. CASE \A x \in A : t \notin x.outs
  BY <1>1, ThereFromBase
<1>2. ASSUME NEW x \in A, t \in x.outs PROVE t \in There(b, c, u)
  <2>1. \A y \in Items(b, c, fu) : t \in y.outs => y \in A
    BY <1>2 DEF Closed, Linked
  <2> QED
    BY <2>1, ThereFromCand
<1> QED
  BY <1>1, <1>2

\* What a graph lacks, one tensor at a time
LEMMA LackingIs ==
    ASSUME NEW g
    PROVE  /\ \A i \in DOMAIN g.nodes : Ins(g.nodes[i]) \subseteq Tensors(g) \union Lacking(g)
           /\ Outputs \subseteq Tensors(g) \union Lacking(g)
<1>1. \A i \in DOMAIN g.nodes : Ins(g.nodes[i]) \subseteq UNION {Ins(n) : n \in Nodes(g)}
  BY DEF Nodes, ToSet
<1> QED
  BY <1>1 DEF Lacking

\* What the nodes of the mixed graph read is there, and so are the outputs,
\* except for what the candidate lacks.
LEMMA AllThere ==
    ASSUME NEW b, NEW c, NEW fu, WellFormed(b), Lacking(b) = {}, NEW A, Closed(Items(b, c, fu), A),
           NEW u, u = UnitOf(b, c, fu, A)
    PROVE  /\ \A i \in (DOMAIN b.nodes) \ u.rm : Ins(b.nodes[i]) \subseteq There(b, c, u) \union Lacking(c)
           /\ \A j \in u.add : Ins(c.nodes[j]) \subseteq There(b, c, u) \union Lacking(c)
           /\ Outputs \subseteq There(b, c, u) \union Lacking(c)
<1>0. u.rm \subseteq DOMAIN b.nodes /\ u.add \subseteq DOMAIN c.nodes
  BY UnitHas
<1>1. ASSUME NEW i \in (DOMAIN b.nodes) \ u.rm, NEW t \in Ins(b.nodes[i]), t \notin Lacking(c)
      PROVE  t \in There(b, c, u)
  <2>0. t \in Tensors(b)
    BY LackingIs
  <2>1. CASE i \in DiffBase(b, c)
    <3>1. BaseItem(b, c, fu, i) \in Items(b, c, fu) /\ t \in BaseItem(b, c, fu, i).ins
      BY <2>1, BaseIs DEF Items
    <3>3. BaseItem(b, c, fu, i) \notin A
      BY <2>1, UnitHas
    <3>2. \A x \in A : t \notin x.outs
      BY <3>1, <3>3 DEF Closed, Linked
    <3> QED
      BY <2>0, <3>2, ThereFromBase
  <2>2. CASE i \notin DiffBase(b, c)
    <3>0. i \in (DOMAIN b.nodes) \ DiffBase(b, c)
      BY <2>2
    <3>1. PICK j \in (DOMAIN c.nodes) \ DiffCand(b, c) :
            b.nodes[i] = c.nodes[j] /\ <<i, j>> \in Matched(b, c)
      BY <3>0, TwinBack
    <3>2. t \in Tensors(c)
      BY <1>1, <3>1, LackingIs
    <3> QED
      BY <2>0, <3>2, ThereFromBoth
  <2> QED
    BY <2>1, <2>2
<1>2. ASSUME NEW j \in u.add, NEW t \in Ins(c.nodes[j]), t \notin Lacking(c)
      PROVE  t \in There(b, c, u)
  <2>0. t \in Tensors(c)
    BY <1>0, <1>2, LackingIs
  <2>1. CASE j \in DiffCand(b, c)
    <3>1. CandItem(b, c, fu, j) \in A /\ t \in CandItem(b, c, fu, j).ins
      BY <2>1, UnitHas, CandIs
    <3>2. \A x \in Items(b, c, fu) : t \in x.outs => x \in A
      BY <3>1 DEF Closed, Linked
    <3> QED
      BY <2>0, <3>2, ThereFromCand
  <2>2. CASE j \notin DiffCand(b, c)
    <3>0. j \in (DOMAIN c.nodes) \ DiffCand(b, c)
      BY <1>0, <2>2
    <3>1. PICK i \in (DOMAIN b.nodes) \ DiffBase(b, c) :
            b.nodes[i] = c.nodes[j] /\ <<i, j>> \in Matched(b, c)
      BY <3>0, Twin
    <3>2. t \in Tensors(b)
      BY <3>1, LackingIs
    <3> QED
      BY <2>0, <3>2, ThereFromBoth
  <2> QED
    BY <2>1, <2>2
<1>3. ASSUME NEW t \in Outputs, t \notin Lacking(c) PROVE t \in There(b, c, u)
  BY <1>3, LackingIs, ThereFromBoth
<1> QED
  BY <1>1, <1>2, <1>3

\* No tensor is made by a base node that stays and by a candidate node.
LEMMA MadeOnce ==
    ASSUME NEW b, NEW c, NEW fu, WellFormed(b), WellFormed(c), NEW A, Closed(Items(b, c, fu), A),
           NEW u, u = UnitOf(b, c, fu, A), NEW i \in (DOMAIN b.nodes) \ u.rm, NEW j \in u.add
    PROVE  Outs(b.nodes[i]) \intersect Outs(c.nodes[j]) = {}
<1> SUFFICES ASSUME NEW t \in Outs(b.nodes[i]), t \in Outs(c.nodes[j]) PROVE FALSE
  OBVIOUS
<1>0. j \in DOMAIN c.nodes
  BY UnitHas
<1>1. CASE j \in DiffCand(b, c)
  <2>1. CandItem(b, c, fu, j) \in A /\ t \in CandItem(b, c, fu, j).outs
    BY <1>1, UnitHas, CandIs
  <2>2. CASE i \in DiffBase(b, c)
    <3>1. BaseItem(b, c, fu, i) \in Items(b, c, fu) /\ t \in BaseItem(b, c, fu, i).outs
      BY <2>2, BaseIs DEF Items
    <3>2. BaseItem(b, c, fu, i) \notin A
      BY <2>2, UnitHas
    <3> QED
      BY <2>1, <3>1, <3>2 DEF Closed, Linked
  <2>3. CASE i \notin DiffBase(b, c)
    <3>0. i \in (DOMAIN b.nodes) \ DiffBase(b, c)
      BY <2>3
    <3>1. PICK m \in (DOMAIN c.nodes) \ DiffCand(b, c) :
            b.nodes[i] = c.nodes[m] /\ <<i, m>> \in Matched(b, c)
      BY <3>0, TwinBack
    <3>2. Outs(c.nodes[m]) \intersect Outs(c.nodes[j]) # {}
      BY <3>1
    <3>3. m = j
      BY <1>0, <3>1, <3>2, OneMaker
    <3> QED
      BY <1>1, <3>1, <3>3
  <2> QED
    BY <2>2, <2>3
<1>2. CASE j \notin DiffCand(b, c)
  <2>0. \A l \in (DOMAIN c.nodes) \ DiffCand(b, c) : l \in u.add =>
          \E m \in u.rm : <<m, l>> \in Matched(b, c) /\ b.nodes[m] = c.nodes[l]
    BY UnitHas
  <2>1. PICK m \in u.rm : b.nodes[m] = c.nodes[j]
    BY <1>0, <1>2, <2>0
  <2>2. m \in DOMAIN b.nodes
    BY <2>1, UnitHas
  <2>3. m = i
    BY <2>1, <2>2, OneMaker
  <2> QED
    BY <2>1, <2>3
<1> QED
  BY <1>1, <1>2

-----------------------------------------------------------------------------
(* The graphs the search runs *)

\* The items of the first k units
Applied(b, c, fu, k) == UNION {GroupAt(b, c, fu, u) : u \in 1 .. k}

\* The first k units together do what a unit of all their items would do.
LEMMA PrefixIs ==
    ASSUME NEW b, NEW c, NEW fu, WellFormed(b), WellFormed(c), NEW plan, plan = Plan(b, c, fu),
           NEW k \in 0 .. Len(plan), NEW A, A = Applied(b, c, fu, k),
           NEW u, u = UnitOf(b, c, fu, A)
    PROVE  /\ Closed(Items(b, c, fu), A)
           /\ UNION {plan[v].rm : v \in 1 .. k} = u.rm
           /\ UNION {plan[v].inits : v \in 1 .. k} = u.inits
           /\ \A j : j \in u.add <=> \E v \in 1 .. k : j \in plan[v].add
<1> DEFINE items == Items(b, c, fu)
           At(v) == GroupAt(b, c, fu, v)
           K == 1 .. k
<1>1. /\ Len(plan) \in Nat /\ K \subseteq 1 .. Len(plan)
      /\ \A v \in 1 .. Len(plan) : plan[v] = UnitOf(b, c, fu, At(v)) /\ At(v) \in Groups(b, c, fu)
  BY PlanIs
<1>2. \A v \in K : Closed(items, At(v)) /\ At(v) \subseteq items
  BY <1>1, GroupsAre DEF Closed, WellFormed
<1> HIDE DEF items, At, K
<1>3. \A x : x \in A <=> \E v \in K : x \in At(v)
  BY DEF Applied, At, K
<1>4. A \subseteq items
  BY <1>2, <1>3
<1>5. Closed(items, A)
  BY <1>2, <1>3, <1>4 DEF Closed
<1>6. \A i : i \in Taken(b, fu, A) <=> \E v \in K : i \in Taken(b, fu, At(v))
  BY <1>3 DEF Taken
<1>7. /\ u.rm = Taken(b, fu, A)
      /\ u.add = {j \in DiffCand(b, c) : CandItem(b, c, fu, j) \in A}
           \union {p[2] : p \in {q \in Matched(b, c) : q[1] \in Taken(b, fu, A)}}
      /\ u.inits = {n \in DiffInit(b, c) : InitItem(b, c, n) \in A}
  BY <1>4, UnitIs DEF items
<1>8. ASSUME NEW v \in K
      PROVE  /\ plan[v].rm = Taken(b, fu, At(v))
             /\ plan[v].add = {j \in DiffCand(b, c) : CandItem(b, c, fu, j) \in At(v)}
                  \union {p[2] : p \in {q \in Matched(b, c) : q[1] \in Taken(b, fu, At(v))}}
             /\ plan[v].inits = {n \in DiffInit(b, c) : InitItem(b, c, n) \in At(v)}
  BY <1>1, <1>2, UnitIs DEF items
<1>9. \A i : i \in u.rm <=> \E v \in K : i \in plan[v].rm
  BY <1>6, <1>7, <1>8
<1>10. \A n : n \in u.inits <=> \E v \in K : n \in plan[v].inits
  BY <1>3, <1>7, <1>8
<1>11. \A j : j \in u.add <=> \E v \in K : j \in plan[v].add
  <2>1. ASSUME NEW j, j \in u.add PROVE \E v \in K : j \in plan[v].add
    <3>1. CASE j \in DiffCand(b, c) /\ CandItem(b, c, fu, j) \in A
      BY <1>3, <1>8, <3>1
    <3>2. ASSUME NEW q \in Matched(b, c), q[1] \in Taken(b, fu, A), j = q[2]
          PROVE  \E v \in K : j \in plan[v].add
      BY <1>6, <1>8, <3>2
    <3> QED
      BY <1>7, <2>1, <3>1, <3>2
  <2>2. ASSUME NEW v \in K, NEW j, j \in plan[v].add PROVE j \in u.add
    <3>1. CASE j \in DiffCand(b, c) /\ CandItem(b, c, fu, j) \in At(v)
      BY <1>3, <1>7, <3>1
    <3>2. ASSUME NEW q \in Matched(b, c), q[1] \in Taken(b, fu, At(v)), j = q[2] PROVE j \in u.add
      BY <1>6, <1>7, <3>2
    <3> QED
      BY <1>8, <2>2, <3>1, <3>2
  <2> QED
    BY <2>1, <2>2
<1>12. UNION {plan[v].rm : v \in K} = u.rm /\ UNION {plan[v].inits : v \in K} = u.inits
  BY <1>9, <1>10
<1> QED
  BY <1>5, <1>11, <1>12 DEF items, K

\* No two units remove, add or change the same.
LEMMA UnitsApart ==
    ASSUME NEW b, NEW c, NEW fu, WellFormed(b), WellFormed(c), NEW plan, plan = Plan(b, c, fu),
           NEW v \in DOMAIN plan, NEW w \in DOMAIN plan, v # w
    PROVE  /\ plan[v].rm \intersect plan[w].rm = {}
           /\ plan[v].add \intersect plan[w].add = {}
           /\ plan[v].inits \intersect plan[w].inits = {}
<1> DEFINE items == Items(b, c, fu)
           g == GroupAt(b, c, fu, v)
           h == GroupAt(b, c, fu, w)
<1>1. /\ plan[v] = UnitOf(b, c, fu, g) /\ g \in Groups(b, c, fu)
      /\ plan[w] = UnitOf(b, c, fu, h) /\ h \in Groups(b, c, fu)
      /\ g # h
  BY PlanIs
<1> HIDE DEF g, h
<1>2. Closed(items, g) /\ Closed(items, h) /\ \A x : ~ (x \in g /\ x \in h)
  BY <1>1, GroupsAre DEF WellFormed
<1>3. ASSUME NEW x \in g, NEW y \in h, x.key = y.key PROVE FALSE
  <2>1. y \in items
    BY <1>2 DEF Closed
  <2>2. y \in g
    BY <1>2, <1>3, <2>1 DEF Closed, Linked
  <2> QED
    BY <1>2, <2>2
<1>4. plan[v].rm = Taken(b, fu, g) /\ plan[w].rm = Taken(b, fu, h)
  BY <1>1, <1>2, UnitIs DEF Closed
<1>5. ASSUME NEW i \in plan[v].rm, i \in plan[w].rm PROVE FALSE
  BY <1>3, <1>4, <1>5 DEF Taken
<1>6. ASSUME NEW j \in plan[v].add, j \in plan[w].add PROVE FALSE
  <2>0. j \in DOMAIN c.nodes
    BY <1>1, <1>2, UnitHas
  <2>1. CASE j \in DiffCand(b, c)
    <3>1. CandItem(b, c, fu, j) \in g /\ CandItem(b, c, fu, j) \in h
      BY <1>1, <1>2, <1>6, <2>1, UnitHas
    <3> QED
      BY <1>2, <3>1
  <2>2. CASE j \notin DiffCand(b, c)
    <3>1. PICK i \in plan[v].rm : <<i, j>> \in Matched(b, c)
      <4>1. \A l \in (DOMAIN c.nodes) \ DiffCand(b, c) : l \in plan[v].add =>
              \E i \in plan[v].rm : <<i, l>> \in Matched(b, c) /\ b.nodes[i] = c.nodes[l]
        BY <1>1, <1>2, UnitHas, SMTT(40)
      <4> QED
        BY <2>0, <2>2, <4>1
    <3>2. PICK m \in plan[w].rm : <<m, j>> \in Matched(b, c)
      <4>1. \A l \in (DOMAIN c.nodes) \ DiffCand(b, c) : l \in plan[w].add =>
              \E m \in plan[w].rm : <<m, l>> \in Matched(b, c) /\ b.nodes[m] = c.nodes[l]
        BY <1>1, <1>2, UnitHas, SMTT(40)
      <4> QED
        BY <1>6, <2>0, <2>2, <4>1
    <3>3. i \in DOMAIN b.nodes /\ m \in DOMAIN b.nodes /\ b.nodes[i].outs[1] = b.nodes[m].outs[1]
      BY <3>1, <3>2 DEF Matched
    <3>4. i = m
      BY <3>3, OneMaker
    <3> QED
      BY <1>5, <3>1, <3>2, <3>4
  <2> QED
    BY <2>1, <2>2
<1>7. ASSUME NEW n \in plan[v].inits, n \in plan[w].inits PROVE FALSE
  <2>1. n \in DiffInit(b, c)
    BY <1>1, <1>2, UnitHas
  <2>2. InitItem(b, c, n) \in g /\ InitItem(b, c, n) \in h
    BY <1>1, <1>2, <1>7, <2>1, UnitHas
  <2> QED
    BY <1>2, <2>2
<1> QED
  BY <1>5, <1>6, <1>7

\* The nodes of a prefix: of the base what stays, of the candidate what is added
LEMMA PoolIs ==
    ASSUME NEW b, NEW c, NEW fu, WellFormed(b), WellFormed(c), NEW plan, plan = Plan(b, c, fu),
           NEW k \in 0 .. Len(plan), NEW u, u = UnitOf(b, c, fu, Applied(b, c, fu, k))
    PROVE  /\ \A e \in StatePool(b, c, plan, k) :
                \/ \E i \in (DOMAIN b.nodes) \ u.rm : e.from = <<0, i>> /\ e.node = b.nodes[i]
                     /\ e.pos = Position(b, c, i) /\ e = [from |-> e.from, pos |-> e.pos, node |-> e.node]
                \/ \E v \in 1 .. k : \E j \in plan[v].add :
                     /\ e.from = <<v, j>> /\ e.node = c.nodes[j] /\ j \in u.add
                     /\ e.pos = j /\ e = [from |-> e.from, pos |-> e.pos, node |-> e.node]
           /\ \A i \in (DOMAIN b.nodes) \ u.rm : \E e \in StatePool(b, c, plan, k) : e.node = b.nodes[i]
           /\ \A j \in u.add : \E e \in StatePool(b, c, plan, k) : e.node = c.nodes[j]
<1> DEFINE old(i) == [from |-> <<0, i>>, pos |-> Position(b, c, i), node |-> b.nodes[i]]
           new(v, j) == [from |-> <<v, j>>, pos |-> j, node |-> c.nodes[j]]
           P == StatePool(b, c, plan, k)
<1>1. /\ UNION {plan[v].rm : v \in 1 .. k} = u.rm
      /\ \A j : j \in u.add <=> \E v \in 1 .. k : j \in plan[v].add
  BY PrefixIs
<1>2. P = {old(i) : i \in (DOMAIN b.nodes) \ u.rm}
            \union (UNION {{new(v, j) : j \in plan[v].add} : v \in 1 .. k})
  BY <1>1 DEF StatePool
<1> HIDE DEF P
<1>3. ASSUME NEW e \in P
      PROVE  \/ \E i \in (DOMAIN b.nodes) \ u.rm : e = old(i)
             \/ \E v \in 1 .. k : \E j \in plan[v].add : e = new(v, j)
  <2> HIDE DEF old, new
  <2> QED
    BY <1>2
<1>4. \A i \in (DOMAIN b.nodes) \ u.rm : old(i) \in P
  <2> HIDE DEF old, new
  <2> QED
    BY <1>2
<1>5. ASSUME NEW v \in 1 .. k, NEW j \in plan[v].add PROVE new(v, j) \in P
  <2> HIDE DEF old, new
  <2> DEFINE S == {new(v, l) : l \in plan[v].add}
  <2>1. new(v, j) \in S /\ S \in {{new(y, l) : l \in plan[y].add} : y \in 1 .. k}
    OBVIOUS
  <2> QED
    BY <1>2, <2>1
<1>6. ASSUME NEW e \in P
      PROVE  \/ \E i \in (DOMAIN b.nodes) \ u.rm : e.from = <<0, i>> /\ e.node = b.nodes[i]
                   /\ e.pos = Position(b, c, i) /\ e = [from |-> e.from, pos |-> e.pos, node |-> e.node]
             \/ \E v \in 1 .. k : \E j \in plan[v].add :
                   /\ e.from = <<v, j>> /\ e.node = c.nodes[j] /\ j \in u.add
                   /\ e.pos = j /\ e = [from |-> e.from, pos |-> e.pos, node |-> e.node]
  BY <1>1, <1>3
<1>7. ASSUME NEW i \in (DOMAIN b.nodes) \ u.rm PROVE \E e \in P : e.node = b.nodes[i]
  BY <1>4
<1>8. ASSUME NEW j \in u.add PROVE \E e \in P : e.node = c.nodes[j]
  <2>1. PICK v \in 1 .. k : j \in plan[v].add
    BY <1>1
  <2>2. new(v, j) \in P /\ new(v, j).node = c.nodes[j]
    BY <1>5, <2>1
  <2> QED
    BY <2>2
<1> QED
  BY <1>6, <1>7, <1>8 DEF P

\* What a prefix has to offer is what There says.
LEMMA PrefixThere ==
    ASSUME NEW b, NEW c, NEW fu, WellFormed(b), WellFormed(c), NEW plan, plan = Plan(b, c, fu),
           NEW k \in 0 .. Len(plan), NEW u, u = UnitOf(b, c, fu, Applied(b, c, fu, k)),
           NEW pool, pool = StatePool(b, c, plan, k)
    PROVE  There(b, c, u) \subseteq (Inputs \union (DOMAIN StateInits(b, c, plan, k)))
                                      \union (UNION {Outs(e.node) : e \in pool})
<1> DEFINE made == UNION {Outs(e.node) : e \in pool}
           names == DOMAIN StateInits(b, c, plan, k)
<1>1. names = ((DOMAIN b.inits) \ u.inits) \union ((DOMAIN c.inits) \intersect u.inits)
  <2>1. UNION {plan[v].inits : v \in 1 .. k} = u.inits
    BY PrefixIs
  <2> QED
    BY <2>1 DEF StateInits
<1>2. \A e \in pool : Outs(e.node) \subseteq made
  OBVIOUS
<1>3. \A i \in (DOMAIN b.nodes) \ u.rm : \E e \in pool : e.node = b.nodes[i]
  BY PoolIs
<1>4. \A j \in u.add : \E e \in pool : e.node = c.nodes[j]
  BY PoolIs
<1> HIDE DEF made, names
<1>5. \A i \in (DOMAIN b.nodes) \ u.rm : Outs(b.nodes[i]) \subseteq made
  BY <1>2, <1>3
<1>6. \A j \in u.add : Outs(c.nodes[j]) \subseteq made
  BY <1>2, <1>4
<1>7. There(b, c, u) \subseteq (Inputs \union names) \union made
  BY <1>1, <1>5, <1>6 DEF There
<1> QED
  BY <1>7 DEF made, names

\* Nothing but a cycle, or what the candidate lacks, makes a prefix invalid.
LEMMA PrefixVerdict ==
    ASSUME NEW b, NEW c, NEW fu, WellFormed(b), Lacking(b) = {}, WellFormed(c),
           NEW plan, plan = Plan(b, c, fu), NEW k \in 0 .. Len(plan)
    PROVE  /\ Verdict(b, c, plan, k) # "twice"
           /\ Lost(b, c, plan, k) \subseteq Lacking(c)
           /\ Lacking(c) = {} => Verdict(b, c, plan, k) \in {"valid", "cycle"}
<1> DEFINE A == Applied(b, c, fu, k)
           u == UnitOf(b, c, fu, A)
           pool == StatePool(b, c, plan, k)
           avail == Inputs \union (DOMAIN StateInits(b, c, plan, k))
           made == UNION {Outs(e.node) : e \in pool}
           Twice == \E e, d \in pool : e # d /\ Outs(e.node) \intersect Outs(d.node) # {}
           Missing == \E e \in pool : ~(Ins(e.node) \subseteq avail \union made)
           Cycle == Len(TopoOrder(pool, avail)) # Cardinality(pool)
           NoOutput == ~(Outputs \subseteq avail \union made)
<1>1. Verdict(b, c, plan, k) = CASE Twice -> "twice" [] Missing -> "missing" [] Cycle -> "cycle"
                                   [] NoOutput -> "no output" [] OTHER -> "valid"
  BY DEF Verdict
<1>a. Lost(b, c, plan, k) = ((UNION {Ins(e.node) : e \in pool}) \union Outputs) \ (avail \union made)
  BY DEF Lost
<1>2. Closed(Items(b, c, fu), A)
  BY PrefixIs
<1>3. There(b, c, u) \subseteq avail \union made
  BY PrefixThere
<1>4. \A e \in pool :
        \/ \E i \in (DOMAIN b.nodes) \ u.rm : e.from = <<0, i>> /\ e.node = b.nodes[i]
             /\ e.pos = Position(b, c, i) /\ e = [from |-> e.from, pos |-> e.pos, node |-> e.node]
        \/ \E v \in 1 .. k : \E j \in plan[v].add :
             /\ e.from = <<v, j>> /\ e.node = c.nodes[j] /\ j \in u.add
             /\ e.pos = j /\ e = [from |-> e.from, pos |-> e.pos, node |-> e.node]
  BY PoolIs
<1> HIDE DEF A, u, pool, avail, made
<1>5. /\ \A i \in (DOMAIN b.nodes) \ u.rm : Ins(b.nodes[i]) \subseteq There(b, c, u) \union Lacking(c)
      /\ \A j \in u.add : Ins(c.nodes[j]) \subseteq There(b, c, u) \union Lacking(c)
      /\ Outputs \subseteq There(b, c, u) \union Lacking(c)
  BY <1>2, AllThere DEF u
<1>6. \A e \in pool : Ins(e.node) \subseteq (avail \union made) \union Lacking(c)
  <2> SUFFICES ASSUME NEW e \in pool PROVE Ins(e.node) \subseteq (avail \union made) \union Lacking(c)
    OBVIOUS
  <2>1. Ins(e.node) \subseteq There(b, c, u) \union Lacking(c)
    BY <1>4, <1>5
  <2> QED
    BY <1>3, <2>1
<1>7. Outputs \subseteq (avail \union made) \union Lacking(c)
  BY <1>3, <1>5
<1>b. Lost(b, c, plan, k) \subseteq Lacking(c)
  BY <1>a, <1>6, <1>7
<1>c. Lacking(c) = {} => ~Missing /\ ~NoOutput
  BY <1>6, <1>7
<1>8. ~Twice
  <2> SUFFICES ASSUME NEW e \in pool, NEW d \in pool, e # d, NEW t, t \in Outs(e.node), t \in Outs(d.node)
               PROVE  FALSE
    OBVIOUS
  <2>1. ASSUME NEW x \in pool, NEW y \in pool,
               NEW i \in (DOMAIN b.nodes) \ u.rm, x.node = b.nodes[i],
               NEW j \in u.add, y.node = c.nodes[j], t \in Outs(x.node), t \in Outs(y.node)
        PROVE  FALSE
    <3>1. Outs(b.nodes[i]) \intersect Outs(c.nodes[j]) = {}
      BY <1>2, MadeOnce DEF u
    <3> QED
      BY <2>1, <3>1
  <2>2. ASSUME NEW i \in (DOMAIN b.nodes) \ u.rm, e.from = <<0, i>>, e.node = b.nodes[i],
               e.pos = Position(b, c, i), e = [from |-> e.from, pos |-> e.pos, node |-> e.node],
               NEW m \in (DOMAIN b.nodes) \ u.rm, d.from = <<0, m>>, d.node = b.nodes[m],
               d.pos = Position(b, c, m), d = [from |-> d.from, pos |-> d.pos, node |-> d.node]
        PROVE  FALSE
    <3>1. Outs(b.nodes[i]) \intersect Outs(b.nodes[m]) # {}
      BY <2>2
    <3>2. i = m
      BY <3>1, OneMaker
    <3> QED
      BY <2>2, <3>2
  <2>3. ASSUME NEW v \in 1 .. k, NEW j \in plan[v].add, e.from = <<v, j>>, e.node = c.nodes[j],
               e.pos = j, e = [from |-> e.from, pos |-> e.pos, node |-> e.node], j \in u.add,
               NEW w \in 1 .. k, NEW l \in plan[w].add, d.from = <<w, l>>, d.node = c.nodes[l],
               d.pos = l, d = [from |-> d.from, pos |-> d.pos, node |-> d.node], l \in u.add
        PROVE  FALSE
    <3>1. Outs(c.nodes[j]) \intersect Outs(c.nodes[l]) # {}
      BY <2>3
    <3>2. j \in DOMAIN c.nodes /\ l \in DOMAIN c.nodes
      BY <1>2, <2>3, UnitHas DEF u
    <3>3. j = l
      BY <3>1, <3>2, OneMaker
    <3>4. v \in DOMAIN plan /\ w \in DOMAIN plan
      BY PlanIs
    <3>5. v = w
      <4> SUFFICES ASSUME v # w PROVE FALSE
        OBVIOUS
      <4>1. plan[v].add \intersect plan[w].add = {}
        BY <3>4, UnitsApart
      <4> QED
        BY <3>3, <4>1
    <3> QED
      BY <2>3, <3>3, <3>5
  <2> QED
    BY <1>4, <2>1, <2>2, <2>3
<1> HIDE DEF Twice, Missing, Cycle, NoOutput
<1> QED
  BY <1>1, <1>8, <1>b, <1>c

\* No unit applied is the base.
LEMMA NoneApplied ==
    ASSUME NEW b, NEW c, NEW fu, WellFormed(b), WellFormed(c), NEW plan, plan = Plan(b, c, fu)
    PROVE  /\ {e.node : e \in StatePool(b, c, plan, 0)} = Nodes(b)
           /\ StateInits(b, c, plan, 0) = b.inits
<1>0. 0 \in 0 .. Len(plan)
  BY PlanIs
<1> DEFINE u == UnitOf(b, c, fu, Applied(b, c, fu, 0))
           pool == StatePool(b, c, plan, 0)
<1>1. /\ UNION {plan[v].rm : v \in 1 .. 0} = u.rm /\ UNION {plan[v].inits : v \in 1 .. 0} = u.inits
      /\ \A j : j \in u.add <=> \E v \in 1 .. 0 : j \in plan[v].add
  BY <1>0, PrefixIs
<1>2. u.rm = {} /\ u.inits = {} /\ u.add = {}
  BY <1>1
<1>3. StateInits(b, c, plan, 0) =
        [n \in ((DOMAIN b.inits) \ u.inits) \union ((DOMAIN c.inits) \intersect u.inits) |->
           IF n \in u.inits THEN c.inits[n] ELSE b.inits[n]]
  <2>1. UNION {plan[v].inits : v \in 1 .. 0} = u.inits
    BY <1>0, PrefixIs
  <2> HIDE DEF u
  <2> QED
    BY <2>1 DEF StateInits
<1>4. b.inits = [n \in DOMAIN b.inits |-> b.inits[n]]
  BY DEF WellFormed
<1>5. \A e \in pool : \/ \E i \in (DOMAIN b.nodes) \ u.rm : e.node = b.nodes[i]
                      \/ \E j \in u.add : e.node = c.nodes[j]
  BY <1>0, PoolIs
<1>6. \A i \in (DOMAIN b.nodes) \ u.rm : \E e \in pool : e.node = b.nodes[i]
  BY <1>0, PoolIs
<1> HIDE DEF u, pool
<1>7. StateInits(b, c, plan, 0) = b.inits
  BY <1>2, <1>3, <1>4
<1>8. {e.node : e \in pool} = Nodes(b)
  BY <1>2, <1>5, <1>6 DEF Nodes, ToSet
<1> QED
  BY <1>7, <1>8 DEF pool

\* All of them applied is the candidate.
LEMMA AllApplied ==
    ASSUME NEW b, NEW c, NEW fu, WellFormed(b), WellFormed(c), NEW plan, plan = Plan(b, c, fu)
    PROVE  /\ {e.node : e \in StatePool(b, c, plan, Len(plan))} = Nodes(c)
           /\ StateInits(b, c, plan, Len(plan)) = c.inits
<1> DEFINE N == Len(plan)
           A == Applied(b, c, fu, N)
           u == UnitOf(b, c, fu, A)
           pool == StatePool(b, c, plan, N)
<1>0. N \in 0 .. Len(plan)
  BY PlanIs
<1>1. Closed(Items(b, c, fu), A)
  BY <1>0, PrefixIs
<1>2. \A x \in Items(b, c, fu) : x \in A
  <2> SUFFICES ASSUME NEW x \in Items(b, c, fu) PROVE x \in A
    OBVIOUS
  <2>1. PICK g \in Groups(b, c, fu) : x \in g
    BY GroupsAre DEF WellFormed
  <2>2. PICK k \in 1 .. N : g = GroupAt(b, c, fu, k)
    BY PlanIs
  <2> QED
    BY <2>1, <2>2 DEF Applied
<1>3. StateInits(b, c, plan, N) =
        [n \in ((DOMAIN b.inits) \ u.inits) \union ((DOMAIN c.inits) \intersect u.inits) |->
           IF n \in u.inits THEN c.inits[n] ELSE b.inits[n]]
  <2>1. UNION {plan[v].inits : v \in 1 .. N} = u.inits
    BY <1>0, PrefixIs
  <2> HIDE DEF u, N, A
  <2> QED
    BY <2>1 DEF StateInits
<1>4. c.inits = [n \in DOMAIN c.inits |-> c.inits[n]]
  BY DEF WellFormed
<1>5. \A e \in pool : \/ \E i \in (DOMAIN b.nodes) \ u.rm : e.node = b.nodes[i]
                      \/ \E j \in u.add : e.node = c.nodes[j]
  BY <1>0, PoolIs
<1>6. /\ \A i \in (DOMAIN b.nodes) \ u.rm : \E e \in pool : e.node = b.nodes[i]
      /\ \A j \in u.add : \E e \in pool : e.node = c.nodes[j]
  BY <1>0, PoolIs
<1> HIDE DEF A, u, pool, N
<1>7. u.inits = DiffInit(b, c)
  <2>0. \A n \in DiffInit(b, c) : n \in u.inits <=> InitItem(b, c, n) \in A
    BY <1>1, UnitHas DEF u
  <2>1. \A n \in DiffInit(b, c) : n \in u.inits
    <3>1. \A n \in DiffInit(b, c) : InitItem(b, c, n) \in Items(b, c, fu)
      BY DEF Items
    <3> QED
      BY <1>2, <2>0, <3>1
  <2>2. u.inits \subseteq DiffInit(b, c)
    BY <1>1, UnitHas DEF u
  <2> QED
    BY <2>1, <2>2
<1>8. DiffBase(b, c) \subseteq u.rm
  <2>1. \A i \in DiffBase(b, c) : i \in u.rm <=> BaseItem(b, c, fu, i) \in A
    BY <1>1, UnitHas DEF u
  <2>2. \A i \in DiffBase(b, c) : BaseItem(b, c, fu, i) \in Items(b, c, fu)
    BY DEF Items
  <2> QED
    BY <1>2, <2>1, <2>2
<1>9. DiffCand(b, c) \subseteq u.add /\ u.add \subseteq DOMAIN c.nodes
  <2>1. \A j \in DiffCand(b, c) : j \in u.add <=> CandItem(b, c, fu, j) \in A
    BY <1>1, UnitHas DEF u
  <2>2. \A j \in DiffCand(b, c) : CandItem(b, c, fu, j) \in Items(b, c, fu)
    BY DEF Items
  <2>3. u.add \subseteq DOMAIN c.nodes
    BY <1>1, UnitHas DEF u
  <2> QED
    BY <1>2, <2>1, <2>2, <2>3
<1>10. StateInits(b, c, plan, N) = c.inits
  <2>1. ((DOMAIN b.inits) \ u.inits) \union ((DOMAIN c.inits) \intersect u.inits) = DOMAIN c.inits
    BY <1>7 DEF DiffInit
  <2>2. \A n \in DOMAIN c.inits : (IF n \in u.inits THEN c.inits[n] ELSE b.inits[n]) = c.inits[n]
    BY <1>7 DEF DiffInit
  <2> QED
    BY <1>3, <1>4, <2>1, <2>2
<1>11. \A e \in pool : e.node \in Nodes(c)
  <2>1. ASSUME NEW i \in (DOMAIN b.nodes) \ u.rm PROVE \E j \in DOMAIN c.nodes : b.nodes[i] = c.nodes[j]
    <3>1. i \in (DOMAIN b.nodes) \ DiffBase(b, c)
      BY <1>8
    <3>2. PICK j \in (DOMAIN c.nodes) \ DiffCand(b, c) :
            b.nodes[i] = c.nodes[j] /\ <<i, j>> \in Matched(b, c)
      BY <3>1, TwinBack
    <3> QED
      BY <3>2
  <2> QED
    BY <1>5, <1>9, <2>1 DEF Nodes, ToSet
<1>12. ASSUME NEW j \in DOMAIN c.nodes PROVE \E e \in pool : e.node = c.nodes[j]
  <2>1. CASE j \in u.add
    BY <1>6, <2>1
  <2>2. CASE j \notin u.add
    <3>1. j \in (DOMAIN c.nodes) \ DiffCand(b, c)
      BY <1>9, <2>2
    <3>2. PICK i \in (DOMAIN b.nodes) \ DiffBase(b, c) :
            b.nodes[i] = c.nodes[j] /\ <<i, j>> \in Matched(b, c)
      BY <3>1, Twin
    <3>3. \A p \in Matched(b, c) : p[1] \in u.rm => p[2] \in u.add
      BY <1>1, UnitHas DEF u
    <3>4. i \notin u.rm
      BY <2>2, <3>2, <3>3
    <3> QED
      BY <1>6, <3>2, <3>4
  <2> QED
    BY <2>1, <2>2
<1>13. {e.node : e \in pool} = Nodes(c)
  BY <1>11, <1>12 DEF Nodes, ToSet
<1> QED
  BY <1>10, <1>13 DEF pool, N

\* The search works on the plan of the graphs it was given.
PlanInv ==
    /\ WellFormed(base) /\ Lacking(base) = {} /\ WellFormed(cand)
    /\ pc \in {"search", "found"} => units = Plan(base, cand, fused) /\ Checked

\* Nothing changes them on the way.
LEMMA PlanInvariance == Spec => []PlanInv
<1>1. Init => PlanInv
  <2> SUFFICES ASSUME Init PROVE PlanInv
    OBVIOUS
  <2>1. WellFormed(base) /\ Lacking(base) = {} /\ WellFormed(cand)
    BY ChangesType DEF Init, Runnable
  <2> QED
    BY <2>1 DEF Init, PlanInv
<1>2. PlanInv /\ [Next]_vars => PlanInv'
  <2> SUFFICES ASSUME PlanInv, [Next]_vars PROVE PlanInv'
    OBVIOUS
  <2>1. UNCHANGED args
    BY DEF Next, CheckRaises, NoFailure, MakePlan, NothingDiffers, Probe, ProbeRaises,
           ProbeInvalid, Return, vars
  <2>2. WellFormed(base)' /\ (Lacking(base) = {})' /\ WellFormed(cand)'
    BY <2>1 DEF PlanInv, args
  <2>3. pc' \in {"search", "found"} => units' = Plan(base, cand, fused) /\ Checked
    BY DEF PlanInv, Next, CheckRaises, NoFailure, MakePlan, NothingDiffers, Probe, ProbeRaises,
           ProbeInvalid, Return, vars
  <2>4. Plan(base, cand, fused)' = Plan(base, cand, fused) /\ (Checked' <=> Checked)
    BY <2>1 DEF args, Checked
  <2> QED
    BY <2>2, <2>3, <2>4 DEF PlanInv
<1> QED
  BY <1>1, <1>2, PTL DEF Spec

\* The two ends of the search are the graphs that were compared.
THEOREM BisectEnds == Spec => []EndsAreTheGraphs
<1>1. PlanInv => EndsAreTheGraphs
  BY NoneApplied, AllApplied DEF PlanInv, EndsAreTheGraphs, Planned
<1> QED
  BY <1>1, PlanInvariance, PTL

\* In every prefix each tensor has one maker, and what is read is made unless
\* the candidate reads it too and does not make it.
THEOREM BisectPrefixes == Spec => []OnlyCyclesInvalid
<1>1. PlanInv => OnlyCyclesInvalid
  BY PrefixVerdict DEF PlanInv, OnlyCyclesInvalid, Planned, Checked, Runnable
<1> QED
  BY <1>1, PlanInvariance, PTL

\* No change is in two units.
THEOREM BisectUnits == Spec => []UnitsDisjoint
<1>1. PlanInv => UnitsDisjoint
  BY UnitsApart DEF PlanInv, UnitsDisjoint, Planned
<1> QED
  BY <1>1, PlanInvariance, PTL
=============================================================================
