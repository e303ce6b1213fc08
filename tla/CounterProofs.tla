---------------------------- MODULE CounterProofs ----------------------------
(***************************************************************************)
(* Proofs about the three limits of the system, for any number of workers  *)
(* and requests, any limit and any window:                                 *)
(*                                                                         *)
(*   - the sums that the limits are stated in;                             *)
(*   - AIBudget: what overlapping generations may spend in a month;        *)
(*   - RateLimiter: what either backend admits, and how long it refuses;   *)
(*   - QuotaWindow: what is posted in DayHours - 1 hours.                  *)
(***************************************************************************)
EXTENDS AIBudget, QuotaWindow, RateLimiter, FiniteSetTheorems,
        WellFoundedInduction, TLAPS

-----------------------------------------------------------------------------
(* Totals.  The library proves its induction theorems for predicates; these    *)
(* proofs are by induction with a set in place of the predicate.               *)

\* A set that a finite set belongs to as soon as all that is left of it without
\* one element does.
LEMMA SetInduction ==
  ASSUME NEW S, IsFiniteSet(S), NEW Good,
         \A s \in SUBSET S :
           IsFiniteSet(s) /\ (\A x \in s : s \ {x} \in Good) => s \in Good
  PROVE  S \in Good
<1> DEFINE Bad == (SUBSET S) \ Good
<1>1. SUFFICES ASSUME Bad # {} PROVE FALSE
  OBVIOUS
<1>2. IsWellFoundedOn(StrictSubsetOrdering(S), SUBSET S)
  BY FS_StrictSubsetOrderingWellFounded, FS_FiniteSubsetsOfFinite
<1>3. PICK s \in Bad : \A t \in Bad : ~(<<t, s>> \in StrictSubsetOrdering(S))
  <2> Bad \subseteq SUBSET S
    OBVIOUS
  <2> HIDE DEF Bad
  <2> QED BY <1>1, <1>2, WFMin, Zenon
<1>4. ASSUME NEW x \in s, s \ {x} \notin Good
      PROVE  FALSE
  <2>1. s \ {x} \in Bad /\ s \in SUBSET S /\ s \ {x} # s
    BY <1>3, <1>4
  <2>2. <<s \ {x}, s>> \in StrictSubsetOrdering(S)
    BY <2>1 DEF StrictSubsetOrdering
  <2> QED BY <1>3, <2>1, <2>2
<1> QED BY <1>3, <1>4, FS_Subset

\* The element that the sum of a set begins with.
Some(s) == CHOOSE x \in s : TRUE

\* g is the recursion of Total on the subsets of S.
IsIter(g, f, S) ==
  g = [s \in SUBSET S |-> IF s = {} THEN 0 ELSE f[Some(s)] + g[s \ {Some(s)}]]

Iter(f, S) == CHOOSE g : IsIter(g, f, S)

LEMMA TotalIsIter ==
  ASSUME NEW f, NEW S
  PROVE  Total(f, S) = Iter(f, S)[S]
BY Zenon DEF Total, MapThenSumSet, MapThenFoldSet, Iter, IsIter, Some

LEMMA IterIsUnique ==
  ASSUME NEW f, NEW S, NEW g, IsIter(g, f, S), NEW T, NEW h, IsIter(h, f, T)
  PROVE  \A s \in (SUBSET S) \cap (SUBSET T) : IsFiniteSet(s) => g[s] = h[s]
<1> SUFFICES ASSUME NEW s \in (SUBSET S) \cap (SUBSET T), IsFiniteSet(s)
             PROVE  g[s] = h[s]
  OBVIOUS
<1> DEFINE Good == {t \in SUBSET s : g[t] = h[t]}
<1>1. ASSUME NEW t \in SUBSET s, \A x \in t : t \ {x} \in Good
      PROVE  t \in Good
  <2>1. CASE t = {}
    BY <2>1 DEF IsIter
  <2>2. CASE t # {}
    <3>1. Some(t) \in t
      BY <2>2 DEF Some
    <3>2. /\ g[t] = f[Some(t)] + g[t \ {Some(t)}]
          /\ h[t] = f[Some(t)] + h[t \ {Some(t)}]
      BY <2>2 DEF IsIter
    <3> QED BY <1>1, <3>1, <3>2
  <2> QED BY <2>1, <2>2
<1>2. s \in Good
  <2> HIDE DEF Good
  <2> QED BY <1>1, SetInduction
<1> QED BY <1>2

\* The recursion has a solution: beyond the solutions for the smaller subsets,
\* there is one more equation.
LEMMA IterExists ==
  ASSUME NEW f, NEW S, IsFiniteSet(S)
  PROVE  IsIter(Iter(f, S), f, S)
<1> DEFINE Good == {s \in SUBSET S : \A t \in SUBSET s : IsIter(Iter(f, t), f, t)}
<1>1. ASSUME NEW s \in SUBSET S, IsFiniteSet(s), \A x \in s : s \ {x} \in Good
      PROVE  s \in Good
  <2>1. ASSUME NEW t \in SUBSET s, t # s
        PROVE  IsIter(Iter(f, t), f, t)
    <3>1. PICK x \in s : x \notin t
      BY <2>1
    <3>2. t \in SUBSET (s \ {x}) /\ s \ {x} \in Good
      BY <1>1, <3>1
    <3> QED BY <3>2
  <2> DEFINE h == [t \in SUBSET s |->
                    IF t = {} THEN 0
                    ELSE f[Some(t)] + Iter(f, t \ {Some(t)})[t \ {Some(t)}]]
  <2>2. ASSUME NEW t \in SUBSET s, t # {}
        PROVE  h[t] = f[Some(t)] + h[t \ {Some(t)}]
    <3> DEFINE u == t \ {Some(t)}
    <3>1. Some(t) \in t
      BY <2>2 DEF Some
    <3>2. u \in SUBSET s /\ u # s /\ u \in SUBSET u
      BY <3>1
    <3>3. h[t] = f[Some(t)] + Iter(f, u)[u]
      BY <2>2
    <3> HIDE DEF u
    <3>4. IsIter(Iter(f, u), f, u)
      BY <2>1, <3>2
    <3>5. CASE u = {}
      <4>1. Iter(f, u)[u] = 0
        BY <3>4, <3>5 DEF IsIter
      <4>2. h[u] = 0
        BY <3>2, <3>5
      <4> QED BY <3>3, <4>1, <4>2 DEF u
    <3>6. CASE u # {}
      <4> DEFINE v == u \ {Some(u)}
      <4>1. Some(u) \in u
        BY <3>6 DEF Some
      <4>2. v \in SUBSET s /\ v # s /\ v \in (SUBSET u) \cap (SUBSET v)
        BY <3>2, <4>1
      <4>3. Iter(f, u)[u] = f[Some(u)] + Iter(f, u)[v]
        BY <3>2, <3>4, <3>6 DEF IsIter
      <4>4. h[u] = f[Some(u)] + Iter(f, v)[v]
        BY <3>2, <3>6
      <4> HIDE DEF v
      <4>5. IsIter(Iter(f, v), f, v)
        BY <2>1, <4>2
      <4>6. IsFiniteSet(v)
        BY <1>1, <4>2, FS_Subset
      <4>7. Iter(f, u)[v] = Iter(f, v)[v]
        BY <3>4, <4>2, <4>5, <4>6, IterIsUnique
      <4> QED BY <3>3, <4>3, <4>4, <4>7 DEF u
    <3> QED BY <3>5, <3>6
  <2>3. IsIter(h, f, s)
    <3>1. \A t \in SUBSET s :
            h[t] = IF t = {} THEN 0 ELSE f[Some(t)] + h[t \ {Some(t)}]
      BY <2>2
    <3>2. h = [t \in SUBSET s |-> h[t]]
      OBVIOUS
    <3> HIDE DEF h
    <3> QED BY <3>1, <3>2 DEF IsIter
  <2>4. IsIter(Iter(f, s), f, s)
    <3> HIDE DEF h
    <3> QED BY <2>3 DEF Iter
  <2> QED BY <2>1, <2>4
<1>2. S \in Good
  <2> HIDE DEF Good
  <2> QED BY <1>1, SetInduction
<1> QED BY <1>2

LEMMA TotalOfNothing ==
  ASSUME NEW f
  PROVE  Total(f, {}) = 0
<1>1. IsIter(Iter(f, {}), f, {})
  BY IterExists, FS_EmptySet
<1> QED BY <1>1, TotalIsIter DEF IsIter

LEMMA TotalOfSome ==
  ASSUME NEW f, NEW S, IsFiniteSet(S), S # {}
  PROVE  Some(S) \in S /\ Total(f, S) = f[Some(S)] + Total(f, S \ {Some(S)})
<1> DEFINE T == S \ {Some(S)}
<1>1. Some(S) \in S
  BY DEF Some
<1>2. IsIter(Iter(f, S), f, S) /\ IsIter(Iter(f, T), f, T) /\ IsFiniteSet(T)
  BY IterExists, FS_Subset
<1>3. Iter(f, S)[S] = f[Some(S)] + Iter(f, S)[T]
  BY <1>2 DEF IsIter
<1>4. T \in (SUBSET S) \cap (SUBSET T)
  OBVIOUS
<1> HIDE DEF T
<1>5. Iter(f, S)[T] = Iter(f, T)[T]
  BY <1>2, <1>4, IterIsUnique
<1> QED BY <1>1, <1>3, <1>5, TotalIsIter DEF T

LEMMA TotalIsNat ==
  ASSUME NEW f, NEW S, IsFiniteSet(S), \A x \in S : f[x] \in Nat
  PROVE  Total(f, S) \in Nat
<1> DEFINE Good == {s \in SUBSET S : Total(f, s) \in Nat}
<1>1. ASSUME NEW s \in SUBSET S, IsFiniteSet(s), \A x \in s : s \ {x} \in Good
      PROVE  s \in Good
  <2>1. Total(f, {}) \in Nat
    BY TotalOfNothing
  <2>2. s # {} => Some(s) \in s /\ Total(f, s) = f[Some(s)] + Total(f, s \ {Some(s)})
    BY <1>1, TotalOfSome
  <2> QED BY <1>1, <2>1, <2>2
<1>2. S \in Good
  <2> HIDE DEF Good
  <2> QED BY <1>1, SetInduction
<1> QED BY <1>2

\* The order of the summation does not matter.
LEMMA TotalWithout ==
  ASSUME NEW f, NEW S, IsFiniteSet(S), \A x \in S : f[x] \in Nat
  PROVE  \A x \in S : Total(f, S) = f[x] + Total(f, S \ {x})
<1> DEFINE Good == {s \in SUBSET S :
                     \A x \in s : Total(f, s) = f[x] + Total(f, s \ {x})}
<1>1. ASSUME NEW s \in SUBSET S, IsFiniteSet(s), \A x \in s : s \ {x} \in Good
      PROVE  s \in Good
  <2> SUFFICES ASSUME NEW x \in s
               PROVE  Total(f, s) = f[x] + Total(f, s \ {x})
    OBVIOUS
  <2> DEFINE y == Some(s)
  <2>1. y \in s /\ Total(f, s) = f[y] + Total(f, s \ {y})
    BY <1>1, TotalOfSome
  <2>2. s \ {x} \in Good /\ s \ {y} \in Good
    BY <1>1, <2>1
  <2> HIDE DEF y
  <2>3. ASSUME x # y
        PROVE  /\ Total(f, s \ {x}) = f[y] + Total(f, (s \ {x}) \ {y})
               /\ Total(f, s \ {y}) = f[x] + Total(f, (s \ {y}) \ {x})
    BY <2>1, <2>2, <2>3
  <2>4. (s \ {x}) \ {y} = (s \ {y}) \ {x}
    OBVIOUS
  <2>5. Total(f, (s \ {x}) \ {y}) \in Nat /\ f[x] \in Nat /\ f[y] \in Nat
    <3>1. IsFiniteSet((s \ {x}) \ {y})
      BY <1>1, FS_Subset
    <3> QED BY <2>1, <3>1, TotalIsNat
  <2> HIDE DEF Good
  <2> QED BY <2>1, <2>3, <2>4, <2>5
<1>2. S \in Good
  <2> HIDE DEF Good
  <2> QED BY <1>1, SetInduction
<1> QED BY <1>2

LEMMA TotalSame ==
  ASSUME NEW f, NEW g, NEW S, IsFiniteSet(S),
         \A x \in S : f[x] \in Nat /\ g[x] = f[x]
  PROVE  Total(g, S) = Total(f, S)
<1> DEFINE Good == {s \in SUBSET S : Total(g, s) = Total(f, s)}
<1>1. ASSUME NEW s \in SUBSET S, IsFiniteSet(s), \A x \in s : s \ {x} \in Good
      PROVE  s \in Good
  <2>1. Total(g, {}) = Total(f, {})
    BY TotalOfNothing
  <2>2. ASSUME s # {}
        PROVE  /\ Some(s) \in s
               /\ Total(f, s) = f[Some(s)] + Total(f, s \ {Some(s)})
               /\ Total(g, s) = g[Some(s)] + Total(g, s \ {Some(s)})
    BY <1>1, <2>2, TotalOfSome
  <2> QED BY <1>1, <2>1, <2>2
<1>2. S \in Good
  <2> HIDE DEF Good
  <2> QED BY <1>1, SetInduction
<1> QED BY <1>2

LEMMA TotalSplit ==
  ASSUME NEW f, NEW S, IsFiniteSet(S), \A x \in S : f[x] \in Nat,
         NEW T \in SUBSET S
  PROVE  /\ Total(f, S) = Total(f, T) + Total(f, S \ T)
         /\ Total(f, S) \in Nat /\ Total(f, T) \in Nat /\ Total(f, S \ T) \in Nat
<1> DEFINE Good == {t \in SUBSET T : Total(f, S) = Total(f, t) + Total(f, S \ t)}
<1>1. \A t \in SUBSET S : IsFiniteSet(t) /\ Total(f, t) \in Nat
  BY FS_Subset, TotalIsNat
<1>2. ASSUME NEW t \in SUBSET T, \A x \in t : t \ {x} \in Good
      PROVE  t \in Good
  <2>1. CASE t = {}
    <3>1. S \ {} = S /\ Total(f, {}) = 0 /\ Total(f, S) \in Nat
      BY <1>1, TotalOfNothing
    <3> QED BY <2>1, <3>1
  <2>2. ASSUME NEW x \in t PROVE t \in Good
    <3> DEFINE u == t \ {x}
    <3>1. u \in SUBSET S /\ t \in SUBSET S /\ S \ u \in SUBSET S /\ x \in S \ u
          /\ S \ t \in SUBSET S /\ (S \ u) \ {x} = S \ t
      OBVIOUS
    <3>2. Total(f, S) = Total(f, u) + Total(f, S \ u)
      <4>1. u \in Good
        BY <1>2, <2>2
      <4> HIDE DEF u
      <4> QED BY <4>1
    <3>3. Total(f, t) = f[x] + Total(f, u)
      BY <1>1, TotalWithout
    <3> HIDE DEF u
    <3>4. Total(f, S \ u) = f[x] + Total(f, (S \ u) \ {x})
      BY <1>1, <3>1, TotalWithout
    <3>5. Total(f, u) \in Nat /\ Total(f, S \ t) \in Nat /\ f[x] \in Nat
      BY <1>1, <3>1
    <3>6. Total(f, S \ u) = f[x] + Total(f, S \ t)
      BY <3>1, <3>4
    <3>7. Total(f, S) = Total(f, t) + Total(f, S \ t)
      <4> DEFINE a == Total(f, S \ t)
                 b == Total(f, S \ u)
      <4>1. b = f[x] + a /\ Total(f, S) = Total(f, u) + b /\ a \in Nat
        BY <3>2, <3>5, <3>6
      <4> HIDE DEF a, b, Good
      <4>2. Total(f, S) = Total(f, t) + a
        BY <3>3, <3>5, <4>1
      <4> QED BY <4>2 DEF a
    <3> QED BY <3>7
  <2> QED BY <2>1, <2>2
<1>3. T \in Good
  <2>1. IsFiniteSet(T)
    BY <1>1
  <2> HIDE DEF Good
  <2> QED BY <1>2, <2>1, SetInduction
<1>4. S \in SUBSET S /\ T \in SUBSET S /\ S \ T \in SUBSET S
  OBVIOUS
<1> QED BY <1>1, <1>3, <1>4

\* One value changes.
LEMMA TotalChange ==
  ASSUME NEW f, NEW g, NEW S, IsFiniteSet(S), NEW x \in S,
         \A y \in S : f[y] \in Nat /\ g[y] \in Nat,
         \A y \in S \ {x} : g[y] = f[y]
  PROVE  /\ Total(g, S) + f[x] = Total(f, S) + g[x]
         /\ Total(f, S) \in Nat /\ Total(g, S) \in Nat
<1>1. /\ Total(f, S) = f[x] + Total(f, S \ {x})
      /\ Total(g, S) = g[x] + Total(g, S \ {x})
  BY TotalWithout
<1>2. IsFiniteSet(S \ {x})
  BY FS_Subset
<1>3. Total(g, S \ {x}) = Total(f, S \ {x}) /\ Total(f, S \ {x}) \in Nat
  BY <1>2, TotalSame, TotalIsNat
<1> QED BY <1>1, <1>3

LEMMA TotalBound ==
  ASSUME NEW f, NEW S, IsFiniteSet(S), NEW n \in Nat,
         \A x \in S : f[x] \in Nat /\ f[x] <= n
  PROVE  Total(f, S) <= Cardinality(S) * n
<1> DEFINE Good == {s \in SUBSET S : Total(f, s) <= Cardinality(s) * n}
<1>1. ASSUME NEW s \in SUBSET S, IsFiniteSet(s), \A x \in s : s \ {x} \in Good
      PROVE  s \in Good
  <2>1. CASE s = {}
    <3>1. Total(f, {}) = 0 /\ Cardinality({}) = 0
      BY TotalOfNothing, FS_EmptySet
    <3>2. Total(f, {}) <= Cardinality({}) * n
      BY <3>1
    <3> QED BY <2>1, <3>2
  <2>2. ASSUME NEW x \in s PROVE s \in Good
    <3> DEFINE t == s \ {x}
    <3>1. Total(f, s) = f[x] + Total(f, t) /\ Total(f, t) <= Cardinality(t) * n
      BY <1>1, TotalWithout
    <3>2. IsFiniteSet(t)
      BY <1>1, FS_Subset
    <3>3. /\ Total(f, t) \in Nat /\ Cardinality(t) \in Nat
          /\ Cardinality(s) \in Nat /\ Cardinality(t) = Cardinality(s) - 1
      BY <1>1, <3>2, TotalIsNat, FS_RemoveElement, FS_CardinalityType
    <3> HIDE DEF t
    <3>4. Cardinality(s) * n = Cardinality(t) * n + n /\ Cardinality(t) * n \in Nat
      BY <3>3
    <3>5. Total(f, s) <= Cardinality(s) * n
      BY <3>1, <3>3, <3>4
    <3> QED BY <3>5
  <2> QED BY <2>1, <2>2
<1>2. S \in Good
  <2> HIDE DEF Good
  <2> QED BY <1>1, SetInduction
<1> QED BY <1>2

\* Every value moves up by one.
LEMMA TotalShift ==
  ASSUME NEW f, NEW g, NEW S \in SUBSET Nat, IsFiniteSet(S),
         \A a \in S : f[a] \in Nat /\ g[a + 1] = f[a]
  PROVE  Total(g, {a + 1 : a \in S}) = Total(f, S)
<1> DEFINE Up(s) == {a + 1 : a \in s}
           Good == {s \in SUBSET S : /\ IsFiniteSet(Up(s))
                                     /\ Total(g, Up(s)) = Total(f, s)}
<1>1. ASSUME NEW s \in SUBSET S, IsFiniteSet(s), \A x \in s : s \ {x} \in Good
      PROVE  s \in Good
  <2>1. CASE s = {}
    <3>1. Up({}) = {}
      OBVIOUS
    <3>2. IsFiniteSet({}) /\ Total(g, {}) = Total(f, {})
      BY TotalOfNothing, FS_EmptySet
    <3> QED BY <2>1, <3>1, <3>2
  <2>2. ASSUME NEW x \in s PROVE s \in Good
    <3> DEFINE t == s \ {x}
    <3>1. IsFiniteSet(Up(t)) /\ Total(g, Up(t)) = Total(f, t)
      BY <1>1
    <3>2. Total(f, s) = f[x] + Total(f, t)
      <4>1. \A a \in s : f[a] \in Nat
        OBVIOUS
      <4> HIDE DEF Good, t
      <4>2. \A a \in s : Total(f, s) = f[a] + Total(f, s \ {a})
        BY <1>1, <4>1, TotalWithout
      <4> QED BY <4>2 DEF t
    <3>7. g[x + 1] = f[x]
      OBVIOUS
    <3>3. /\ Up(s) = Up(t) \cup {x + 1} /\ Up(s) \ {x + 1} = Up(t)
          /\ x + 1 \in Up(s) /\ \A b \in Up(s) : g[b] \in Nat
      OBVIOUS
    <3>4. IsFiniteSet(Up(s)) /\ Total(g, Up(s)) = Total(f, s) => s \in Good
      OBVIOUS
    <3> HIDE DEF t, Up, Good
    <3>5. IsFiniteSet(Up(s))
      BY <3>1, <3>3, FS_AddElement
    <3>6. Total(g, Up(s)) = g[x + 1] + Total(g, Up(t))
      BY <3>3, <3>5, TotalWithout
    <3> QED BY <3>1, <3>2, <3>4, <3>5, <3>6, <3>7
  <2> QED BY <2>1, <2>2
<1>2. S \in Good
  <2> HIDE DEF Good
  <2> QED BY <1>1, SetInduction
<1> QED BY <1>2

LEMMA Product ==
  ASSUME NEW k \in Nat, NEW l \in Nat, k <= l, NEW n \in Nat
  PROVE  k * n <= l * n
<1>1. (l - k) * n >= 0
  BY SMT
<1>2. l * n = k * n + (l - k) * n
  BY SMT
<1> QED BY <1>1, <1>2, SMT

-----------------------------------------------------------------------------
(* The AI budget. *)

\* A month has one request at most that has written its row and not committed.
Exclusive ==
  \A c, d \in Generators :
    request[c].step = "written" /\ request[d].step = "written"
      /\ request[c].month = request[d].month => c = d

\* A request that was not outrun has read the row as it is.
Fresh ==
  \A c \in Generators :
    request[c].step \in {"recording", "written"} /\ c \notin outrun =>
      request[c].read = usage[request[c].month]

\* Nothing is charged to a month that has not begun.
Begun == \A m \in Months : m > month => generated[m] = 0

\* The requests whose cost may still be charged to month m.
Charging(m) ==
  {c \in Generators :
     \/ request[c].step = "calling" /\ m >= month
     \/ request[c].step \in {"recording", "written"} /\ request[c].month = m}

\* What is stored for a month and what may be added to it stay in the bound.
Room ==
  Budget > 0 /\ ~drifted =>
    \A m \in Months :
      generated[m] + Cardinality(Charging(m)) * MaxCost
        <= Budget - 1 + Cardinality(Generators) * MaxCost

\* Months of requests are not in the future.
Dated ==
  \A c \in Generators :
    request[c].step \in {"recording", "written"} => request[c].month <= month

AIInv == AITypeOK /\ Exclusive /\ Fresh /\ Begun /\ Dated /\ UsageMatchesHistory

-----------------------------------------------------------------------------
(* Arithmetic of sets of requests. *)

\* Fewer requests may add no more.
LEMMA FewerChargeLess ==
  ASSUME NEW S, NEW T, T \subseteq Generators, S \subseteq T
  PROVE  /\ Cardinality(S) * MaxCost \in Nat
         /\ Cardinality(T) * MaxCost \in Nat
         /\ Cardinality(S) * MaxCost <= Cardinality(T) * MaxCost
<1>1. IsFiniteSet(T) /\ MaxCost \in Nat
  BY BudgetAssumption, FS_Subset
<1>2. /\ IsFiniteSet(S) /\ Cardinality(S) \in Nat /\ Cardinality(T) \in Nat
      /\ Cardinality(S) <= Cardinality(T)
  BY <1>1, FS_Subset, FS_CardinalityType
<1>3. Cardinality(S) * MaxCost <= Cardinality(T) * MaxCost
  BY <1>1, <1>2, Product
<1>4. Cardinality(S) * MaxCost \in Nat /\ Cardinality(T) * MaxCost \in Nat
  BY <1>1, <1>2, SMT
<1> QED BY <1>3, <1>4

\* A request that is through leaves room for its cost.
LEMMA OneLess ==
  ASSUME NEW T, T \subseteq Generators, NEW c \in T
  PROVE  Cardinality(T \ {c}) * MaxCost = Cardinality(T) * MaxCost - MaxCost
<1>1. IsFiniteSet(T) /\ MaxCost \in Nat
  BY BudgetAssumption, FS_Subset
<1>2. /\ Cardinality(T \ {c}) = Cardinality(T) - 1
      /\ Cardinality(T) \in Nat
  BY <1>1, FS_RemoveElement, FS_CardinalityType
<1> DEFINE k == Cardinality(T)
<1>3. (k - 1) * MaxCost = k * MaxCost - MaxCost
  <2> k \in Nat BY <1>2
  <2> HIDE DEF k
  <2> QED BY <1>1, SMT
<1> QED BY <1>2, <1>3

-----------------------------------------------------------------------------
(* Types. *)

LEMMA NothingIsTyped == NoGeneration \in Generation /\ NoUsage \in UsageRow /\ 0 \in Months
<1>1. 0 \in Months /\ 0 \in Costs
  BY BudgetAssumption DEF Months, Costs
<1>2. NoUsage \in UsageRow
  BY DEF NoUsage, UsageRow
<1>3. NoGeneration \in Generation
  BY <1>1, <1>2 DEF NoGeneration, Generation
<1> QED BY <1>1, <1>2, <1>3

LEMMA AITypesInit == AIInit => AITypeOK
<1> SUFFICES ASSUME AIInit PROVE AITypeOK
  OBVIOUS
<1>1. month \in Months
  BY NothingIsTyped DEF AIInit
<1>2. usage \in [Months -> UsageRow] /\ generated \in [Months -> Nat]
  BY NothingIsTyped DEF AIInit
<1>3. request \in [Generators -> Generation]
  BY NothingIsTyped DEF AIInit
<1>4. outrun \in SUBSET Generators /\ drifted \in BOOLEAN
  BY DEF AIInit
<1> QED BY <1>1, <1>2, <1>3, <1>4 DEF AITypeOK

LEMMA AITypesNext == AITypeOK /\ [AINext]_aiVars => AITypeOK'
<1> SUFFICES ASSUME AITypeOK, [AINext]_aiVars PROVE AITypeOK'
  OBVIOUS
<1> USE BudgetAssumption DEF AITypeOK, Months, Costs, UsageRow, Generation
<1>n. NoGeneration \in Generation
  BY NothingIsTyped
<1>1. CASE MonthEnds
  BY <1>1 DEF MonthEnds
<1>2. ASSUME NEW c \in Generators, EnforceBudget(c) PROVE AITypeOK'
  BY <1>2 DEF EnforceBudget
<1>3. ASSUME NEW c \in Generators, NEW cost \in Costs, Completion(c, cost)
      PROVE AITypeOK'
  BY <1>3 DEF Completion
<1>4. ASSUME NEW c \in Generators, WriteUsage(c) PROVE AITypeOK'
  BY <1>4 DEF WriteUsage
<1>5. ASSUME NEW c \in Generators, CommitGeneration(c) PROVE AITypeOK'
  <2>1. /\ request[c].month \in Months /\ request[c].cost \in Nat
        /\ request[c].read.quantity \in Nat
    OBVIOUS
  <2>2. usage' \in [Months -> UsageRow]
    BY <1>5, <2>1 DEF CommitGeneration
  <2>3. generated' \in [Months -> Nat]
    BY <1>5, <2>1 DEF CommitGeneration
  <2>4. request' \in [Generators -> Generation]
    BY <1>5, <1>n DEF CommitGeneration
  <2>5. month' \in Months /\ outrun' \in SUBSET Generators /\ drifted' \in BOOLEAN
    BY <1>5 DEF CommitGeneration, Outruns
  <2> QED BY <2>2, <2>3, <2>4, <2>5
<1>6. ASSUME NEW c \in Generators, UsageInsertedMeanwhile(c) PROVE AITypeOK'
  BY <1>6, <1>n DEF UsageInsertedMeanwhile
<1>7. ASSUME NEW c \in Generators, GenerationFails(c) PROVE AITypeOK'
  BY <1>7, <1>n DEF GenerationFails
<1>8. CASE UNCHANGED aiVars
  BY <1>8 DEF aiVars
<1> QED BY <1>1, <1>2, <1>3, <1>4, <1>5, <1>6, <1>7, <1>8 DEF AINext

-----------------------------------------------------------------------------
(* The usage row. *)

LEMMA UsageInit == AIInit => AIInv
<1> SUFFICES ASSUME AIInit PROVE AIInv
  OBVIOUS
<1>1. AITypeOK
  BY AITypesInit
<1> QED BY <1>1 DEF AIInit, AIInv, Exclusive, Fresh, Begun, Dated,
           UsageMatchesHistory, NoGeneration, NoUsage

\* A request that goes back to idle takes nothing with it.
LEMMA UsageKeptByEnd ==
  ASSUME AIInv, AITypeOK', NEW c \in Generators,
         request' = [request EXCEPT ![c] = NoGeneration],
         outrun' = outrun \ {c}, UNCHANGED <<month, usage, generated, drifted>>
  PROVE  AIInv'
<1> USE DEF AIInv
<1>1. \A d \in Generators \ {c} : request'[d] = request[d]
  BY DEF AITypeOK
<1>2. request'[c].step = "idle"
  BY DEF AITypeOK, NoGeneration
<1>3. Exclusive'
  BY <1>1, <1>2 DEF Exclusive
<1>4. Fresh'
  BY <1>1, <1>2 DEF Fresh
<1>5. Begun' /\ UsageMatchesHistory'
  BY DEF Begun, UsageMatchesHistory
<1>6. Dated'
  BY <1>1, <1>2 DEF Dated
<1> QED BY <1>3, <1>4, <1>5, <1>6

LEMMA UsageNext == AIInv /\ [AINext]_aiVars => AIInv'
<1> SUFFICES ASSUME AIInv, [AINext]_aiVars PROVE AIInv'
  OBVIOUS
<1>t. AITypeOK /\ AITypeOK'
  BY AITypesNext DEF AIInv
<1>m. month \in Nat /\ \A c \in Generators : request[c].month \in Nat
  BY <1>t, BudgetAssumption DEF AITypeOK, Generation, Months
<1>1. CASE MonthEnds
  BY <1>1, <1>t, <1>m DEF MonthEnds, AIInv, Exclusive, Fresh, Begun, Dated,
     UsageMatchesHistory, Months
<1>2. ASSUME NEW c \in Generators, EnforceBudget(c) PROVE AIInv'
  BY <1>2, <1>t DEF EnforceBudget, AIInv, Exclusive, Fresh, Begun, Dated,
     UsageMatchesHistory, AITypeOK, Generation
<1>3. ASSUME NEW c \in Generators, NEW cost \in Costs, Completion(c, cost)
      PROVE AIInv'
  <2>1. \A d \in Generators \ {c} : request'[d] = request[d]
    BY <1>3, <1>t DEF Completion, AITypeOK
  <2>2. /\ request'[c].step = "recording" /\ request'[c].month = month
        /\ request'[c].read = usage[month]
    BY <1>3, <1>t DEF Completion, AITypeOK
  <2>3. UNCHANGED <<month, usage, generated, outrun, drifted>>
    BY <1>3 DEF Completion
  <2>4. Exclusive'
    BY <2>1, <2>2 DEF AIInv, Exclusive
  <2>5. Fresh'
    BY <2>1, <2>2, <2>3 DEF AIInv, Fresh
  <2>6. Begun' /\ UsageMatchesHistory'
    BY <2>3 DEF AIInv, Begun, UsageMatchesHistory
  <2>7. Dated'
    BY <2>1, <2>2, <2>3, <1>m DEF AIInv, Dated
  <2> QED BY <1>t, <2>4, <2>5, <2>6, <2>7 DEF AIInv
<1>4. ASSUME NEW c \in Generators, WriteUsage(c) PROVE AIInv'
  <2>1. \A d \in Generators \ {c} : request'[d] = request[d]
    BY <1>4, <1>t DEF WriteUsage, AITypeOK
  <2>2. /\ request[c].step = "recording" /\ request'[c].step = "written"
        /\ request'[c].month = request[c].month
        /\ request'[c].read = request[c].read
    BY <1>4, <1>t DEF WriteUsage, AITypeOK, Generation
  <2>3. UNCHANGED <<month, usage, generated, outrun, drifted>>
    BY <1>4 DEF WriteUsage
  <2>4. \A d \in Generators \ {c} :
          request[d].step = "written" => request[d].month # request[c].month
    BY <1>4 DEF WriteUsage, UsageIsFree
  <2>5. Exclusive'
    BY <2>1, <2>2, <2>4 DEF AIInv, Exclusive
  <2>6. Fresh'
    BY <2>1, <2>2, <2>3 DEF AIInv, Fresh
  <2>7. Begun' /\ UsageMatchesHistory'
    BY <2>3 DEF AIInv, Begun, UsageMatchesHistory
  <2>8. Dated'
    BY <2>1, <2>2, <2>3 DEF AIInv, Dated
  <2> QED BY <1>t, <2>5, <2>6, <2>7, <2>8 DEF AIInv
<1>5. ASSUME NEW c \in Generators, CommitGeneration(c) PROVE AIInv'
  <2> DEFINE n == request[c].month
  <2>1. \A d \in Generators \ {c} : request'[d] = request[d]
    BY <1>5, <1>t DEF CommitGeneration, AITypeOK
  <2>2. request[c].step = "written" /\ request'[c].step = "idle"
    BY <1>5, <1>t DEF CommitGeneration, AITypeOK, NoGeneration
  <2>3. n \in Months /\ n <= month
    BY <1>t, <2>2 DEF AITypeOK, Generation, AIInv, Dated
  <2>4. \A m \in Months : m # n => usage'[m] = usage[m] /\ generated'[m] = generated[m]
    BY <1>5, <1>t DEF CommitGeneration, AITypeOK
  <2>5. /\ usage'[n].quantity = request[c].read.quantity + request[c].cost
        /\ generated'[n] = generated[n] + request[c].cost
    BY <1>5, <1>t, <2>3 DEF CommitGeneration, AITypeOK
  <2>6. /\ month' = month /\ drifted' = (drifted \/ c \in outrun)
        /\ outrun' = (outrun \cup Outruns(c)) \ {c}
    BY <1>5 DEF CommitGeneration
  <2>7. Exclusive'
    BY <2>1, <2>2 DEF AIInv, Exclusive
  <2>8. Fresh'
    <3> SUFFICES ASSUME NEW d \in Generators,
                        request'[d].step \in {"recording", "written"}, d \notin outrun'
                 PROVE  request'[d].read = usage'[request'[d].month]
      BY DEF Fresh
    <3>1. d # c /\ request'[d] = request[d]
      BY <2>1, <2>2
    <3>2. d \notin outrun /\ d \notin Outruns(c)
      BY <2>6, <3>1
    <3>3. request[d].month # n
      BY <2>2, <3>1, <3>2 DEF AIInv, Exclusive, Outruns
    <3>4. request[d].month \in Months
      BY <1>t DEF AITypeOK, Generation
    <3> QED BY <2>4, <3>1, <3>2, <3>3, <3>4 DEF AIInv, Fresh
  <2>9. Begun'
    BY <2>3, <2>4, <2>6, <1>m DEF AIInv, Begun
  <2>10. Dated'
    BY <2>1, <2>2, <2>6 DEF AIInv, Dated
  <2>11. UsageMatchesHistory'
    <3> SUFFICES ASSUME ~drifted', NEW m \in Months
                 PROVE  usage'[m].quantity = generated'[m]
      BY DEF UsageMatchesHistory
    <3>1. ~drifted /\ c \notin outrun
      BY <2>6
    <3>2. \A k \in Months : usage[k].quantity = generated[k]
      BY <3>1 DEF AIInv, UsageMatchesHistory
    <3>3. request[c].read = usage[n]
      BY <2>2, <3>1 DEF AIInv, Fresh
    <3> QED BY <2>3, <2>4, <2>5, <3>2, <3>3
  <2> QED BY <1>t, <2>7, <2>8, <2>9, <2>10, <2>11 DEF AIInv
<1>6. ASSUME NEW c \in Generators, UsageInsertedMeanwhile(c) PROVE AIInv'
  BY <1>6, <1>t, UsageKeptByEnd DEF UsageInsertedMeanwhile
<1>7. ASSUME NEW c \in Generators, GenerationFails(c) PROVE AIInv'
  BY <1>7, <1>t, UsageKeptByEnd DEF GenerationFails
<1>8. CASE UNCHANGED aiVars
  BY <1>8, <1>t DEF aiVars, AIInv, Exclusive, Fresh, Begun, Dated, UsageMatchesHistory
<1> QED BY <1>1, <1>2, <1>3, <1>4, <1>5, <1>6, <1>7, <1>8 DEF AINext

-----------------------------------------------------------------------------
(* Spending. *)

\* The bound is kept when no request more may charge a month and nothing was
\* charged.
LEMMA RoomKept ==
  ASSUME AIInv, Room, AIInv', generated' = generated, drifted' = drifted,
         \A m \in Months : Charging(m)' \subseteq Charging(m)
  PROVE  Room'
<1> SUFFICES ASSUME Budget > 0, ~drifted, NEW m \in Months
             PROVE  generated[m] + Cardinality(Charging(m)') * MaxCost
                      <= Budget - 1 + Cardinality(Generators) * MaxCost
  BY DEF Room
<1>1. Charging(m) \subseteq Generators /\ Charging(m)' \subseteq Charging(m)
  BY DEF Charging
<1>2. /\ Cardinality(Charging(m)') * MaxCost \in Nat
      /\ Cardinality(Charging(m)) * MaxCost \in Nat
      /\ Cardinality(Charging(m)') * MaxCost <= Cardinality(Charging(m)) * MaxCost
  BY <1>1, FewerChargeLess
<1>3. generated[m] + Cardinality(Charging(m)) * MaxCost
        <= Budget - 1 + Cardinality(Generators) * MaxCost
  BY DEF Room
<1>4. generated[m] \in Nat /\ Budget \in Int
      /\ Cardinality(Generators) * MaxCost \in Nat
  BY BudgetAssumption, FewerChargeLess DEF AIInv, AITypeOK
<1> DEFINE a == Cardinality(Charging(m)') * MaxCost
           b == Cardinality(Charging(m)) * MaxCost
           g == Cardinality(Generators) * MaxCost
<1> HIDE DEF a, b, g
<1>5. generated[m] + b <= Budget - 1 + g /\ a <= b /\ a \in Nat /\ b \in Nat /\ g \in Nat
  BY <1>2, <1>3, <1>4 DEF a, b, g
<1>6. generated[m] + a <= Budget - 1 + g
  BY <1>4, <1>5
<1> QED BY <1>6 DEF a, g

LEMMA RoomInit == AIInit => Room
<1> SUFFICES ASSUME AIInit, Budget > 0, NEW m \in Months
             PROVE  generated[m] + Cardinality(Charging(m)) * MaxCost
                      <= Budget - 1 + Cardinality(Generators) * MaxCost
  BY DEF Room
<1>1. Charging(m) \subseteq Generators
  BY DEF Charging
<1> DEFINE a == Cardinality(Charging(m)) * MaxCost
           g == Cardinality(Generators) * MaxCost
<1>2. a \in Nat /\ g \in Nat /\ a <= g
  BY <1>1, FewerChargeLess
<1>3. generated[m] = 0 /\ Budget \in Int
  BY BudgetAssumption DEF AIInit
<1> HIDE DEF a, g
<1>4. generated[m] + a <= Budget - 1 + g
  BY <1>2, <1>3
<1> QED BY <1>4 DEF a, g

LEMMA RoomNext == AIInv /\ AIInv' /\ Room /\ [AINext]_aiVars => Room'
<1> SUFFICES ASSUME AIInv, AIInv', Room, [AINext]_aiVars PROVE Room'
  OBVIOUS
<1>t. AITypeOK /\ AITypeOK'
  BY DEF AIInv
<1>m. month \in Nat /\ \A m \in Months : m \in Nat
  BY <1>t, BudgetAssumption DEF AITypeOK, Months
<1>1. CASE MonthEnds
  <2>1. \A m \in Months : Charging(m)' \subseteq Charging(m)
    BY <1>1, <1>m DEF MonthEnds, Charging
  <2> QED BY <1>1, <2>1, RoomKept DEF MonthEnds
<1>2. ASSUME NEW c \in Generators, EnforceBudget(c) PROVE Room'
  <2> SUFFICES ASSUME Budget > 0, ~drifted, NEW m \in Months
               PROVE  generated[m] + Cardinality(Charging(m)') * MaxCost
                        <= Budget - 1 + Cardinality(Generators) * MaxCost
    BY <1>2 DEF Room, EnforceBudget
  <2>1. generated[m] \in Nat /\ Budget \in Int
    BY <1>t, BudgetAssumption DEF AITypeOK
  <2> DEFINE a == Cardinality(Charging(m)') * MaxCost
             g == Cardinality(Generators) * MaxCost
  <2>2. CASE m >= month
    <3>1. generated[m] <= Budget - 1
      <4>1. usage[month].quantity < Budget
        BY <1>2, <2>1 DEF EnforceBudget
      <4>2. CASE m = month
        BY <2>1, <4>1, <4>2 DEF AIInv, UsageMatchesHistory
      <4>3. CASE m > month
        BY <2>1, <4>3 DEF AIInv, Begun
      <4> QED BY <2>2, <4>2, <4>3, <1>m
    <3>2. Charging(m)' \subseteq Generators
      BY DEF Charging
    <3>3. a \in Nat /\ g \in Nat /\ a <= g
      BY <3>2, FewerChargeLess
    <3> HIDE DEF a, g
    <3>4. generated[m] + a <= Budget - 1 + g
      BY <2>1, <3>1, <3>3
    <3> QED BY <3>4 DEF a, g
  <2>3. CASE ~(m >= month)
    <3>1. Charging(m)' = Charging(m)
      BY <1>2, <1>t, <2>3 DEF EnforceBudget, Charging, AITypeOK, Generation
    <3> QED BY <3>1 DEF Room
  <2> QED BY <2>2, <2>3
<1>3. ASSUME NEW c \in Generators, NEW cost \in Costs, Completion(c, cost)
      PROVE Room'
  <2>1. \A m \in Months : Charging(m)' \subseteq Charging(m)
    BY <1>3, <1>t, <1>m DEF Completion, Charging, AITypeOK
  <2> QED BY <1>3, <2>1, RoomKept DEF Completion
<1>4. ASSUME NEW c \in Generators, WriteUsage(c) PROVE Room'
  <2>1. \A m \in Months : Charging(m)' \subseteq Charging(m)
    BY <1>4, <1>t, <1>m DEF WriteUsage, Charging, AITypeOK, Generation
  <2> QED BY <1>4, <2>1, RoomKept DEF WriteUsage
<1>5. ASSUME NEW c \in Generators, CommitGeneration(c) PROVE Room'
  <2> DEFINE n == request[c].month
             cost == request[c].cost
  <2>1. /\ request[c].step = "written" /\ request'[c].step = "idle"
        /\ \A d \in Generators \ {c} : request'[d] = request[d]
    BY <1>5, <1>t DEF CommitGeneration, AITypeOK, NoGeneration
  <2>2. /\ n \in Months /\ cost \in Nat /\ cost <= MaxCost /\ MaxCost \in Nat
    BY <1>t, BudgetAssumption DEF AITypeOK, Generation, Costs
  <2>3. month' = month /\ (drifted => drifted')
    BY <1>5 DEF CommitGeneration
  <2>4. /\ generated'[n] = generated[n] + cost
        /\ \A m \in Months : m # n => generated'[m] = generated[m]
    BY <1>5, <1>t, <2>2 DEF CommitGeneration, AITypeOK
  <2> SUFFICES ASSUME Budget > 0, ~drifted, NEW m \in Months
               PROVE  generated'[m] + Cardinality(Charging(m)') * MaxCost
                        <= Budget - 1 + Cardinality(Generators) * MaxCost
    BY <2>3 DEF Room
  <2>5. generated[m] + Cardinality(Charging(m)) * MaxCost
          <= Budget - 1 + Cardinality(Generators) * MaxCost
    BY DEF Room
  <2>6. Charging(m) \subseteq Generators
    BY DEF Charging
  <2>7. CASE m = n
    <3>1. Charging(m)' = Charging(m) \ {c} /\ c \in Charging(m)
      BY <2>1, <2>3, <2>7 DEF Charging
    <3>2. Cardinality(Charging(m)') * MaxCost
            = Cardinality(Charging(m)) * MaxCost - MaxCost
      BY <2>6, <3>1, OneLess
    <3> DEFINE a == Cardinality(Charging(m)') * MaxCost
               b == Cardinality(Charging(m)) * MaxCost
               g == Cardinality(Generators) * MaxCost
    <3>3. b \in Nat /\ g \in Nat /\ generated[m] \in Nat /\ Budget \in Int
      BY <1>t, <2>6, BudgetAssumption, FewerChargeLess DEF AITypeOK
    <3>4. a = b - MaxCost /\ generated[m] + b <= Budget - 1 + g
      BY <2>5, <3>2
    <3>5. generated'[m] = generated[m] + cost
      BY <2>4, <2>7
    <3> HIDE DEF a, b, g, cost
    <3>6. generated'[m] + a <= Budget - 1 + g
      BY <2>2, <3>3, <3>4, <3>5
    <3> QED BY <3>6 DEF a, g
  <2>8. CASE m # n
    <3>1. Charging(m)' = Charging(m)
      BY <2>1, <2>3, <2>8 DEF Charging
    <3> QED BY <2>4, <2>5, <2>8, <3>1
  <2> QED BY <2>7, <2>8
<1>6. ASSUME NEW c \in Generators, UsageInsertedMeanwhile(c) PROVE Room'
  <2>1. \A m \in Months : Charging(m)' \subseteq Charging(m)
    BY <1>6, <1>t DEF UsageInsertedMeanwhile, Charging, AITypeOK, NoGeneration
  <2> QED BY <1>6, <2>1, RoomKept DEF UsageInsertedMeanwhile
<1>7. ASSUME NEW c \in Generators, GenerationFails(c) PROVE Room'
  <2>1. \A m \in Months : Charging(m)' \subseteq Charging(m)
    BY <1>7, <1>t DEF GenerationFails, Charging, AITypeOK, NoGeneration
  <2> QED BY <1>7, <2>1, RoomKept DEF GenerationFails
<1>8. CASE UNCHANGED aiVars
  BY <1>8 DEF aiVars, Room, Charging
<1> QED BY <1>1, <1>2, <1>3, <1>4, <1>5, <1>6, <1>7, <1>8 DEF AINext

LEMMA RoomBounds == AIInv /\ Room => SpendingIsBounded
<1> SUFFICES ASSUME AIInv, Room, Budget > 0, ~drifted, NEW m \in Months
             PROVE  generated[m] <= Budget - 1 + Cardinality(Generators) * MaxCost
  BY DEF SpendingIsBounded
<1>1. Charging(m) \subseteq Generators
  BY DEF Charging
<1> DEFINE a == Cardinality(Charging(m)) * MaxCost
           g == Cardinality(Generators) * MaxCost
<1>2. a \in Nat /\ g \in Nat
  BY <1>1, FewerChargeLess
<1>3. generated[m] + a <= Budget - 1 + g
  BY DEF Room
<1>4. generated[m] \in Nat /\ Budget \in Int
  BY BudgetAssumption DEF AIInv, AITypeOK
<1> HIDE DEF a, g
<1>5. generated[m] <= Budget - 1 + g
  BY <1>2, <1>3, <1>4
<1> QED BY <1>5 DEF g

-----------------------------------------------------------------------------
(* Theorems. *)

\* The rows, the requests and the history keep their types.
THEOREM AITypes == AISpec => []AITypeOK
BY AITypesInit, AITypesNext, PTL DEF AISpec

\* The usage row of a month is the sum of the generations that are stored for
\* it, in spite of failures, of rows that two requests insert at once and of a
\* month that ends meanwhile, unless an outrun request has committed
\* (_record_usage).
THEOREM UsageAgrees == AISpec => []UsageMatchesHistory
<1>1. AIInv => UsageMatchesHistory
  BY DEF AIInv
<1> QED BY UsageInit, UsageNext, <1>1, PTL DEF AISpec

\* What a workspace spends in a month exceeds its budget by less than the cost
\* of the generations that run at once, unless an outrun request has committed
\* (_enforce_budget).
THEOREM BudgetHolds == AISpec => []SpendingIsBounded
<1>1. AIInit => AIInv /\ Room
  BY UsageInit, RoomInit
<1>2. (AIInv /\ Room) /\ [AINext]_aiVars => (AIInv /\ Room)'
  BY UsageNext, RoomNext
<1> QED BY <1>1, <1>2, RoomBounds, PTL DEF AISpec

-----------------------------------------------------------------------------
(* The rate limiter. *)

\* What the proof needs of the types: no bounds, and nothing of recent.
Counts ==
  /\ tick \in Nat
  /\ counter \in [Backends -> [count : Nat, since : Nat]]
  /\ \A b \in Backends : counter[b].since <= tick
  /\ told \in [Backends -> Nat] /\ refusedAt \in [Backends -> Nat]

\* A wait that was announced ends no earlier than a second before the window,
\* and the window is still the one that was full then.
Announced ==
  \A b \in Backends : told[b] # 0 =>
    counter[b].count > Limit /\ counter[b].since + Window < told[b] + Second

WaitInv == Counts /\ Announced /\ RefusalsEnd

\* A hit opens a new window: in Redis an instant later than in memory.
IsOver(b) ==
  \/ counter[b].count = 0
  \/ IF b = "memory" THEN Age(b) >= Window ELSE Age(b) > Window

-----------------------------------------------------------------------------

LEMMA Positive == /\ Window \in Nat /\ Window > 0 /\ Limit \in Nat /\ Limit > 0
                  /\ Second \in Nat /\ Second > 0
<1>1. /\ WindowSecs \in Nat /\ WindowSecs > 0 /\ Limit \in Nat /\ Limit > 0
      /\ Second \in Nat /\ Second > 0
  BY LimiterAssumption
<1>2. WindowSecs * Second \in Nat /\ WindowSecs * Second > 0
  BY <1>1
<1> QED BY <1>1, <1>2 DEF Window

\* Cut to whole seconds, a wait is short by less than a second.
LEMMA RetryAfterIsClose ==
  ASSUME NEW reset \in Nat
  PROVE  /\ RetryAfter(reset) * Second \in Nat
         /\ RetryAfter(reset) * Second > 0
         /\ reset < RetryAfter(reset) * Second + Second
<1>1. Second \in Nat /\ Second > 0
  BY Positive
<1>2. CASE reset < Second
  BY <1>1, <1>2 DEF RetryAfter
<1>3. CASE reset >= Second
  <2> DEFINE q == reset \div Second
             m == reset % Second
  <2>1. q \in Nat /\ m \in Nat /\ m < Second /\ reset = Second * q + m
    BY <1>1
  <2> HIDE DEF q, m
  <2>2. q # 0
    BY <1>1, <1>3, <2>1
  <2>3. q * Second = Second * q /\ q * Second \in Nat /\ q * Second > 0
    BY <1>1, <2>1, <2>2
  <2>4. RetryAfter(reset) = q
    BY <1>1, <1>3 DEF RetryAfter, q
  <2> QED BY <1>1, <2>1, <2>3, <2>4
<1> QED BY <1>1, <1>2, <1>3

\* What a backend counts, and the wait that it announces: to the end of the window
\* or, in the last instant of Redis, longer.
LEMMA HitCounts ==
  ASSUME Counts, NEW b \in Backends
  PROVE  /\ Count(b) \in [count : Nat, since : Nat]
         /\ Count(b).count > 0 /\ Count(b).since <= tick
         /\ IsOver(b) => Count(b) = [count |-> 1, since |-> tick]
         /\ ~IsOver(b) => Count(b) = [count |-> counter[b].count + 1,
                                      since |-> counter[b].since]
         /\ tick <= Count(b).since + Window
         /\ ResetAfter(b) \in 0 .. Window
         /\ Count(b).since + Window <= tick + ResetAfter(b)
<1>1. /\ tick \in Nat /\ counter[b] \in [count : Nat, since : Nat]
      /\ counter[b].since <= tick /\ b \in {"memory", "redis"}
  BY DEF Counts, Backends
<1>2. Count(b) = CountFrom(b, IsOver(b))
  BY <1>1 DEF Count, CountInMemory, CountInRedis, IsOver
<1>3. /\ IsOver(b) => Count(b) = [count |-> 1, since |-> tick]
      /\ ~IsOver(b) => Count(b) = [count |-> counter[b].count + 1,
                                   since |-> counter[b].since]
  BY <1>2 DEF CountFrom
<1>4. ~IsOver(b) => tick - counter[b].since <= Window
  BY <1>1, Positive DEF IsOver, Age
<1> DEFINE c == Count(b)
<1>5. /\ c \in [count : Nat, since : Nat] /\ c.count > 0 /\ c.since <= tick
      /\ tick <= c.since + Window
  <2> HIDE DEF c
  <2>1. CASE IsOver(b)
    BY <1>1, <1>3, <2>1, Positive DEF c
  <2>2. CASE ~IsOver(b)
    BY <1>1, <1>3, <1>4, <2>2, Positive DEF c
  <2> QED BY <2>1, <2>2
<1>6. ResetAfter(b) = IF b = "redis" /\ Window - (tick - c.since) = 0 THEN Window
                      ELSE Window - (tick - c.since)
  BY DEF ResetAfter
<1> HIDE DEF c
<1>7. ResetAfter(b) \in 0 .. Window /\ c.since + Window <= tick + ResetAfter(b)
  BY <1>1, <1>5, <1>6, Positive
<1> QED BY <1>3, <1>5, <1>7 DEF c

\* A hit, in one of the backends.
LEMMA HitOf ==
  ASSUME NEW b \in Backends, Hit
  PROVE  /\ tick' = tick /\ counter'[b] = Count(b)
         /\ Passes(b) =>
              /\ recent'[b] = [recent[b] EXCEPT ![0] = @ + 1]
              /\ told'[b] = 0 /\ refusedAt'[b] = refusedAt[b]
         /\ ~Passes(b) =>
              /\ recent'[b] = recent[b] /\ refusedAt'[b] = tick
              /\ told'[b] = IF told[b] = 0
                            THEN tick + RetryAfter(ResetAfter(b)) * Second
                            ELSE told[b]
BY DEF Hit

LEMMA WaitInit == LimiterInit => WaitInv
BY Positive DEF LimiterInit, WaitInv, Counts, Announced, RefusalsEnd

LEMMA KeptByHit ==
  ASSUME WaitInv, Hit
  PROVE  WaitInv'
<1> DEFINE Kept(b) ==
      /\ counter'[b] \in [count : Nat, since : Nat] /\ counter'[b].since <= tick
      /\ told'[b] \in Nat /\ refusedAt'[b] \in Nat
      /\ told'[b] # 0 => /\ counter'[b].count > Limit
                         /\ counter'[b].since + Window < told'[b] + Second
                         /\ refusedAt'[b] < told'[b] + Second
<1>1. ASSUME NEW b \in Backends
      PROVE  Kept(b)
  <2> DEFINE c == Count(b)
             reset == ResetAfter(b)
             wait == RetryAfter(reset) * Second
  <2>1. /\ tick \in Nat /\ counter[b] \in [count : Nat, since : Nat]
        /\ told[b] \in Nat /\ refusedAt[b] \in Nat
        /\ told[b] # 0 => /\ counter[b].count > Limit
                          /\ counter[b].since + Window < told[b] + Second
                          /\ refusedAt[b] < told[b] + Second
    BY DEF WaitInv, Counts, Announced, RefusalsEnd
  <2>2. /\ c \in [count : Nat, since : Nat] /\ c.since <= tick
        /\ c.count > 1 => c.since = counter[b].since
        /\ tick <= c.since + Window
        /\ reset \in Nat /\ c.since + Window <= tick + reset
    <3>1. IsOver(b) => c.count = 1
      BY HitCounts DEF WaitInv
    <3>2. ~IsOver(b) => c.since = counter[b].since
      BY HitCounts DEF WaitInv
    <3>3. reset \in 0 .. Window
      BY HitCounts DEF WaitInv
    <3>4. reset \in Nat
      BY <3>3, Positive
    <3> QED BY <3>1, <3>2, <3>4, HitCounts DEF WaitInv
  <2>3. wait \in Nat /\ wait > 0 /\ reset < wait + Second
    BY <2>2, RetryAfterIsClose
  <2>4. counter'[b] = c
    BY HitOf
  <2>5. CASE Passes(b)
    <3>1. told'[b] = 0 /\ refusedAt'[b] = refusedAt[b]
      BY <2>5, HitOf
    <3> HIDE DEF c
    <3> QED BY <2>1, <2>2, <2>4, <3>1
  <2>6. CASE ~Passes(b) /\ told[b] = 0
    <3>1. told'[b] = tick + wait /\ refusedAt'[b] = tick
      BY <2>6, HitOf
    <3>2. c.count > Limit
      BY <2>2, <2>6, Positive DEF Passes, MayPass
    <3> HIDE DEF c, wait, reset
    <3> QED BY <2>1, <2>2, <2>3, <2>4, <3>1, <3>2, Positive
  <2>7. CASE ~Passes(b) /\ told[b] # 0
    <3>1. told'[b] = told[b] /\ refusedAt'[b] = tick
      BY <2>7, HitOf
    <3>2. c.count > Limit
      BY <2>2, <2>7, Positive DEF Passes, MayPass
    <3> HIDE DEF c, wait, reset
    <3>3. c.since = counter[b].since
      BY <2>2, <3>2, Positive
    <3> QED BY <2>1, <2>2, <2>4, <2>7, <3>1, <3>2, <3>3, Positive
  <2> QED BY <2>5, <2>6, <2>7
<1>2. /\ tick' = tick /\ tick \in Nat
      /\ counter' = [b \in Backends |-> counter'[b]]
      /\ told' = [b \in Backends |-> told'[b]]
      /\ refusedAt' = [b \in Backends |-> refusedAt'[b]]
  BY DEF Hit, WaitInv, Counts
<1>3. /\ counter' \in [Backends -> [count : Nat, since : Nat]]
      /\ told' \in [Backends -> Nat] /\ refusedAt' \in [Backends -> Nat]
  BY <1>1, <1>2
<1> QED BY <1>1, <1>2, <1>3 DEF WaitInv, Counts, Announced, RefusalsEnd

LEMMA KeptByTick ==
  ASSUME WaitInv, LimiterTick
  PROVE  WaitInv'
<1>1. tick \in Nat /\ \A b \in Backends : counter[b].since \in Nat
  BY DEF WaitInv, Counts
<1> QED BY <1>1, Positive DEF LimiterTick, WaitInv, Counts, Announced, RefusalsEnd

LEMMA WaitNext == WaitInv /\ [LimiterNext]_limiterVars => WaitInv'
<1> SUFFICES ASSUME WaitInv, [LimiterNext]_limiterVars PROVE WaitInv'
  OBVIOUS
<1>1. CASE UNCHANGED limiterVars
  BY <1>1 DEF limiterVars, WaitInv, Counts, Announced, RefusalsEnd
<1> QED BY <1>1, KeptByHit, KeptByTick DEF LimiterNext

-----------------------------------------------------------------------------
(* The hits that are admitted. *)

Young(n) == {a \in Ages : a <= n}
Old(n) == {a \in Ages : a > n}

\* The window that is open has admitted no more than it has counted, nor than
\* the limit; its first hit is among them, and keeps one of the hits that were
\* admitted before it out of the last Window instants.  When its time is up, that
\* first hit is out of them itself.
AdmittedBy(b) ==
  /\ counter[b].count = 0 => \A a \in Ages : recent[b][a] = 0
  /\ counter[b].count # 0 /\ Age(b) < Window =>
       /\ Total(recent[b], Young(Age(b))) <= counter[b].count
       /\ Total(recent[b], Young(Age(b))) <= Limit
       /\ Total(recent[b], Old(Age(b))) <= Limit - 1
       /\ recent[b][Age(b)] > 0
  /\ counter[b].count # 0 /\ Age(b) >= Window =>
       /\ Total(recent[b], Ages) <= counter[b].count - 1
       /\ Total(recent[b], Ages) <= Limit - 1
       /\ IsOver(b) => recent[b][0] = 0

Admitted == \A b \in Backends : AdmittedBy(b)

LimiterInv == WaitInv /\ LimiterTypeOK /\ Admitted

LEMMA AgesAre ==
  /\ IsFiniteSet(Ages) /\ 0 \in Ages
  /\ \A a \in Ages : a \in Nat /\ a < Window
  /\ \A n \in Nat : n < Window => n \in Ages
  /\ \A T \in SUBSET Ages : IsFiniteSet(T)
<1>1. 0 \in Int /\ Window - 1 \in Int
  BY Positive
<1>2. IsFiniteSet(Ages)
  BY <1>1, FS_Interval DEF Ages
<1>3. \A T \in SUBSET Ages : IsFiniteSet(T)
  BY <1>2, FS_Subset
<1>4. /\ 0 \in Ages /\ \A a \in Ages : a \in Nat /\ a < Window
      /\ \A n \in Nat : n < Window => n \in Ages
  BY Positive DEF Ages
<1> QED BY <1>2, <1>3, <1>4

LEMMA LimiterTypesNext ==
  WaitInv /\ WaitInv' /\ LimiterTypeOK /\ [LimiterNext]_limiterVars => LimiterTypeOK'
<1> SUFFICES ASSUME WaitInv, WaitInv', LimiterTypeOK, [LimiterNext]_limiterVars
             PROVE  LimiterTypeOK'
  OBVIOUS
<1>1. CASE UNCHANGED limiterVars
  BY <1>1 DEF limiterVars, LimiterTypeOK
<1>2. CASE LimiterTick
  <2>1. ASSUME NEW b \in Backends
        PROVE  recent'[b] \in [Ages -> Nat]
    <3>1. \A a \in Ages : a # 0 => a - 1 \in Ages
      BY Positive DEF Ages
    <3> QED BY <1>2, <3>1 DEF LimiterTick, LimiterTypeOK
  <2>2. tick' \in Ticks
    BY <1>2, LimiterAssumption DEF LimiterTick, LimiterTypeOK, Ticks
  <2>3. recent' \in [Backends -> [Ages -> Nat]]
    BY <1>2, <2>1 DEF LimiterTick
  <2> QED BY <1>2, <2>2, <2>3 DEF LimiterTick, LimiterTypeOK
<1>3. CASE Hit
  <2>1. ASSUME NEW b \in Backends
        PROVE  /\ counter'[b] \in Counter /\ answer'[b] \in Answer
               /\ recent'[b] \in [Ages -> Nat] /\ refusedAt'[b] \in Ticks
    <3>1. /\ counter'[b] = Count(b) /\ Count(b).count <= MaxHits
          /\ answer'[b] = [allowed |-> Passes(b), reset |-> ResetAfter(b)]
      BY <1>3 DEF Hit
    <3>2. Count(b) \in [count : Nat, since : Nat]
      BY HitCounts DEF WaitInv
    <3>3. Count(b).since \in Ticks
      BY HitCounts DEF WaitInv, LimiterTypeOK, Counter
    <3>4. counter'[b] \in Counter
      <4> DEFINE c == Count(b)
      <4>1. /\ c \in [count : Nat, since : Nat] /\ c.since \in Ticks
            /\ c.count <= MaxHits /\ MaxHits \in Nat
        BY <3>1, <3>2, <3>3, LimiterAssumption
      <4> HIDE DEF c
      <4>2. c \in Counter
        BY <4>1 DEF Counter
      <4> QED BY <3>1, <4>2 DEF c
    <3>5. Passes(b) \in BOOLEAN /\ ResetAfter(b) \in 0 .. Window
      BY HitCounts DEF WaitInv, Passes, MayPass
    <3>6. answer'[b] \in Answer
      BY <3>1, <3>5 DEF Answer
    <3>7. recent'[b] \in [Ages -> Nat]
      <4>1. recent[b] \in [Ages -> Nat] /\ 0 \in Ages
        BY AgesAre DEF LimiterTypeOK
      <4>2. recent'[b] = recent[b] \/ recent'[b] = [recent[b] EXCEPT ![0] = @ + 1]
        BY <1>3, HitOf
      <4> QED BY <4>1, <4>2
    <3>8. refusedAt'[b] \in Ticks
      BY <1>3, HitOf DEF LimiterTypeOK
    <3> QED BY <3>4, <3>6, <3>7, <3>8
  <2>2. /\ counter' = [b \in Backends |-> counter'[b]]
        /\ answer' = [b \in Backends |-> answer'[b]]
        /\ recent' = [b \in Backends |-> recent'[b]]
        /\ refusedAt' = [b \in Backends |-> refusedAt'[b]]
        /\ tick' = tick
    BY <1>3 DEF Hit
  <2>3. told' \in [Backends -> Nat]
    BY DEF WaitInv, Counts
  <2>4. /\ counter' \in [Backends -> Counter] /\ answer' \in [Backends -> Answer]
        /\ recent' \in [Backends -> [Ages -> Nat]]
        /\ refusedAt' \in [Backends -> Ticks]
    BY <2>1, <2>2
  <2> QED BY <2>2, <2>3, <2>4 DEF LimiterTypeOK
<1> QED BY <1>1, <1>2, <1>3 DEF LimiterNext

LEMMA SumsOfAges ==
  ASSUME LimiterTypeOK, NEW b \in Backends, NEW T \in SUBSET Ages, NEW S \in SUBSET T
  PROVE  /\ Total(recent[b], T) \in Nat /\ Total(recent[b], S) \in Nat
         /\ Total(recent[b], T \ S) \in Nat
         /\ Total(recent[b], T) = Total(recent[b], S) + Total(recent[b], T \ S)
<1> DEFINE f == recent[b]
<1>1. IsFiniteSet(T) /\ \A a \in T : f[a] \in Nat
  BY AgesAre DEF LimiterTypeOK
<1> HIDE DEF f
<1>2. /\ Total(f, T) = Total(f, S) + Total(f, T \ S)
      /\ Total(f, T) \in Nat /\ Total(f, S) \in Nat /\ Total(f, T \ S) \in Nat
  BY <1>1, TotalSplit
<1> QED BY <1>2 DEF f

\* The ages in T, unless 0, are those in S a tick later.
OlderThan(T, S) == \A a \in T \ {0} : a - 1 \in S

\* A tick makes every hit one older, and drops the oldest.
LEMMA OneOlder ==
  ASSUME LimiterTypeOK, LimiterTick, NEW b \in Backends, NEW S \in SUBSET Ages, NEW T \in SUBSET Ages,
         OlderThan(T, S)
  PROVE  Total(recent'[b], T) <= Total(recent[b], S)
<1> DEFINE f == recent[b]
           g == recent'[b]
           Q == {a - 1 : a \in T \ {0}}
<1>1. /\ \A a \in Ages : f[a] \in Nat /\ g[a] \in Nat
      /\ g[0] = 0 /\ \A a \in Ages \ {0} : g[a] = f[a - 1]
  BY AgesAre, Positive DEF LimiterTick, LimiterTypeOK, Ages
<1>2. Q \in SUBSET S /\ IsFiniteSet(S) /\ IsFiniteSet(Q) /\ Q \in SUBSET Nat
      /\ IsFiniteSet(T) /\ IsFiniteSet(T \ {0})
  <2>1. Q \in SUBSET S
    BY DEF OlderThan
  <2> QED BY <2>1, AgesAre, FS_Subset
<1>3. T \ {0} = {a + 1 : a \in Q}
  <2>1. \A a \in T \ {0} : a \in Nat /\ (a - 1) + 1 = a
    BY AgesAre
  <2> QED BY <2>1
<1>4. \A a \in Q : f[a] \in Nat /\ g[a + 1] = f[a]
  <2> TAKE a \in Q
  <2>1. PICK c \in T \ {0} : a = c - 1
    OBVIOUS
  <2>2. c \in Ages /\ a \in Ages /\ a + 1 = c
    <3>1. a \in Ages /\ c \in Ages
      BY <1>2
    <3>2. c \in Nat
      BY <3>1, AgesAre
    <3> QED BY <2>1, <3>1, <3>2
  <2> QED BY <1>1, <2>1, <2>2
<1>5. \A a \in S : f[a] \in Nat
  BY <1>1
<1>6. \A a \in T : g[a] \in Nat
  BY <1>1
<1> HIDE DEF f, g, Q
<1>7. Total(g, T \ {0}) = Total(f, Q)
  BY <1>2, <1>3, <1>4, TotalShift
<1>8. /\ Total(f, S) = Total(f, Q) + Total(f, S \ Q)
      /\ Total(f, Q) \in Nat /\ Total(f, S \ Q) \in Nat
  <2>1. IsFiniteSet(S) /\ Q \in SUBSET S
    BY <1>2
  <2>2. \A X \in SUBSET S :
          /\ Total(f, S) = Total(f, X) + Total(f, S \ X)
          /\ Total(f, S) \in Nat /\ Total(f, X) \in Nat /\ Total(f, S \ X) \in Nat
    BY <1>5, <2>1, TotalSplit, Zenon
  <2> QED BY <2>1, <2>2
<1>9. Total(g, T) = Total(g, T \ {0})
  <2>1. CASE 0 \in T
    <3>1. Total(g, T) = g[0] + Total(g, T \ {0})
      <4>1. \A a \in T : Total(g, T) = g[a] + Total(g, T \ {a})
        BY <1>2, <1>6, TotalWithout
      <4> QED BY <2>1, <4>1
    <3>2. Total(g, T \ {0}) \in Nat
      BY <1>7, <1>8
    <3> QED BY <1>1, <3>1, <3>2
  <2>2. CASE 0 \notin T
    <3>1. T \ {0} = T
      BY <2>2
    <3> QED BY <3>1
  <2> QED BY <2>1, <2>2
<1> QED BY <1>7, <1>8, <1>9 DEF f, g

LEMMA AdmittedByTick ==
  ASSUME LimiterInv, LimiterTick, NEW b \in Backends
  PROVE  AdmittedBy(b)'
<1> DEFINE r == recent[b]
           s == recent'[b]
           n == counter[b].count
           age == Age(b)
<1>1. /\ LimiterTypeOK /\ AdmittedBy(b)
      /\ n \in Nat /\ counter[b].since \in Nat /\ tick \in Nat
      /\ counter[b].since <= tick /\ Limit \in Nat /\ Limit > 0
      /\ Window \in Nat /\ Window > 0
  BY Positive DEF LimiterInv, WaitInv, Counts, Admitted
<1>2. counter' = counter /\ tick' = tick + 1 /\ age \in Nat /\ age' = age + 1
  <2>1. counter' = counter /\ tick' = tick + 1
    BY DEF LimiterTick
  <2>2. age = tick - counter[b].since /\ age' = tick' - counter'[b].since
    BY DEF Age
  <2>3. counter'[b].since = counter[b].since
    BY <2>1
  <2> HIDE DEF age
  <2> QED BY <1>1, <2>1, <2>2, <2>3
<1>3. /\ s[0] = 0
      /\ \A a \in Ages \ {0} : a - 1 \in Ages /\ s[a] = r[a - 1]
  BY AgesAre, <1>1 DEF LimiterTick, Ages
<1>4. /\ \A a \in Ages : r[a] \in Nat /\ s[a] \in Nat
      /\ \A T \in SUBSET Ages : Total(r, T) \in Nat /\ Total(s, T) \in Nat
  <2>1. LimiterTypeOK'
    BY LimiterTypesNext, <1>1, WaitNext DEF LimiterNext, LimiterInv
  <2>2. \A a \in Ages : r[a] \in Nat /\ s[a] \in Nat
    BY <1>1, <2>1 DEF LimiterTypeOK
  <2> HIDE DEF r, s
  <2>3. ASSUME NEW T \in SUBSET Ages
        PROVE  Total(r, T) \in Nat /\ Total(s, T) \in Nat
    BY <2>2, AgesAre, TotalIsNat
  <2> QED BY <2>2, <2>3
<1>5. CASE n = 0
  BY <1>1, <1>2, <1>3, <1>5 DEF AdmittedBy
<1>6. CASE n # 0 /\ age + 1 < Window
  <2>1. /\ Total(r, Young(age)) <= n
        /\ Total(r, Young(age)) <= Limit
        /\ Total(r, Old(age)) <= Limit - 1
        /\ r[age] > 0
    BY <1>1, <1>2, <1>6 DEF AdmittedBy
  <2>2. /\ Young(age) \in SUBSET Ages /\ Young(age + 1) \in SUBSET Ages
        /\ Old(age) \in SUBSET Ages /\ Old(age + 1) \in SUBSET Ages
    BY DEF Young, Old
  <2>3. OlderThan(Young(age + 1), Young(age)) /\ OlderThan(Old(age + 1), Old(age))
    BY <1>2, <1>3, AgesAre DEF Young, Old, OlderThan
  <2>4. /\ Total(s, Young(age + 1)) <= Total(r, Young(age))
        /\ Total(s, Old(age + 1)) <= Total(r, Old(age))
    BY <1>1, <2>2, <2>3, OneOlder
  <2>5. age + 1 \in Ages \ {0} /\ (age + 1) - 1 = age
    BY <1>2, <1>6, AgesAre
  <2>6. s[age + 1] > 0
    BY <1>3, <2>1, <2>5
  <2> DEFINE y == Total(s, Young(age + 1))
             o == Total(s, Old(age + 1))
  <2>7. y <= n /\ y <= Limit /\ o <= Limit - 1
    <3> DEFINE z == Total(r, Young(age))
               q == Total(r, Old(age))
    <3>1. /\ y \in Nat /\ z \in Nat /\ o \in Nat /\ q \in Nat
          /\ y <= z /\ o <= q /\ z <= n /\ z <= Limit /\ q <= Limit - 1
      BY <1>4, <2>1, <2>2, <2>4
    <3> HIDE DEF y, o, z, q, r, s, n
    <3> QED BY <1>1, <3>1
  <2>8. Total(r, Young(age))' = y /\ Total(r, Old(age))' = o
    BY <1>2 DEF Young, Old
  <2> QED BY <1>1, <1>2, <1>6, <2>6, <2>7, <2>8 DEF AdmittedBy
<1>7. CASE n # 0 /\ age + 1 >= Window
  <2> DEFINE S == Ages \ {Window - 1}
  <2>1. OlderThan(Ages, S)
    BY <1>1, <1>3, AgesAre DEF OlderThan
  <2>2. Total(s, Ages) <= Total(r, S)
    BY <1>1, <2>1, OneOlder
  <2>3. /\ Total(r, Ages) = r[Window - 1] + Total(r, S)
        /\ Total(r, S) \in Nat /\ r[Window - 1] \in Nat
    <3>1. Window - 1 \in Ages /\ IsFiniteSet(Ages)
      BY <1>1, AgesAre DEF Ages
    <3> HIDE DEF r
    <3> QED BY <1>4, <3>1, TotalWithout, AgesAre
  <2>4. Total(r, S) <= Limit - 1 /\ Total(r, S) <= n - 1
    <3>1. CASE age >= Window
      <4>1. Total(r, Ages) <= Limit - 1 /\ Total(r, Ages) <= n - 1
        BY <1>1, <1>7, <3>1 DEF AdmittedBy
      <4> QED BY <1>1, <2>3, <4>1
    <3>2. CASE age < Window
      <4>1. age = Window - 1
        BY <1>1, <1>2, <1>7, <3>2
      <4>2. Young(age) = Ages
        BY <4>1, AgesAre, <1>1 DEF Young
      <4>3. Total(r, Ages) <= Limit /\ Total(r, Ages) <= n /\ r[Window - 1] > 0
        BY <1>1, <1>7, <3>2, <4>1, <4>2 DEF AdmittedBy
      <4> QED BY <1>1, <2>3, <4>3
    <3> QED BY <1>1, <1>2, <3>1, <3>2
  <2>5. Total(s, Ages) <= Limit - 1 /\ Total(s, Ages) <= n - 1
    <3>1. Total(s, Ages) \in Nat
      BY <1>4
    <3> QED BY <1>1, <2>2, <2>3, <2>4, <3>1
  <2>6. age' >= Window /\ n' = n /\ n # 0 /\ ~(age' < Window)
    BY <1>1, <1>2, <1>7
  <2> QED BY <1>3, <2>5, <2>6 DEF AdmittedBy
<1> QED BY <1>1, <1>2, <1>5, <1>6, <1>7

LEMMA AdmittedByHit ==
  ASSUME LimiterInv, Hit, NEW b \in Backends
  PROVE  AdmittedBy(b)'
<1> DEFINE r == recent[b]
           s == recent'[b]
           n == counter[b].count
           age == Age(b)
           pass == Passes(b)
<1>1. /\ LimiterTypeOK /\ AdmittedBy(b)
      /\ n \in Nat /\ counter[b].since \in Nat /\ tick \in Nat
      /\ counter[b].since <= tick /\ Limit \in Nat /\ Limit > 0
      /\ Window \in Nat /\ Window > 0
  BY Positive DEF LimiterInv, WaitInv, Counts, Admitted
<1>2. /\ tick' = tick /\ age \in Nat
      /\ IsOver(b) => n' = 1 /\ age' = 0 /\ pass
      /\ ~IsOver(b) => n' = n + 1 /\ age' = age /\ (pass <=> n + 1 <= Limit)
      /\ pass => s = [r EXCEPT ![0] = @ + 1]
      /\ ~pass => s = r
  <2>1. /\ tick' = tick /\ counter'[b] = Count(b)
        /\ pass => s = [r EXCEPT ![0] = @ + 1]
        /\ ~pass => s = r
    BY HitOf
  <2>2. /\ IsOver(b) => Count(b) = [count |-> 1, since |-> tick]
        /\ ~IsOver(b) => Count(b) = [count |-> counter[b].count + 1,
                                     since |-> counter[b].since]
    BY HitCounts DEF LimiterInv, WaitInv
  <2> HIDE DEF r, s
  <2> QED BY <1>1, <2>1, <2>2 DEF Age, Passes, MayPass
<1>3. /\ \A a \in Ages : r[a] \in Nat /\ s[a] \in Nat
      /\ \A a \in Ages \ {0} : s[a] = r[a]
      /\ pass => s[0] = r[0] + 1
      /\ ~pass => s[0] = r[0]
  <2>1. r \in [Ages -> Nat]
    BY <1>1 DEF LimiterTypeOK
  <2> HIDE DEF r, s, pass
  <2> QED BY <1>2, <2>1, AgesAre
<1>4. ASSUME NEW T \in SUBSET Ages
      PROVE  /\ Total(r, T) \in Nat /\ Total(s, T) \in Nat
             /\ pass /\ 0 \in T => Total(s, T) = Total(r, T) + 1
             /\ ~(pass /\ 0 \in T) => Total(s, T) = Total(r, T)
  <2>1. /\ IsFiniteSet(T) /\ \A a \in T : r[a] \in Nat /\ s[a] \in Nat
        /\ \A a \in T \ {0} : s[a] = r[a]
        /\ pass => s[0] = r[0] + 1
        /\ ~pass => s[0] = r[0]
        /\ r[0] \in Nat
    BY <1>3, AgesAre
  <2> HIDE DEF r, s, pass
  <2>2. Total(r, T) \in Nat /\ Total(s, T) \in Nat
    BY <2>1, TotalIsNat
  <2>3. 0 \in T => Total(s, T) + r[0] = Total(r, T) + s[0]
    BY <2>1, TotalChange
  <2>4. 0 \notin T => Total(s, T) = Total(r, T)
    <3>1. 0 \notin T => \A a \in T : r[a] \in Nat /\ s[a] = r[a]
      BY <2>1
    <3> QED BY <2>1, <3>1, TotalSame
  <2>5. 0 \in T /\ pass => Total(s, T) = Total(r, T) + 1
    BY <2>1, <2>2, <2>3
  <2>6. 0 \in T /\ ~pass => Total(s, T) = Total(r, T)
    BY <2>1, <2>2, <2>3
  <2> QED BY <2>2, <2>4, <2>5, <2>6
<1>5. CASE IsOver(b)
  <2>1. n' = 1 /\ age' = 0 /\ pass
    BY <1>2, <1>5
  <2>2. Young(0) = {0} /\ Old(0) = Ages \ {0}
    BY AgesAre DEF Young, Old
  <2>3. n = 0 \/ age >= Window
    BY <1>1, <1>2, <1>5 DEF IsOver
  <2>4. r[0] = 0
    BY <1>1, <1>5, <2>3, AgesAre DEF AdmittedBy
  <2>5. s[0] = 1
    BY <1>3, <2>1, <2>4
  <2>6. Total(s, {0}) = 1
    <3>1. IsFiniteSet({0}) /\ {0} \ {0} = {}
      BY FS_Singleton
    <3>2. \A a \in {0} : s[a] \in Nat
      BY <2>5
    <3> HIDE DEF s
    <3>3. Total(s, {0}) = s[0] + Total(s, {0} \ {0})
      BY <3>1, <3>2, TotalWithout
    <3> QED BY <2>5, <3>1, <3>3, TotalOfNothing
  <2>7. Total(s, Ages \ {0}) <= Limit - 1
    <3>1. Total(s, Ages \ {0}) = Total(r, Ages \ {0})
      BY <1>4
    <3>2. CASE n = 0
      <4>1. \A a \in Ages \ {0} : r[a] \in Nat /\ r[a] <= 0
        BY <1>1, <3>2 DEF AdmittedBy
      <4>2. IsFiniteSet(Ages \ {0}) /\ Cardinality(Ages \ {0}) \in Nat
        BY AgesAre, FS_CardinalityType
      <4>3. Total(r, Ages \ {0}) <= Cardinality(Ages \ {0}) * 0
        <5> HIDE DEF r
        <5> QED BY <4>1, <4>2, TotalBound
      <4>4. Total(r, Ages \ {0}) \in Nat
        BY <1>4
      <4> QED BY <1>1, <3>1, <4>2, <4>3, <4>4
    <3>3. CASE n # 0
      <4>1. Total(r, Ages) <= Limit - 1
        BY <1>1, <2>3, <3>3 DEF AdmittedBy
      <4>2. Total(r, Ages) = r[0] + Total(r, Ages \ {0})
        <5> HIDE DEF r
        <5> QED BY <1>3, AgesAre, TotalWithout
      <4>3. Total(r, Ages \ {0}) \in Nat
        BY <1>4
      <4> QED BY <1>1, <2>4, <3>1, <4>1, <4>2, <4>3
    <3> QED BY <3>2, <3>3
  <2>8. Total(r, Young(age))' = Total(s, {0})
        /\ Total(r, Old(age))' = Total(s, Ages \ {0})
    BY <2>1, <2>2
  <2> QED BY <1>1, <2>1, <2>5, <2>6, <2>7, <2>8 DEF AdmittedBy
<1>6. CASE ~IsOver(b) /\ age < Window
  <2>1. n # 0 /\ age \in Ages /\ n' = n + 1 /\ age' = age
    BY <1>2, <1>6, AgesAre DEF IsOver
  <2>2. /\ Total(r, Young(age)) <= n
        /\ Total(r, Young(age)) <= Limit
        /\ Total(r, Old(age)) <= Limit - 1
        /\ r[age] > 0
    BY <1>1, <1>6, <2>1 DEF AdmittedBy
  <2>3. /\ Young(age) \in SUBSET Ages /\ Old(age) \in SUBSET Ages
        /\ 0 \in Young(age) /\ 0 \notin Old(age)
    BY <1>2, AgesAre DEF Young, Old
  <2>4. /\ Total(s, Old(age)) = Total(r, Old(age))
        /\ Total(r, Young(age)) \in Nat
        /\ pass => Total(s, Young(age)) = Total(r, Young(age)) + 1
        /\ ~pass => Total(s, Young(age)) = Total(r, Young(age))
    BY <1>4, <2>3
  <2>5. s[age] > 0
    BY <1>3, <2>1, <2>2
  <2>6. Total(s, Young(age)) <= n' /\ Total(s, Young(age)) <= Limit
    <3>1. CASE pass
      <4>1. n + 1 <= Limit
        BY <1>2, <1>6, <3>1
      <4> QED BY <1>1, <2>1, <2>2, <2>4, <3>1, <4>1
    <3>2. CASE ~pass
      BY <1>1, <2>1, <2>2, <2>4, <3>2
    <3> QED BY <3>1, <3>2
  <2>7. Total(r, Young(age))' = Total(s, Young(age))
        /\ Total(r, Old(age))' = Total(s, Old(age))
    BY <2>1
  <2>8. Total(s, Old(age)) <= Limit - 1 /\ n' # 0 /\ ~(age' >= Window) /\ age' < Window
    BY <1>1, <1>2, <1>6, <2>1, <2>2, <2>4
  <2> QED BY <2>1, <2>5, <2>6, <2>7, <2>8 DEF AdmittedBy
<1>7. CASE ~IsOver(b) /\ ~(age < Window)
  <2>1. n # 0 /\ age >= Window /\ n' = n + 1 /\ age' = age
    BY <1>1, <1>2, <1>7 DEF IsOver
  <2>2. Total(r, Ages) <= n - 1 /\ Total(r, Ages) <= Limit - 1
    BY <1>1, <2>1 DEF AdmittedBy
  <2>3. /\ Total(r, Ages) \in Nat
        /\ pass => Total(s, Ages) = Total(r, Ages) + 1 /\ n + 1 <= Limit
        /\ ~pass => Total(s, Ages) = Total(r, Ages)
    <3>1. pass => n + 1 <= Limit
      BY <1>2, <1>7
    <3> QED BY <1>4, <3>1, AgesAre
  <2>4. Total(s, Ages) <= n' - 1 /\ Total(s, Ages) <= Limit - 1
    <3> DEFINE x == Total(r, Ages)
               y == Total(s, Ages)
    <3>1. /\ x \in Nat /\ x <= n - 1 /\ x <= Limit - 1 /\ n' = n + 1
          /\ pass => y = x + 1 /\ n + 1 <= Limit
          /\ ~pass => y = x
      BY <2>1, <2>2, <2>3
    <3> HIDE DEF x, y, r, s, pass, n
    <3>2. y <= n' - 1 /\ y <= Limit - 1
      BY <1>1, <3>1
    <3> QED BY <3>2 DEF y
  <2>5. n' # 0 /\ age' >= Window /\ ~(age' < Window)
    BY <1>1, <1>7, <2>1
  <2>6. ~IsOver(b)'
    BY <1>1, <1>7, <2>1, <2>5 DEF IsOver
  <2> QED BY <2>4, <2>5, <2>6 DEF AdmittedBy
<1> QED BY <1>5, <1>6, <1>7

LEMMA LimiterInvInit == LimiterInit => LimiterInv
<1> SUFFICES ASSUME LimiterInit
             PROVE  LimiterInv
  OBVIOUS
<1>1. LimiterTypeOK
  BY LimiterAssumption, Positive
     DEF LimiterInit, LimiterTypeOK, Counter, Answer, Ticks
<1>2. Admitted
  BY DEF LimiterInit, Admitted, AdmittedBy
<1> QED BY <1>1, <1>2, WaitInit DEF LimiterInv

LEMMA LimiterInvNext == LimiterInv /\ [LimiterNext]_limiterVars => LimiterInv'
<1> SUFFICES ASSUME LimiterInv, [LimiterNext]_limiterVars
             PROVE  LimiterInv'
  OBVIOUS
<1>1. WaitInv' /\ LimiterTypeOK'
  BY WaitNext, LimiterTypesNext DEF LimiterInv
<1>2. CASE UNCHANGED limiterVars
  <2>1. Admitted'
    BY <1>2 DEF limiterVars, LimiterInv, Admitted, AdmittedBy, Age, IsOver
  <2> QED BY <1>1, <2>1 DEF LimiterInv
<1>3. CASE Hit \/ LimiterTick
  <2>1. Admitted'
    BY <1>3, AdmittedByHit, AdmittedByTick DEF Admitted
  <2> QED BY <1>1, <2>1 DEF LimiterInv
<1> QED BY <1>2, <1>3 DEF LimiterNext

LEMMA LimiterInvariant == LimiterSpec => []LimiterInv
BY LimiterInvInit, LimiterInvNext, PTL DEF LimiterSpec

-----------------------------------------------------------------------------

\* Whoever is refused, by MemoryLimiter or by RedisLimiter, is not refused any
\* more a second after the Retry-After that was announced first, however often
\* they knock meanwhile.
THEOREM RefusalsAreOver == LimiterSpec => []RefusalsEnd
<1>1. WaitInv => RefusalsEnd
  BY DEF WaitInv
<1> QED BY <1>1, WaitInit, WaitNext, PTL DEF LimiterSpec

\* The counters and the times keep their types.
THEOREM LimiterTypes == LimiterSpec => []LimiterTypeOK
<1>1. LimiterInv => LimiterTypeOK
  BY DEF LimiterInv
<1> QED BY <1>1, LimiterInvariant, PTL

\* Whatever the limit and the window: in any period as long as a window, no more
\* hits are admitted than twice the limit, less one, by MemoryLimiter and by
\* RedisLimiter, whose windows last an instant longer.
THEOREM AdmissionsBounded == LimiterSpec => []AdmissionsAreBounded
<1>1. LimiterInv => AdmissionsAreBounded
  <2> SUFFICES ASSUME LimiterInv, NEW b \in Backends
               PROVE  Total(recent[b], Ages) <= 2 * Limit - 1
    BY DEF AdmissionsAreBounded
  <2> DEFINE r == recent[b]
             n == counter[b].count
             age == Age(b)
  <2>1. /\ LimiterTypeOK /\ AdmittedBy(b) /\ Limit \in Nat /\ Limit > 0
        /\ Window \in Nat /\ age \in Nat /\ n \in Nat
    BY Positive DEF LimiterInv, WaitInv, Counts, Age, Admitted
  <2>2. Total(r, Ages) \in Nat
    BY <2>1, SumsOfAges
  <2>3. CASE n = 0
    <3>1. \A a \in Ages : r[a] \in Nat /\ r[a] <= 0
      BY <2>1, <2>3 DEF AdmittedBy
    <3>2. IsFiniteSet(Ages) /\ Cardinality(Ages) \in Nat
      BY AgesAre, FS_CardinalityType
    <3>3. Total(r, Ages) <= Cardinality(Ages) * 0
      <4> HIDE DEF r
      <4> QED BY <3>1, <3>2, TotalBound
    <3> QED BY <2>1, <2>2, <3>2, <3>3
  <2>4. CASE n # 0 /\ age < Window
    <3>1. Total(r, Young(age)) <= Limit /\ Total(r, Old(age)) <= Limit - 1
      BY <2>1, <2>4 DEF AdmittedBy
    <3>2. Young(age) \in SUBSET Ages /\ Old(age) = Ages \ Young(age)
      BY <2>1, AgesAre DEF Young, Old
    <3>3. /\ Total(r, Ages) = Total(r, Young(age)) + Total(r, Old(age))
          /\ Total(r, Young(age)) \in Nat /\ Total(r, Old(age)) \in Nat
      <4>1. \A S \in SUBSET Ages :
              /\ Total(r, Ages) = Total(r, S) + Total(r, Ages \ S)
              /\ Total(r, S) \in Nat /\ Total(r, Ages \ S) \in Nat
        BY <2>1, SumsOfAges
      <4> HIDE DEF r, age
      <4> QED BY <3>2, <4>1
    <3> QED BY <2>1, <2>2, <3>1, <3>3
  <2>5. CASE n # 0 /\ age >= Window
    <3>1. Total(r, Ages) <= Limit - 1
      BY <2>1, <2>5 DEF AdmittedBy
    <3> QED BY <2>1, <2>2, <3>1
  <2> QED BY <2>1, <2>3, <2>4, <2>5
<1> QED BY <1>1, LimiterInvariant, PTL

-----------------------------------------------------------------------------
(* The daily limit. *)

\* What a poll has posted and not yet written to a row, and whether a job of it
\* has passed the check and is not done.
Owed(w) == IF poll[w].step \in {"posted", "counting"} THEN 1 ELSE 0
Taken(w) == IF poll[w].step = "ready" THEN 0 ELSE 1

\* A post that will be counted in a row of an hour that is before instant i.
Late(w, i) ==
  IF poll[w].step = "counting" /\ poll[w].hour < HourOf(i) THEN 1 ELSE 0

Since(i) == {h \in Hours : h >= HourOf(i)}
Before(i) == {h \in Hours : h < HourOf(i)}
Earlier(i) == {j \in Instants : j < i}

MadeBy == [w \in Pollers |-> poll[w].made]
AllMade == Total(MadeBy, Pollers)

\* A poll that has checked the limit has a job left.
HasRoom == \A w \in Pollers : poll[w].step = "checked" => poll[w].made < Batch

NoPostsAhead == \A i \in Instants : i > instant => posted[i] = 0

\* The worker whose commit overtakes the others is not overtaken itself.
SomeAreFresh == stale # Pollers

\* A poll that no commit has overtaken sees the committed rows and its own
\* posts, and is about to write a row that it has read as it is.
SeesItsPosts ==
  \A w \in Pollers \ stale :
    /\ Total(VisibleRows(w), Hours) + Owed(w) = Total(used, Hours) + poll[w].made
    /\ poll[w].step = "counting" => poll[w].read = Visible(w, poll[w].hour)

PostsAddUp == ~raced => AllPosts = Total(used, Hours) + AllMade + lost

\* The rows of the hours before an instant stand for posts before it.
RowsComeAfterPosts ==
  ~raced => \A i \in Instants :
    /\ Total(used, Before(i)) <= Total(posted, Earlier(i))
    /\ \A w \in Pollers \ stale :
         Total(VisibleRows(w), Before(i)) + Late(w, i) <= Total(posted, Earlier(i))

\* As long as the hours after instant i are all in the sum, they hold no more
\* than the guard, for every poll that no commit has overtaken.
RowsKeepTheGuard ==
  ~raced => \A i \in Instants : instant < i + (DayHours - 1) * Hour =>
    /\ Total(used, Since(i)) <= Guard
    /\ \A w \in Pollers \ stale :
         Total(VisibleRows(w), Since(i)) + Taken(w) <= Guard

QuotaInv ==
  /\ QuotaTypeOK /\ HasRoom /\ NoPostsAhead /\ SomeAreFresh
  /\ SeesItsPosts /\ PostsAddUp /\ RowsComeAfterPosts /\ RowsKeepTheGuard
  /\ QuotaOvershootIsBounded

-----------------------------------------------------------------------------

LEMMA QuotaConstants ==
  /\ Batch \in Nat /\ Batch > 0 /\ Guard \in Nat /\ Guard > 0
  /\ Hour \in Nat /\ Hour > 0 /\ DayHours \in Nat /\ DayHours > 0
  /\ LastInstant \in Nat
  /\ IsFiniteSet(Pollers) /\ Pollers # {}
BY QuotaAssumption

LEMMA HourBegins ==
  ASSUME NEW i \in Nat
  PROVE  /\ HourOf(i) \in Nat
         /\ HourOf(i) * Hour \in Nat
         /\ HourOf(i) * Hour <= i /\ i < HourOf(i) * Hour + Hour
<1> DEFINE q == i \div Hour
           m == i % Hour
<1>1. q \in Nat /\ m \in Nat /\ m < Hour /\ i = Hour * q + m
  BY QuotaConstants
<1> HIDE DEF q, m
<1>2. Hour * q = q * Hour /\ q * Hour \in Nat
  BY <1>1, QuotaConstants
<1> QED BY <1>1, <1>2, QuotaConstants DEF HourOf, q

LEMMA LaterHour ==
  ASSUME NEW i \in Nat, NEW j \in Nat, HourOf(i) < HourOf(j)
  PROVE  i < j
<1>1. /\ HourOf(i) \in Nat /\ HourOf(j) \in Nat
      /\ i < HourOf(i) * Hour + Hour /\ HourOf(i) * Hour \in Nat
      /\ HourOf(j) * Hour <= j /\ HourOf(j) * Hour \in Nat
  BY HourBegins
<1> DEFINE a == HourOf(i)
           b == HourOf(j)
<1>2. (a + 1) * Hour <= b * Hour
  BY <1>1, Product, QuotaConstants
<1>3. (a + 1) * Hour = a * Hour + Hour
  BY <1>1, QuotaConstants
<1> QED BY <1>1, <1>2, <1>3, QuotaConstants

LEMMA HoursOfInstants ==
  /\ \A i \in Instants : i \in Nat /\ HourOf(i) \in Hours
  /\ \A h \in Hours : h \in Nat
<1>1. LastInstant \in Nat /\ HourOf(LastInstant) \in Nat
  BY QuotaConstants, HourBegins
<1>2. ASSUME NEW i \in Instants
      PROVE  i \in Nat /\ HourOf(i) \in Hours
  <2>1. i \in Nat /\ i <= LastInstant
    BY <1>1 DEF Instants
  <2>2. HourOf(i) \in Nat /\ ~(HourOf(LastInstant) < HourOf(i))
    BY <1>1, <2>1, HourBegins, LaterHour
  <2> QED BY <1>1, <2>1, <2>2 DEF Hours
<1> QED BY <1>1, <1>2 DEF Hours

LEMMA QuotaSetsAreFinite ==
  /\ IsFiniteSet(Hours) /\ IsFiniteSet(Instants)
  /\ \A i : /\ IsFiniteSet(Since(i)) /\ IsFiniteSet(Before(i))
            /\ IsFiniteSet(Earlier(i))
            /\ Since(i) \in SUBSET Hours /\ Before(i) \in SUBSET Hours
            /\ Earlier(i) \in SUBSET Instants
<1>1. 0 \in Int /\ LastInstant \in Int /\ HourOf(LastInstant) \in Int
  BY QuotaConstants, HourBegins
<1>2. IsFiniteSet(Hours) /\ IsFiniteSet(Instants)
  BY <1>1, FS_Interval DEF Hours, Instants
<1>3. \A i : /\ Since(i) \in SUBSET Hours /\ Before(i) \in SUBSET Hours
             /\ Earlier(i) \in SUBSET Instants
  BY DEF Since, Before, Earlier
<1> QED BY <1>2, <1>3, FS_Subset

LEMMA HoursSplit ==
  ASSUME NEW f, \A h \in Hours : f[h] \in Nat, NEW i \in Instants
  PROVE  /\ Total(f, Hours) = Total(f, Before(i)) + Total(f, Since(i))
         /\ Total(f, Hours) \in Nat /\ Total(f, Before(i)) \in Nat
         /\ Total(f, Since(i)) \in Nat
<1>1. Since(i) = Hours \ Before(i)
  BY HoursOfInstants DEF Since, Before
<1>2. IsFiniteSet(Hours) /\ Before(i) \in SUBSET Hours
  BY QuotaSetsAreFinite
<1>3. /\ Total(f, Hours) = Total(f, Before(i)) + Total(f, Hours \ Before(i))
      /\ Total(f, Hours) \in Nat /\ Total(f, Before(i)) \in Nat
      /\ Total(f, Hours \ Before(i)) \in Nat
  BY <1>2, TotalSplit
<1> QED BY <1>1, <1>3

\* The sums that the invariant speaks about are numbers.
LEMMA QuotaSums ==
  ASSUME QuotaTypeOK
  PROVE  /\ \A h \in Hours : used[h] \in Nat
         /\ \A w \in Pollers : \A h \in Hours : VisibleRows(w)[h] \in Nat
         /\ \A w \in Pollers : VisibleRows(w) \in [Hours -> Nat]
         /\ AllPosts \in Nat /\ AllMade \in Nat
         /\ Total(used, Hours) \in Nat
         /\ \A w \in Pollers : Total(VisibleRows(w), Hours) \in Nat
         /\ \A i \in Instants : Total(posted, Earlier(i)) \in Nat
<1>1. \A w \in Pollers : VisibleRows(w) \in [Hours -> Nat]
  BY DEF QuotaTypeOK, PollState, VisibleRows, Visible
<1>2. \A i \in Instants : posted[i] \in Nat
  BY DEF QuotaTypeOK
<1>3. \A w \in Pollers : MadeBy[w] \in Nat
  BY QuotaConstants DEF QuotaTypeOK, PollState, MadeBy
<1>4. \A h \in Hours : used[h] \in Nat
  BY DEF QuotaTypeOK
<1>5. AllPosts \in Nat
  BY <1>2, TotalIsNat, QuotaSetsAreFinite DEF AllPosts
<1>6. AllMade \in Nat
  BY <1>3, TotalIsNat, QuotaConstants DEF AllMade
<1>7. Total(used, Hours) \in Nat
  BY <1>4, TotalIsNat, QuotaSetsAreFinite
<1>8. \A w \in Pollers : Total(VisibleRows(w), Hours) \in Nat
  BY <1>1, TotalIsNat, QuotaSetsAreFinite
<1>9. \A i \in Instants : Total(posted, Earlier(i)) \in Nat
  <2> TAKE i \in Instants
  <2>1. \A j \in Earlier(i) : posted[j] \in Nat
    BY <1>2 DEF Earlier
  <2> QED BY <2>1, TotalIsNat, QuotaSetsAreFinite
<1> QED BY <1>1, <1>4, <1>5, <1>6, <1>7, <1>8, <1>9

LEMMA HourZero == 0 \in Hours /\ 0 \in Instants
BY QuotaConstants, HourBegins DEF Hours, Instants

LEMMA PollTypes ==
  ASSUME QuotaTypeOK, NEW w \in Pollers
  PROVE  /\ poll[w] \in PollState
         /\ poll[w].step \in {"ready", "checked", "posted", "counting"}
         /\ poll[w].made \in Nat /\ poll[w].made <= Batch
         /\ poll[w].own \in [Hours -> Nat]
         /\ poll[w].hour \in Hours /\ poll[w].read \in Nat
         /\ NoPoll \in PollState
<1>1. poll[w] \in PollState
  BY DEF QuotaTypeOK
<1>2. poll[w].made \in Nat /\ poll[w].made <= Batch
  BY <1>1, QuotaConstants DEF PollState
<1>3. NoPoll \in PollState
  BY HourZero, QuotaConstants DEF NoPoll, PollState
<1> QED BY <1>1, <1>2, <1>3 DEF PollState

LEMMA QuotaTypesInit ==
  QuotaInit => QuotaTypeOK
<1> SUFFICES ASSUME QuotaInit
             PROVE  QuotaTypeOK
  OBVIOUS
<1>1. NoPoll \in PollState
  BY HourZero, QuotaConstants DEF NoPoll, PollState
<1> QED BY <1>1, HourZero DEF QuotaInit, QuotaTypeOK

\* What a worker's poll may become.
LEMMA PollTypesNext ==
  ASSUME QuotaTypeOK, NEW w \in Pollers, NEW p \in PollState,
         poll' = [poll EXCEPT ![w] = p]
  PROVE  /\ poll' \in [Pollers -> PollState]
         /\ poll'[w] = p
         /\ \A v \in Pollers \ {w} : poll'[v] = poll[v]
BY DEF QuotaTypeOK

LEMMA QuotaTypesNext ==
  QuotaTypeOK /\ HasRoom /\ [QuotaNext]_quotaVars => QuotaTypeOK'
<1> SUFFICES ASSUME QuotaTypeOK, HasRoom, [QuotaNext]_quotaVars
             PROVE  QuotaTypeOK'
  OBVIOUS
<1>1. CASE UNCHANGED quotaVars
  BY <1>1 DEF quotaVars, QuotaTypeOK
<1>2. CASE QuotaTick
  BY <1>2, QuotaConstants DEF QuotaTick, QuotaTypeOK, Instants
<1>3. ASSUME NEW w \in Pollers
      PROVE  /\ CheckQuota(w) \/ PostRefused(w) => QuotaTypeOK'
             /\ PostOnce(w) \/ PostUnreported(w) => QuotaTypeOK'
             /\ ReadRow(w) \/ WriteRow(w) => QuotaTypeOK'
             /\ RowInsertedMeanwhile(w) \/ LosePoll(w) => QuotaTypeOK'
             /\ CommitPoll(w) => QuotaTypeOK'
  <2> DEFINE p == poll[w]
  <2>0. /\ p \in PollState /\ p.hour \in Hours /\ p.read \in Nat
        /\ p.own \in [Hours -> Nat] /\ p.made \in Nat /\ p.made <= Batch
        /\ NoPoll \in PollState
    BY PollTypes
  <2>1. CASE CheckQuota(w) \/ PostRefused(w)
    <3>1. PICK s \in {"ready", "checked"} : poll' = [poll EXCEPT ![w].step = s]
      BY <2>1 DEF CheckQuota, PostRefused
    <3>2. [p EXCEPT !.step = s] \in PollState
      BY <2>0 DEF PollState
    <3>3. poll' = [poll EXCEPT ![w] = [p EXCEPT !.step = s]]
      BY <3>1
    <3>4. poll' \in [Pollers -> PollState]
      BY <3>2, <3>3, PollTypesNext
    <3> QED BY <2>1, <3>4 DEF CheckQuota, PostRefused, QuotaTypeOK
  <2>2. CASE PostOnce(w) \/ PostUnreported(w)
    <3>1. p.made \in 0 .. Batch /\ p.made + 1 \in 0 .. Batch
      BY <2>0, <2>2, QuotaConstants DEF PostOnce, PostUnreported, HasRoom
    <3>2. /\ [p EXCEPT !.step = "posted", !.made = p.made + 1] \in PollState
          /\ [p EXCEPT !.step = "ready"] \in PollState
      BY <2>0, <3>1 DEF PollState
    <3>3. poll' \in [Pollers -> PollState]
      <4>1. \/ poll' = [poll EXCEPT ![w] = [p EXCEPT !.step = "posted", !.made = p.made + 1]]
            \/ poll' = [poll EXCEPT ![w] = [p EXCEPT !.step = "ready"]]
        BY <2>2 DEF PostOnce, PostUnreported
      <4> QED BY <3>2, <4>1, PollTypesNext
    <3>4. posted' \in [Instants -> Nat] /\ lost' \in Nat
      BY <2>2 DEF PostOnce, PostUnreported, QuotaTypeOK
    <3> QED BY <2>2, <3>3, <3>4 DEF PostOnce, PostUnreported, QuotaTypeOK
  <2>3. CASE ReadRow(w) \/ WriteRow(w)
    <3>1. HourOf(instant) \in Hours /\ Visible(w, HourOf(instant)) \in Nat
      BY <2>0, HoursOfInstants DEF QuotaTypeOK, Visible
    <3>2. CASE ReadRow(w)
      <4>1. [p EXCEPT !.step = "counting", !.hour = HourOf(instant),
                      !.read = Visible(w, HourOf(instant))] \in PollState
        BY <2>0, <3>1 DEF PollState
      <4>2. poll' \in [Pollers -> PollState]
        <5>1. PICK q \in PollState : poll' = [poll EXCEPT ![w] = q]
          BY <3>2, <4>1 DEF ReadRow
        <5> QED BY <5>1, PollTypesNext
      <4> QED BY <3>2, <4>2 DEF ReadRow, QuotaTypeOK
    <3>3. CASE WriteRow(w)
      <4>1. [p.own EXCEPT ![p.hour] = p.read + 1] \in [Hours -> Nat]
        BY <2>0
      <4>2. [p EXCEPT !.step = "ready", !.own = [p.own EXCEPT ![p.hour] = p.read + 1],
                      !.hour = 0, !.read = 0] \in PollState
        BY <2>0, <4>1, HourZero DEF PollState
      <4>3. poll' \in [Pollers -> PollState]
        <5> DEFINE q == [p EXCEPT !.step = "ready",
                                  !.own = [p.own EXCEPT ![p.hour] = p.read + 1],
                                  !.hour = 0, !.read = 0]
        <5>1. poll' = [poll EXCEPT ![w] = q]
          BY <3>3 DEF WriteRow
        <5> QED BY <4>2, <5>1, PollTypesNext
      <4> QED BY <3>3, <4>3 DEF WriteRow, QuotaTypeOK
    <3> QED BY <2>3, <3>2, <3>3
  <2>4. CASE RowInsertedMeanwhile(w) \/ LosePoll(w)
    <3>1. poll' \in [Pollers -> PollState] /\ lost' \in Nat
      BY <2>0, <2>4, PollTypesNext DEF RowInsertedMeanwhile, LosePoll, QuotaTypeOK
    <3> QED BY <2>4, <3>1 DEF RowInsertedMeanwhile, LosePoll, QuotaTypeOK
  <2>5. CASE CommitPoll(w)
    <3>1. VisibleRows(w) \in [Hours -> Nat]
      BY QuotaSums
    <3>2. poll' \in [Pollers -> PollState]
      BY <2>0, <2>5, PollTypesNext DEF CommitPoll
    <3>3. stale' \in SUBSET Pollers /\ raced' \in BOOLEAN
      BY <2>5 DEF CommitPoll, Polling, QuotaTypeOK
    <3> QED BY <2>5, <3>1, <3>2, <3>3 DEF CommitPoll, QuotaTypeOK
  <2> QED BY <2>1, <2>2, <2>3, <2>4, <2>5
<1> QED BY <1>1, <1>2, <1>3 DEF QuotaNext

-----------------------------------------------------------------------------

\* A step of worker w changes only its own poll.
OwnStep(w) == \A v \in Pollers \ {w} : poll'[v] = poll[v]

\* The steps before a row is written leave the rows alone.
Quiet(w) ==
  \/ CheckQuota(w) \/ PostOnce(w) \/ PostUnreported(w) \/ PostRefused(w)
  \/ ReadRow(w)

\* The steps that give the poll up.
Drop(w) == RowInsertedMeanwhile(w) \/ LosePoll(w)

LEMMA QuietEffect ==
  ASSUME QuotaTypeOK, NEW w \in Pollers, Quiet(w)
  PROVE  /\ OwnStep(w)
         /\ UNCHANGED <<instant, used, stale, raced>>
         /\ poll'[w].own = poll[w].own
         /\ CheckQuota(w) =>
              /\ poll[w].step = "ready" /\ poll'[w].step = "checked"
              /\ poll'[w].made = poll[w].made /\ UNCHANGED <<posted, lost>>
         /\ PostOnce(w) =>
              /\ poll[w].step = "checked" /\ poll'[w].step = "posted"
              /\ poll'[w].made = poll[w].made + 1 /\ lost' = lost
         /\ PostUnreported(w) =>
              /\ poll[w].step = "checked" /\ poll'[w].step = "ready"
              /\ poll'[w].made = poll[w].made /\ lost' = lost + 1
         /\ PostRefused(w) =>
              /\ poll[w].step = "checked" /\ poll'[w].step = "ready"
              /\ poll'[w].made = poll[w].made /\ UNCHANGED <<posted, lost>>
         /\ ReadRow(w) =>
              /\ poll[w].step = "posted" /\ poll'[w].step = "counting"
              /\ poll'[w].hour = HourOf(instant)
              /\ poll'[w].read = Visible(w, HourOf(instant))
              /\ poll'[w].made = poll[w].made /\ UNCHANGED <<posted, lost>>
<1>1. poll \in [Pollers -> PollState] /\ poll[w] \in PollState
  BY DEF QuotaTypeOK
<1>2. CASE CheckQuota(w)
  BY <1>1, <1>2 DEF CheckQuota, PostOnce, PostUnreported, PostRefused, ReadRow,
                    OwnStep, PollState
<1>3. CASE PostOnce(w)
  BY <1>1, <1>3 DEF CheckQuota, PostOnce, PostUnreported, PostRefused, ReadRow,
                    OwnStep, PollState
<1>4. CASE PostUnreported(w)
  BY <1>1, <1>4 DEF CheckQuota, PostOnce, PostUnreported, PostRefused, ReadRow,
                    OwnStep, PollState
<1>5. CASE PostRefused(w)
  BY <1>1, <1>5 DEF CheckQuota, PostOnce, PostUnreported, PostRefused, ReadRow,
                    OwnStep, PollState
<1>6. CASE ReadRow(w)
  BY <1>1, <1>6 DEF CheckQuota, PostOnce, PostUnreported, PostRefused, ReadRow,
                    OwnStep, PollState
<1> QED BY <1>2, <1>3, <1>4, <1>5, <1>6 DEF Quiet

LEMMA WriteEffect ==
  ASSUME QuotaTypeOK, NEW w \in Pollers, WriteRow(w)
  PROVE  /\ OwnStep(w)
         /\ UNCHANGED <<instant, posted, used, stale, raced, lost>>
         /\ poll[w].step = "counting" /\ poll'[w].step = "ready"
         /\ poll'[w].made = poll[w].made
         /\ poll'[w].own = [poll[w].own EXCEPT ![poll[w].hour] = poll[w].read + 1]
<1>1. poll \in [Pollers -> PollState] /\ poll[w] \in PollState
  BY DEF QuotaTypeOK
<1> QED BY <1>1 DEF WriteRow, OwnStep, PollState

LEMMA DropEffect ==
  ASSUME QuotaTypeOK, NEW w \in Pollers, Drop(w)
  PROVE  /\ OwnStep(w)
         /\ UNCHANGED <<instant, posted, used, raced>>
         /\ poll'[w] = NoPoll
         /\ stale' = stale \ {w} /\ lost' = lost + poll[w].made
BY DEF Drop, RowInsertedMeanwhile, LosePoll, OwnStep, QuotaTypeOK

LEMMA CommitEffect ==
  ASSUME QuotaTypeOK, NEW w \in Pollers, CommitPoll(w)
  PROVE  /\ OwnStep(w)
         /\ UNCHANGED <<instant, posted, lost>>
         /\ poll[w].step = "ready" /\ used' = VisibleRows(w)
         /\ poll'[w] = NoPoll
         /\ \A v \in Pollers \ stale' : poll'[v] = NoPoll
         /\ w \notin stale'
         /\ ~raced' => ~raced /\ w \notin stale
BY DEF CommitPoll, OwnStep, QuotaTypeOK, Polling

\* Every step is one of these.
LEMMA QuotaSteps ==
  ASSUME [QuotaNext]_quotaVars
  PROVE  \/ UNCHANGED quotaVars
         \/ QuotaTick
         \/ \E w \in Pollers : Quiet(w) \/ WriteRow(w) \/ Drop(w) \/ CommitPoll(w)
BY DEF QuotaNext, Quiet, Drop

\* What a worker sees changes with its own rows and the committed ones.
LEMMA SameRows ==
  ASSUME NEW v, poll'[v].own = poll[v].own, used' = used
  PROVE  /\ VisibleRows(v)' = VisibleRows(v)
         /\ \A h : Visible(v, h)' = Visible(v, h)
BY DEF VisibleRows, Visible

LEMMA NoPollRows ==
  ASSUME QuotaTypeOK', NEW v, poll'[v] = NoPoll
  PROVE  VisibleRows(v)' = used'
<1>1. \A h \in Hours : poll'[v].own[h] = 0
  BY DEF NoPoll
<1>2. used' \in [Hours -> Nat]
  BY DEF QuotaTypeOK
<1> QED BY <1>1, <1>2 DEF VisibleRows, Visible

\* A poll that was not overtaken adds one to the row as it sees it.
LEMMA RowWritten ==
  ASSUME QuotaTypeOK, QuotaTypeOK', SeesItsPosts, NEW w \in Pollers, w \notin stale,
         WriteRow(w), NEW T \in SUBSET Hours
  PROVE  /\ poll[w].hour \in T =>
              Total(VisibleRows(w)', T) = Total(VisibleRows(w), T) + 1
         /\ poll[w].hour \notin T => Total(VisibleRows(w)', T) = Total(VisibleRows(w), T)
<1> DEFINE h == poll[w].hour
           f == VisibleRows(w)
           g == VisibleRows(w)'
<1>1. /\ h \in Hours /\ poll[w].own \in [Hours -> Nat] /\ poll[w].read \in Nat
      /\ poll[w].read = Visible(w, h)
  BY PollTypes, WriteEffect DEF SeesItsPosts
<1>2. \A k \in Hours : f[k] \in Nat /\ g[k] \in Nat
  <2>1. VisibleRows(w) \in [Hours -> Nat]
    BY QuotaSums
  <2>2. VisibleRows(w)' \in [Hours -> Nat]
    BY DEF QuotaTypeOK, PollState, VisibleRows, Visible
  <2> QED BY <2>1, <2>2
<1>3. used' = used
      /\ poll'[w].own = [poll[w].own EXCEPT ![h] = poll[w].read + 1]
  BY WriteEffect
<1>4. g[h] = f[h] + 1
  BY <1>1, <1>3 DEF VisibleRows, Visible
<1>5. \A k \in Hours \ {h} : g[k] = f[k]
  BY <1>1, <1>3 DEF VisibleRows, Visible
<1>6. IsFiniteSet(T)
  BY QuotaSetsAreFinite, FS_Subset
<1> HIDE DEF f, g
<1>7. CASE h \in T
  <2>1. /\ Total(g, T) + f[h] = Total(f, T) + g[h]
        /\ Total(f, T) \in Nat /\ Total(g, T) \in Nat
    BY <1>2, <1>5, <1>6, <1>7, TotalChange
  <2>2. Total(g, T) = Total(f, T) + 1
    BY <1>1, <1>2, <1>4, <2>1
  <2> QED BY <1>7, <2>2 DEF f, g
<1>8. CASE h \notin T
  <2>1. Total(g, T) = Total(f, T)
    <3>1. \A k \in T : f[k] \in Nat /\ g[k] = f[k]
      BY <1>2, <1>5, <1>8
    <3> QED BY <1>6, <3>1, TotalSame
  <2> QED BY <1>8, <2>1 DEF f, g
<1> QED BY <1>7, <1>8

LEMMA MadeChanges ==
  ASSUME QuotaTypeOK, QuotaTypeOK', NEW w \in Pollers, OwnStep(w)
  PROVE  /\ AllMade' + poll[w].made = AllMade + poll'[w].made
         /\ AllMade \in Nat /\ AllMade' \in Nat
<1> DEFINE f == MadeBy
           g == MadeBy'
<1>1. \A v \in Pollers : f[v] \in Nat /\ g[v] \in Nat
  BY QuotaConstants DEF QuotaTypeOK, PollState, MadeBy
<1>2. \A v \in Pollers \ {w} : g[v] = f[v]
  BY DEF OwnStep, MadeBy
<1>3. f[w] = poll[w].made /\ g[w] = poll'[w].made
  BY DEF MadeBy
<1>4. AllMade = Total(f, Pollers) /\ AllMade' = Total(g, Pollers)
  BY DEF AllMade
<1>5. IsFiniteSet(Pollers)
  BY QuotaConstants
<1> HIDE DEF f, g
<1>6. /\ Total(g, Pollers) + f[w] = Total(f, Pollers) + g[w]
      /\ Total(f, Pollers) \in Nat /\ Total(g, Pollers) \in Nat
  BY <1>1, <1>2, <1>5, TotalChange
<1> QED BY <1>3, <1>4, <1>6

\* A post is one more in every set of instants with the present one.
LEMMA PostCounts ==
  ASSUME QuotaTypeOK, QuotaTypeOK', posted' = [posted EXCEPT ![instant] = @ + 1],
         NEW T \in SUBSET Instants
  PROVE  /\ Total(posted, T) \in Nat /\ Total(posted', T) \in Nat
         /\ instant \in T => Total(posted', T) = Total(posted, T) + 1
         /\ instant \notin T => Total(posted', T) = Total(posted, T)
<1>1. /\ \A i \in Instants : posted[i] \in Nat /\ posted'[i] \in Nat
      /\ instant \in Instants /\ IsFiniteSet(T)
      /\ posted'[instant] = posted[instant] + 1
      /\ \A i \in Instants \ {instant} : posted'[i] = posted[i]
  BY QuotaSetsAreFinite, FS_Subset DEF QuotaTypeOK
<1> DEFINE f == posted
           g == posted'
<1>2. Total(posted, T) \in Nat /\ Total(posted', T) \in Nat
  BY <1>1, TotalIsNat
<1>3. CASE instant \in T
  <2>1. /\ \A i \in T : f[i] \in Nat /\ g[i] \in Nat
        /\ \A i \in T \ {instant} : g[i] = f[i]
    BY <1>1
  <2>2. IsFiniteSet(T)
    BY <1>1
  <2> HIDE DEF f, g
  <2>3. Total(g, T) + f[instant] = Total(f, T) + g[instant]
    BY <1>3, <2>1, <2>2, TotalChange
  <2> QED BY <1>1, <1>2, <1>3, <2>3 DEF f, g
<1>4. CASE instant \notin T
  <2>1. \A i \in T : posted[i] \in Nat /\ posted'[i] = posted[i]
    BY <1>1, <1>4
  <2> QED BY <1>1, <1>2, <1>4, <2>1, TotalSame
<1> QED BY <1>3, <1>4, <1>2

-----------------------------------------------------------------------------
(* The parts of the invariant, each from the step. *)

LEMMA HasRoomNext ==
  ASSUME QuotaTypeOK, HasRoom, [QuotaNext]_quotaVars
  PROVE  HasRoom'
<1>1. CASE UNCHANGED quotaVars \/ QuotaTick
  BY <1>1 DEF quotaVars, QuotaTick, HasRoom
<1>2. ASSUME NEW w \in Pollers, Quiet(w) \/ WriteRow(w) \/ Drop(w) \/ CommitPoll(w)
      PROVE  HasRoom'
  <2>1. OwnStep(w) /\ (poll'[w].step = "checked" => poll'[w].made < Batch)
    <3>1. CASE CheckQuota(w)
      BY <3>1, QuietEffect DEF CheckQuota, Quiet
    <3>2. CASE Quiet(w) /\ ~CheckQuota(w)
      BY <3>2, QuietEffect DEF Quiet
    <3>3. CASE WriteRow(w)
      BY <3>3, WriteEffect
    <3>4. CASE Drop(w) \/ CommitPoll(w)
      BY <3>4, DropEffect, CommitEffect DEF NoPoll
    <3> QED BY <1>2, <3>1, <3>2, <3>3, <3>4
  <2> QED BY <2>1 DEF HasRoom, OwnStep
<1> QED BY <1>1, <1>2, QuotaSteps

LEMMA NoPostsAheadNext ==
  ASSUME QuotaTypeOK, NoPostsAhead, [QuotaNext]_quotaVars
  PROVE  NoPostsAhead'
<1>1. CASE UNCHANGED quotaVars
  BY <1>1 DEF quotaVars, NoPostsAhead
<1>2. CASE QuotaTick
  BY <1>2, HoursOfInstants DEF QuotaTick, NoPostsAhead, QuotaTypeOK
<1>3. ASSUME NEW w \in Pollers, Quiet(w) \/ WriteRow(w) \/ Drop(w) \/ CommitPoll(w)
      PROVE  NoPostsAhead'
  <2>1. instant' = instant
    BY <1>3, QuietEffect, WriteEffect, DropEffect, CommitEffect
  <2>2. \A i \in Instants \ {instant} : posted'[i] = posted[i]
    <3>1. CASE PostOnce(w) \/ PostUnreported(w)
      BY <3>1 DEF PostOnce, PostUnreported, QuotaTypeOK
    <3>2. CASE Quiet(w) /\ ~(PostOnce(w) \/ PostUnreported(w))
      BY <3>2, QuietEffect DEF Quiet
    <3> QED BY <1>3, <3>1, <3>2, WriteEffect, DropEffect, CommitEffect
  <2> QED BY <2>1, <2>2, HoursOfInstants DEF NoPostsAhead, QuotaTypeOK
<1> QED BY <1>1, <1>2, <1>3, QuotaSteps

LEMMA SomeAreFreshNext ==
  ASSUME QuotaTypeOK, SomeAreFresh, [QuotaNext]_quotaVars
  PROVE  SomeAreFresh'
<1>1. CASE UNCHANGED quotaVars \/ QuotaTick
  BY <1>1 DEF quotaVars, QuotaTick, SomeAreFresh
<1>2. ASSUME NEW w \in Pollers, Quiet(w) \/ WriteRow(w) \/ Drop(w) \/ CommitPoll(w)
      PROVE  SomeAreFresh'
  <2>1. CASE Quiet(w) \/ WriteRow(w)
    BY <2>1, QuietEffect, WriteEffect DEF SomeAreFresh
  <2>2. CASE Drop(w) \/ CommitPoll(w)
    BY <2>2, DropEffect, CommitEffect DEF SomeAreFresh
  <2> QED BY <1>2, <2>1, <2>2
<1> QED BY <1>1, <1>2, QuotaSteps

\* The step of another worker that commits nothing leaves v's view as it is.
LEMMA OthersSee ==
  ASSUME NEW w, NEW v \in Pollers \ {w}, OwnStep(w), used' = used
  PROVE  /\ poll'[v] = poll[v] /\ VisibleRows(v)' = VisibleRows(v)
         /\ Visible(v, poll[v].hour)' = Visible(v, poll[v].hour)
<1>1. poll'[v] = poll[v]
  BY DEF OwnStep
<1> QED BY <1>1 DEF VisibleRows, Visible

LEMMA SeesItsPostsNext ==
  ASSUME QuotaTypeOK, QuotaTypeOK', SeesItsPosts, [QuotaNext]_quotaVars
  PROVE  SeesItsPosts'
<1>1. CASE UNCHANGED quotaVars \/ QuotaTick
  BY <1>1 DEF quotaVars, QuotaTick, SeesItsPosts, VisibleRows, Visible, Owed
<1>2. ASSUME NEW w \in Pollers, Quiet(w) \/ WriteRow(w) \/ Drop(w) \/ CommitPoll(w)
      PROVE  SeesItsPosts'
  <2> SUFFICES ASSUME NEW v \in Pollers, v \notin stale'
               PROVE  /\ Total(VisibleRows(v)', Hours) + Owed(v)'
                            = Total(used', Hours) + poll'[v].made
                      /\ poll'[v].step = "counting" =>
                            poll'[v].read = Visible(v, poll[v].hour)'
    BY DEF SeesItsPosts
  <2>0. /\ Total(VisibleRows(v), Hours) \in Nat /\ Total(used, Hours) \in Nat
        /\ poll[v].made \in Nat /\ Total(used', Hours) \in Nat
    <3>1. \A h \in Hours : used'[h] \in Nat
      BY DEF QuotaTypeOK
    <3> QED BY <3>1, QuotaSums, PollTypes, QuotaSetsAreFinite, TotalIsNat
  <2>1. CASE v # w /\ ~CommitPoll(w)
    <3>1. OwnStep(w) /\ used' = used /\ v \notin stale
      BY <1>2, <2>1, QuietEffect, WriteEffect, DropEffect
    <3>2. /\ poll'[v] = poll[v] /\ VisibleRows(v)' = VisibleRows(v)
          /\ Visible(v, poll[v].hour)' = Visible(v, poll[v].hour)
      BY <2>1, <3>1, OthersSee
    <3> QED BY <3>1, <3>2 DEF SeesItsPosts, Owed
  <2>2. CASE v = w /\ Quiet(w)
    <3>1. VisibleRows(w)' = VisibleRows(w) /\ used' = used /\ w \notin stale
          /\ \A h : Visible(w, h)' = Visible(w, h)
      BY <2>2, QuietEffect, SameRows
    <3>2. Total(VisibleRows(w), Hours) + Owed(w) = Total(used, Hours) + poll[w].made
      BY <3>1 DEF SeesItsPosts
    <3>3. CASE PostOnce(w)
      BY <2>0, <2>2, <3>1, <3>2, <3>3, QuietEffect DEF Owed
    <3>4. CASE CheckQuota(w) \/ PostUnreported(w) \/ PostRefused(w)
      BY <2>0, <2>2, <3>1, <3>2, <3>4, QuietEffect DEF Owed
    <3>5. CASE ReadRow(w)
      BY <2>0, <2>2, <3>1, <3>2, <3>5, QuietEffect DEF Owed
    <3> QED BY <2>2, <3>3, <3>4, <3>5 DEF Quiet
  <2>3. CASE v = w /\ WriteRow(w)
    <3>1. /\ used' = used /\ w \notin stale /\ poll[w].step = "counting"
          /\ poll'[w].step = "ready" /\ poll'[w].made = poll[w].made
      BY <2>3, WriteEffect
    <3>2. Total(VisibleRows(w)', Hours) = Total(VisibleRows(w), Hours) + 1
      BY <2>3, <3>1, RowWritten, PollTypes
    <3>3. Total(VisibleRows(w), Hours) + 1 = Total(used, Hours) + poll[w].made
      BY <3>1 DEF SeesItsPosts, Owed
    <3>4. Owed(w)' = 0
      BY <3>1 DEF Owed
    <3> QED BY <2>0, <2>3, <3>1, <3>2, <3>3, <3>4
  <2>4. CASE (v = w /\ Drop(w)) \/ CommitPoll(w)
    <3>1. poll'[v] = NoPoll
      BY <2>4, DropEffect, CommitEffect
    <3>2. VisibleRows(v)' = used'
      BY <3>1, NoPollRows
    <3>3. Owed(v)' = 0 /\ poll'[v].made = 0 /\ poll'[v].step = "ready"
      BY <3>1 DEF NoPoll, Owed
    <3> QED BY <2>0, <3>2, <3>3
  <2> QED BY <1>2, <2>1, <2>2, <2>3, <2>4
<1> QED BY <1>1, <1>2, QuotaSteps

\* A post adds one; every other step leaves the posts alone.
LEMMA PostsGrow ==
  ASSUME QuotaTypeOK, QuotaTypeOK', NEW w \in Pollers,
         Quiet(w) \/ WriteRow(w) \/ Drop(w) \/ CommitPoll(w)
  PROVE  /\ ~(PostOnce(w) \/ PostUnreported(w)) => posted' = posted
         /\ PostOnce(w) \/ PostUnreported(w) =>
              /\ posted' = [posted EXCEPT ![instant] = @ + 1]
              /\ AllPosts' = AllPosts + 1
         /\ \A i \in Instants : Total(posted', Earlier(i)) >= Total(posted, Earlier(i))
         /\ \A i \in Instants : Total(posted', Earlier(i)) \in Nat
<1>1. ~(PostOnce(w) \/ PostUnreported(w)) => posted' = posted
  BY QuietEffect, WriteEffect, DropEffect, CommitEffect DEF Quiet
<1>2. ASSUME PostOnce(w) \/ PostUnreported(w)
      PROVE  posted' = [posted EXCEPT ![instant] = @ + 1]
  BY <1>2 DEF PostOnce, PostUnreported
<1>3. ASSUME PostOnce(w) \/ PostUnreported(w)
      PROVE  AllPosts' = AllPosts + 1
  BY <1>2, <1>3, PostCounts DEF AllPosts, QuotaTypeOK
<1>4. ASSUME NEW i \in Instants
      PROVE  /\ Total(posted', Earlier(i)) \in Nat
             /\ Total(posted', Earlier(i)) >= Total(posted, Earlier(i))
  <2>1. Earlier(i) \in SUBSET Instants
    BY QuotaSetsAreFinite
  <2>2. Total(posted, Earlier(i)) \in Nat
    BY QuotaSums
  <2>3. CASE PostOnce(w) \/ PostUnreported(w)
    BY <1>2, <2>1, <2>2, <2>3, PostCounts
  <2>4. CASE posted' = posted
    BY <2>2, <2>4
  <2> QED BY <1>1, <2>3, <2>4
<1> QED BY <1>1, <1>2, <1>3, <1>4

LEMMA PostsAddUpNext ==
  ASSUME QuotaTypeOK, QuotaTypeOK', SeesItsPosts, PostsAddUp, [QuotaNext]_quotaVars
  PROVE  PostsAddUp'
<1>1. CASE UNCHANGED quotaVars \/ QuotaTick
  BY <1>1 DEF quotaVars, QuotaTick, PostsAddUp, AllPosts, AllMade, MadeBy
<1>2. ASSUME NEW w \in Pollers, Quiet(w) \/ WriteRow(w) \/ Drop(w) \/ CommitPoll(w)
      PROVE  PostsAddUp'
  <2> SUFFICES ASSUME ~raced'
               PROVE  AllPosts' = Total(used', Hours) + AllMade' + lost'
    BY DEF PostsAddUp
  <2>0. /\ AllPosts \in Nat /\ AllMade \in Nat /\ Total(used, Hours) \in Nat
        /\ poll[w].made \in Nat /\ lost \in Nat
    BY QuotaSums, PollTypes DEF QuotaTypeOK
  <2>1. AllPosts = Total(used, Hours) + AllMade + lost
    BY <1>2, QuietEffect, WriteEffect, DropEffect, CommitEffect DEF PostsAddUp
  <2>2. OwnStep(w)
    BY <1>2, QuietEffect, WriteEffect, DropEffect, CommitEffect
  <2>3. /\ AllMade' + poll[w].made = AllMade + poll'[w].made
        /\ AllMade' \in Nat
    BY <2>2, MadeChanges
  <2>4. posted' = posted => AllPosts' = AllPosts
    BY DEF AllPosts
  <2>5. CASE PostOnce(w)
    <3>1. /\ poll'[w].made = poll[w].made + 1 /\ lost' = lost /\ used' = used
          /\ AllPosts' = AllPosts + 1
      BY <2>5, QuietEffect, PostsGrow DEF Quiet
    <3> QED BY <2>0, <2>1, <2>3, <3>1
  <2>6. CASE PostUnreported(w)
    <3>1. /\ poll'[w].made = poll[w].made /\ lost' = lost + 1 /\ used' = used
          /\ AllPosts' = AllPosts + 1
      BY <2>6, QuietEffect, PostsGrow DEF Quiet
    <3> QED BY <2>0, <2>1, <2>3, <3>1
  <2>7. CASE CheckQuota(w) \/ PostRefused(w) \/ ReadRow(w) \/ WriteRow(w)
    <3>1. /\ poll'[w].made = poll[w].made /\ lost' = lost /\ used' = used
          /\ posted' = posted
      BY <2>7, QuietEffect, WriteEffect DEF Quiet
    <3> QED BY <2>0, <2>1, <2>3, <2>4, <3>1
  <2>8. CASE Drop(w)
    <3>1. /\ poll'[w].made = 0 /\ lost' = lost + poll[w].made /\ used' = used
          /\ posted' = posted
      BY <2>8, DropEffect DEF NoPoll
    <3> QED BY <2>0, <2>1, <2>3, <2>4, <3>1
  <2>9. CASE CommitPoll(w)
    <3>1. /\ poll'[w].made = 0 /\ lost' = lost /\ used' = VisibleRows(w)
          /\ posted' = posted /\ w \notin stale /\ poll[w].step = "ready"
      BY <2>9, CommitEffect DEF NoPoll
    <3>2. Total(VisibleRows(w), Hours) + 0 = Total(used, Hours) + poll[w].made
      BY <3>1 DEF SeesItsPosts, Owed
    <3>3. Total(VisibleRows(w), Hours) \in Nat
      BY QuotaSums
    <3> QED BY <2>0, <2>1, <2>3, <2>4, <3>1, <3>2, <3>3
  <2> QED BY <1>2, <2>5, <2>6, <2>7, <2>8, <2>9 DEF Quiet
<1> QED BY <1>1, <1>2, QuotaSteps

\* A worker's posts are among all the posts that open polls have made.
LEMMA MadeIsCounted ==
  ASSUME QuotaTypeOK, NEW w \in Pollers
  PROVE  /\ poll[w].made \in Nat /\ AllMade \in Nat /\ poll[w].made <= AllMade
         /\ AllMade <= poll[w].made + (Cardinality(Pollers) - 1) * Batch
<1>1. \A v \in Pollers : MadeBy[v] \in Nat /\ MadeBy[v] <= Batch
  BY QuotaConstants DEF QuotaTypeOK, PollState, MadeBy
<1>2. IsFiniteSet(Pollers) /\ IsFiniteSet(Pollers \ {w}) /\ Batch \in Nat
  BY QuotaConstants, FS_Subset
<1>3. AllMade = MadeBy[w] + Total(MadeBy, Pollers \ {w})
  BY <1>1, <1>2, TotalWithout DEF AllMade
<1>4. Total(MadeBy, Pollers \ {w}) \in Nat
  BY <1>1, <1>2, TotalIsNat
<1>5. Total(MadeBy, Pollers \ {w}) <= Cardinality(Pollers \ {w}) * Batch
  BY <1>1, <1>2, TotalBound
<1>6. Cardinality(Pollers \ {w}) = Cardinality(Pollers) - 1
  BY <1>2, FS_RemoveElement
<1>7. Cardinality(Pollers) \in Nat /\ MadeBy[w] = poll[w].made
  BY <1>2, FS_CardinalityType DEF MadeBy
<1>8. /\ Cardinality(Pollers \ {w}) \in Nat
      /\ Cardinality(Pollers \ {w}) * Batch \in Nat
  BY <1>2, FS_CardinalityType
<1> QED BY <1>1, <1>3, <1>4, <1>5, <1>6, <1>7, <1>8

\* Before an instant that is ahead lie all the posts.
LEMMA PostsBeforeTheFuture ==
  ASSUME QuotaTypeOK, NoPostsAhead, NEW i \in Instants, instant < i
  PROVE  Total(posted, Earlier(i)) = AllPosts
<1>1. /\ \A j \in Instants : posted[j] \in Nat
      /\ IsFiniteSet(Instants) /\ Earlier(i) \in SUBSET Instants
      /\ IsFiniteSet(Instants \ Earlier(i))
  BY QuotaSetsAreFinite, FS_Subset DEF QuotaTypeOK
<1>2. /\ AllPosts = Total(posted, Earlier(i)) + Total(posted, Instants \ Earlier(i))
      /\ Total(posted, Earlier(i)) \in Nat
      /\ Total(posted, Instants \ Earlier(i)) \in Nat
  BY <1>1, TotalSplit DEF AllPosts
<1>3. \A j \in Instants \ Earlier(i) : posted[j] \in Nat /\ posted[j] <= 0
  BY <1>1, HoursOfInstants DEF NoPostsAhead, Earlier, QuotaTypeOK
<1>4. Total(posted, Instants \ Earlier(i))
        <= Cardinality(Instants \ Earlier(i)) * 0
  BY <1>1, <1>3, TotalBound
<1>5. Cardinality(Instants \ Earlier(i)) \in Nat
  BY <1>1, FS_CardinalityType
<1> QED BY <1>2, <1>4, <1>5

LEMMA RowsComeAfterPostsNext ==
  ASSUME QuotaTypeOK, QuotaTypeOK', NoPostsAhead, SeesItsPosts, PostsAddUp,
         RowsComeAfterPosts, [QuotaNext]_quotaVars
  PROVE  RowsComeAfterPosts'
<1>1. CASE UNCHANGED quotaVars \/ QuotaTick
  BY <1>1 DEF quotaVars, QuotaTick, RowsComeAfterPosts, VisibleRows, Visible, Late
<1>2. ASSUME NEW w \in Pollers, Quiet(w) \/ WriteRow(w) \/ Drop(w) \/ CommitPoll(w)
      PROVE  RowsComeAfterPosts'
  <2> SUFFICES ASSUME ~raced', NEW i \in Instants
               PROVE  /\ Total(used', Before(i)) <= Total(posted', Earlier(i))
                      /\ \A v \in Pollers \ stale' :
                           Total(VisibleRows(v)', Before(i)) + Late(v, i)'
                             <= Total(posted', Earlier(i))
    BY DEF RowsComeAfterPosts
  <2> DEFINE past == Total(posted, Earlier(i))
             pastN == Total(posted', Earlier(i))
  <2>0. past \in Nat /\ pastN \in Nat /\ past <= pastN
    BY <1>2, QuotaSums, PostsGrow
  <2>1. ~raced /\ OwnStep(w)
    BY <1>2, QuietEffect, WriteEffect, DropEffect, CommitEffect
  <2>2. /\ Total(used, Before(i)) <= past
        /\ \A v \in Pollers \ stale :
             Total(VisibleRows(v), Before(i)) + Late(v, i) <= past
    BY <2>1 DEF RowsComeAfterPosts
  <2>3. /\ Total(used, Before(i)) \in Nat
        /\ \A v \in Pollers : Total(VisibleRows(v), Before(i)) \in Nat
    BY QuotaSums, HoursSplit
  <2>4. \A v \in Pollers : Late(v, i) \in {0, 1}
    BY DEF Late
  <2> HIDE DEF past, pastN
  <2>5. CASE CommitPoll(w)
    <3>1. /\ used' = VisibleRows(w) /\ w \notin stale
          /\ \A v \in Pollers \ stale' : poll'[v] = NoPoll
      BY <2>5, CommitEffect
    <3>2. \A v \in Pollers \ stale' : VisibleRows(v)' = used' /\ Late(v, i)' = 0
      BY <3>1, NoPollRows DEF NoPoll, Late
    <3>3. Total(used', Before(i)) \in Nat /\ Total(used', Before(i)) <= past
      BY <2>0, <2>2, <2>3, <2>4, <3>1
    <3>4. Total(used', Before(i)) <= pastN
      BY <2>0, <3>3
    <3> QED BY <3>2, <3>3, <3>4 DEF pastN
  <2>6. CASE ~CommitPoll(w)
    <3>1. used' = used /\ \A v \in Pollers \ {w} : v \notin stale' => v \notin stale
      BY <1>2, <2>6, QuietEffect, WriteEffect, DropEffect
    <3>2. Total(used', Before(i)) <= pastN
      BY <2>0, <2>2, <2>3, <3>1
    <3>3. ASSUME NEW v \in Pollers \ stale', v # w
          PROVE  Total(VisibleRows(v)', Before(i)) + Late(v, i)' <= pastN
      <4>1. VisibleRows(v)' = VisibleRows(v) /\ Late(v, i)' = Late(v, i)
        BY <2>1, <3>1, <3>3, OthersSee DEF Late
      <4>2. Total(VisibleRows(v), Before(i)) + Late(v, i) <= past
        BY <2>2, <3>1, <3>3
      <4> QED BY <2>0, <2>3, <2>4, <4>1, <4>2
    <3>4. ASSUME w \notin stale'
          PROVE  Total(VisibleRows(w)', Before(i)) + Late(w, i)' <= pastN
      <4>1. CASE Drop(w)
        <5>1. poll'[w] = NoPoll
          BY <4>1, DropEffect
        <5>2. VisibleRows(w)' = used' /\ Late(w, i)' = 0
          BY <5>1, NoPollRows DEF NoPoll, Late
        <5> QED BY <2>3, <3>1, <3>2, <5>2
      <4>2. CASE ~Drop(w)
        <5>1. w \notin stale
          BY <1>2, <2>6, <3>4, <4>2, QuietEffect, WriteEffect
        <5>2. Total(VisibleRows(w), Before(i)) + Late(w, i) <= past
          BY <2>2, <5>1
        <5>3. CASE Quiet(w) /\ ~ReadRow(w)
          <6>1. VisibleRows(w)' = VisibleRows(w) /\ poll'[w].step # "counting"
            BY <5>3, QuietEffect, SameRows DEF Quiet
          <6>2. Late(w, i)' = 0
            BY <6>1 DEF Late
          <6> QED BY <2>0, <2>3, <2>4, <5>2, <6>1, <6>2
        <5>4. CASE ReadRow(w)
          <6>1. /\ VisibleRows(w)' = VisibleRows(w) /\ posted' = posted
                /\ poll[w].step = "posted" /\ poll'[w].step = "counting"
                /\ poll'[w].hour = HourOf(instant)
            BY <5>4, QuietEffect, SameRows DEF Quiet
          <6>2. Late(w, i) = 0
            BY <6>1 DEF Late
          <6>3. CASE HourOf(i) <= HourOf(instant)
            <7>1. Late(w, i)' = 0
              <8>1. HourOf(i) \in Nat /\ HourOf(instant) \in Nat
                BY HoursOfInstants DEF QuotaTypeOK
              <8>2. ~(HourOf(instant) < HourOf(i))
                BY <6>3, <8>1
              <8> QED BY <6>1, <8>2 DEF Late
            <7> QED BY <2>0, <2>3, <5>2, <6>1, <6>2, <7>1
          <6>4. CASE HourOf(instant) < HourOf(i)
            <7>1. instant < i
              BY <6>4, LaterHour, HoursOfInstants DEF QuotaTypeOK
            <7>2. past = AllPosts /\ pastN = past
              BY <6>1, <7>1, PostsBeforeTheFuture DEF past, pastN
            <7>3. /\ Total(VisibleRows(w), Hours)
                       = Total(VisibleRows(w), Before(i)) + Total(VisibleRows(w), Since(i))
                  /\ Total(VisibleRows(w), Hours) \in Nat
                  /\ Total(VisibleRows(w), Since(i)) \in Nat
              BY QuotaSums, HoursSplit
            <7>4. Total(VisibleRows(w), Hours) + 1 = Total(used, Hours) + poll[w].made
              BY <5>1, <6>1 DEF SeesItsPosts, Owed
            <7>5. AllPosts = Total(used, Hours) + AllMade + lost
              BY <2>1 DEF PostsAddUp
            <7>6. /\ poll[w].made \in Nat /\ AllMade \in Nat /\ poll[w].made <= AllMade
                  /\ Total(used, Hours) \in Nat /\ lost \in Nat
              BY MadeIsCounted, QuotaSums DEF QuotaTypeOK
            <7>7. Total(VisibleRows(w), Before(i)) + 1 <= pastN
              BY <2>3, <7>2, <7>3, <7>4, <7>5, <7>6
            <7>8. Late(w, i)' \in {0, 1}
              BY DEF Late
            <7> QED BY <2>0, <2>3, <6>1, <7>7, <7>8
          <6> QED BY <6>3, <6>4, HoursOfInstants DEF QuotaTypeOK, Hours
        <5>5. CASE WriteRow(w)
          <6>1. /\ poll[w].step = "counting" /\ poll'[w].step = "ready"
                /\ poll[w].hour \in Hours /\ Before(i) \in SUBSET Hours
            BY <5>5, WriteEffect, PollTypes, QuotaSetsAreFinite
          <6>2. Late(w, i)' = 0
            BY <6>1 DEF Late
          <6>3. Late(w, i) = IF poll[w].hour \in Before(i) THEN 1 ELSE 0
            BY <6>1 DEF Late, Before
          <6>4. Total(VisibleRows(w)', Before(i))
                  = Total(VisibleRows(w), Before(i)) + Late(w, i)
            BY <2>3, <5>1, <5>5, <6>1, <6>3, RowWritten
          <6> QED BY <2>0, <2>3, <2>4, <5>2, <6>2, <6>4
        <5> QED BY <1>2, <2>6, <4>2, <5>3, <5>4, <5>5
      <4> QED BY <4>1, <4>2
    <3> QED BY <3>2, <3>3, <3>4 DEF pastN
  <2> QED BY <2>5, <2>6
<1> QED BY <1>1, <1>2, QuotaSteps

\* As long as instant i is less than DayHours - 1 hours ago, the check sums every
\* row from its hour on.
LEMMA CheckedRows ==
  ASSUME QuotaTypeOK, NEW i \in Instants, instant < i + (DayHours - 1) * Hour,
         NEW w \in Pollers
  PROVE  /\ Total(VisibleRows(w), Since(i)) <= SumUsed(w)
         /\ SumUsed(w) \in Nat
<1>1. /\ i \in Nat /\ HourOf(i) \in Nat /\ HourOf(i) * Hour \in Nat
      /\ i < HourOf(i) * Hour + Hour
      /\ instant \in Nat
  BY HoursOfInstants, HourBegins DEF QuotaTypeOK
<1>2. ASSUME NEW h \in Since(i)
      PROVE  h \in Counted(instant)
  <2>1. h \in Hours /\ h \in Nat /\ HourOf(i) <= h
    BY HoursOfInstants DEF Since
  <2>2. HourOf(i) * Hour <= h * Hour
    BY <1>1, <2>1, Product, QuotaConstants
  <2>3. DayHours * Hour = (DayHours - 1) * Hour + Hour
    BY QuotaConstants
  <2>4. (DayHours - 1) * Hour \in Nat /\ DayHours * Hour \in Nat /\ h * Hour \in Nat
    BY QuotaConstants, <2>1
  <2> DEFINE x == HourOf(i) * Hour
             y == h * Hour
             d == DayHours * Hour
             e == (DayHours - 1) * Hour
  <2>5. y + d >= instant
    <3>1. /\ x \in Nat /\ y \in Nat /\ d \in Nat /\ e \in Nat /\ x <= y
          /\ d = e + Hour /\ i < x + Hour /\ instant < i + e
      BY <1>1, <2>2, <2>3, <2>4
    <3> HIDE DEF x, y, d, e
    <3> QED BY <1>1, <3>1, QuotaConstants
  <2> QED BY <2>1, <2>5 DEF Counted
<1>3. Since(i) \in SUBSET Counted(instant) /\ Counted(instant) \in SUBSET Hours
  BY <1>2 DEF Counted
<1>4. IsFiniteSet(Counted(instant)) /\ \A h \in Counted(instant) : VisibleRows(w)[h] \in Nat
  BY <1>3, QuotaSums, QuotaSetsAreFinite, FS_Subset
<1> DEFINE f == VisibleRows(w)
           C == Counted(instant)
           S == Since(i)
<1> HIDE DEF f, C, S
<1>5. /\ Total(f, C) = Total(f, S) + Total(f, C \ S)
      /\ Total(f, C) \in Nat /\ Total(f, S) \in Nat /\ Total(f, C \ S) \in Nat
  <2>1. IsFiniteSet(C) /\ (\A h \in C : f[h] \in Nat) /\ S \in SUBSET C
    BY <1>3, <1>4 DEF f, C, S
  <2> QED BY <2>1, TotalSplit
<1>6. Total(f, S) <= Total(f, C)
  BY <1>5
<1> QED BY <1>5, <1>6 DEF f, C, S, SumUsed

LEMMA RowsKeepTheGuardNext ==
  ASSUME QuotaTypeOK, QuotaTypeOK', SeesItsPosts, RowsKeepTheGuard,
         [QuotaNext]_quotaVars
  PROVE  RowsKeepTheGuard'
<1>1. CASE UNCHANGED quotaVars
  BY <1>1 DEF quotaVars, RowsKeepTheGuard, VisibleRows, Visible, Taken
<1>2. CASE QuotaTick
  <2> SUFFICES ASSUME ~raced', NEW i \in Instants,
                      instant' < i + (DayHours - 1) * Hour
               PROVE  /\ Total(used', Since(i)) <= Guard
                      /\ \A v \in Pollers \ stale' :
                           Total(VisibleRows(v)', Since(i)) + Taken(v)' <= Guard
    BY DEF RowsKeepTheGuard
  <2>1. instant < i + (DayHours - 1) * Hour
    <3>1. /\ i \in Nat /\ (DayHours - 1) * Hour \in Nat /\ instant \in Nat
          /\ instant' = instant + 1
      BY <1>2, QuotaConstants, HoursOfInstants DEF QuotaTick, QuotaTypeOK
    <3> QED BY <3>1
  <2>2. UNCHANGED <<used, poll, stale, raced>>
    BY <1>2 DEF QuotaTick
  <2> QED BY <2>1, <2>2 DEF RowsKeepTheGuard, VisibleRows, Visible, Taken
<1>3. ASSUME NEW w \in Pollers, Quiet(w) \/ WriteRow(w) \/ Drop(w) \/ CommitPoll(w)
      PROVE  RowsKeepTheGuard'
  <2> SUFFICES ASSUME ~raced', NEW i \in Instants,
                      instant' < i + (DayHours - 1) * Hour
               PROVE  /\ Total(used', Since(i)) <= Guard
                      /\ \A v \in Pollers \ stale' :
                           Total(VisibleRows(v)', Since(i)) + Taken(v)' <= Guard
    BY DEF RowsKeepTheGuard
  <2>1. ~raced /\ OwnStep(w) /\ instant < i + (DayHours - 1) * Hour
    BY <1>3, QuietEffect, WriteEffect, DropEffect, CommitEffect
  <2>2. /\ Total(used, Since(i)) <= Guard
        /\ \A v \in Pollers \ stale :
             Total(VisibleRows(v), Since(i)) + Taken(v) <= Guard
    BY <2>1 DEF RowsKeepTheGuard
  <2>3. /\ Total(used, Since(i)) \in Nat /\ Guard \in Nat
        /\ \A v \in Pollers : Total(VisibleRows(v), Since(i)) \in Nat
    BY QuotaSums, HoursSplit, QuotaConstants
  <2>4. \A v \in Pollers : Taken(v) \in {0, 1}
    BY DEF Taken
  <2>5. CASE CommitPoll(w)
    <3>1. /\ used' = VisibleRows(w) /\ w \notin stale
          /\ \A v \in Pollers \ stale' : poll'[v] = NoPoll
      BY <2>5, CommitEffect
    <3>2. \A v \in Pollers \ stale' : VisibleRows(v)' = used' /\ Taken(v)' = 0
      BY <3>1, NoPollRows DEF NoPoll, Taken
    <3>3. Total(used', Since(i)) \in Nat /\ Total(used', Since(i)) <= Guard
      BY <2>2, <2>3, <2>4, <3>1
    <3> QED BY <3>2, <3>3
  <2>6. CASE ~CommitPoll(w)
    <3>1. used' = used /\ \A v \in Pollers \ {w} : v \notin stale' => v \notin stale
      BY <1>3, <2>6, QuietEffect, WriteEffect, DropEffect
    <3>2. ASSUME NEW v \in Pollers \ stale', v # w
          PROVE  Total(VisibleRows(v)', Since(i)) + Taken(v)' <= Guard
      <4>1. VisibleRows(v)' = VisibleRows(v) /\ Taken(v)' = Taken(v)
        BY <2>1, <3>1, <3>2, OthersSee DEF Taken
      <4> QED BY <2>2, <3>1, <3>2, <4>1
    <3>3. ASSUME w \notin stale'
          PROVE  Total(VisibleRows(w)', Since(i)) + Taken(w)' <= Guard
      <4>1. CASE Drop(w)
        <5>1. poll'[w] = NoPoll
          BY <4>1, DropEffect
        <5>2. VisibleRows(w)' = used' /\ Taken(w)' = 0
          BY <5>1, NoPollRows DEF NoPoll, Taken
        <5> QED BY <2>2, <2>3, <3>1, <5>2
      <4>2. CASE ~Drop(w)
        <5>1. w \notin stale
          BY <1>3, <2>6, <3>3, <4>2, QuietEffect, WriteEffect
        <5>2. Total(VisibleRows(w), Since(i)) + Taken(w) <= Guard
          BY <2>2, <5>1
        <5>3. CASE CheckQuota(w)
          <6>1. VisibleRows(w)' = VisibleRows(w) /\ Taken(w)' = 1
            BY <5>3, QuietEffect, SameRows DEF Quiet, Taken
          <6>2. SumUsed(w) < Guard
            BY <5>3 DEF CheckQuota
          <6> QED BY <2>1, <2>3, <6>1, <6>2, CheckedRows
        <5>4. CASE Quiet(w) /\ ~CheckQuota(w)
          <6>1. VisibleRows(w)' = VisibleRows(w) /\ poll[w].step # "ready"
            BY <5>4, QuietEffect, SameRows DEF Quiet
          <6>2. Taken(w) = 1 /\ Taken(w)' \in {0, 1}
            BY <6>1 DEF Taken
          <6> QED BY <2>3, <5>2, <6>1, <6>2
        <5>5. CASE WriteRow(w)
          <6>1. Taken(w) = 1 /\ Taken(w)' = 0
            BY <5>5, WriteEffect DEF Taken
          <6>2. \/ Total(VisibleRows(w)', Since(i)) = Total(VisibleRows(w), Since(i)) + 1
                \/ Total(VisibleRows(w)', Since(i)) = Total(VisibleRows(w), Since(i))
            BY <5>1, <5>5, RowWritten, QuotaSetsAreFinite
          <6> QED BY <2>3, <5>2, <6>1, <6>2
        <5> QED BY <1>3, <2>6, <4>2, <5>3, <5>4, <5>5
      <4> QED BY <4>1, <4>2
    <3> QED BY <2>2, <3>1, <3>2, <3>3
  <2> QED BY <2>5, <2>6
<1> QED BY <1>1, <1>2, <1>3, QuotaSteps

-----------------------------------------------------------------------------
(* The posts of DayHours - 1 hours. *)

Overrun == Guard + (Cardinality(Pollers) - 1) * Batch + lost

\* The spans that have not ended are bounded by what the rows say.
OpenSpansAreBounded ==
  ~raced => \A i \in Instants : instant < i + (DayHours - 1) * Hour =>
    Span(i, (DayHours - 1) * Hour) <= Overrun

LEMMA SpanSums ==
  ASSUME QuotaTypeOK, NEW i \in Instants, NEW n \in Nat
  PROVE  /\ Span(i, n) \in Nat
         /\ Span(i, n) + Total(posted, Earlier(i)) <= AllPosts
<1> DEFINE T == Instants \cap (i .. i + n - 1)
           E == Earlier(i)
           R == Instants \ E
           f == posted
<1>1. /\ \A j \in Instants : f[j] \in Nat
      /\ IsFiniteSet(Instants) /\ E \in SUBSET Instants /\ IsFiniteSet(R)
      /\ R \in SUBSET Instants
  BY QuotaSetsAreFinite, FS_Subset DEF QuotaTypeOK
<1>2. T \in SUBSET R
  BY HoursOfInstants DEF Earlier
<1>3. Span(i, n) = Total(f, T) /\ AllPosts = Total(f, Instants)
  BY DEF Span, AllPosts
<1> HIDE DEF T, E, R, f
<1>4. /\ Total(f, Instants) = Total(f, E) + Total(f, Instants \ E)
      /\ Total(f, E) \in Nat
  BY <1>1, TotalSplit
<1>5. /\ Total(f, R) = Total(f, T) + Total(f, R \ T)
      /\ Total(f, T) \in Nat /\ Total(f, R \ T) \in Nat
  BY <1>1, <1>2, TotalSplit
<1> QED BY <1>3, <1>4, <1>5 DEF E, R, f

LEMMA OverrunIsNat ==
  ASSUME QuotaTypeOK
  PROVE  /\ (Cardinality(Pollers) - 1) * Batch \in Nat
         /\ Overrun \in Nat /\ (DayHours - 1) * Hour \in Nat
<1>1. Cardinality(Pollers) \in Nat /\ Cardinality(Pollers) # 0
  BY QuotaConstants, FS_CardinalityType, FS_EmptySet
<1>2. Cardinality(Pollers) - 1 \in Nat /\ DayHours - 1 \in Nat
  BY <1>1, QuotaConstants
<1>3. (Cardinality(Pollers) - 1) * Batch \in Nat /\ (DayHours - 1) * Hour \in Nat
  BY <1>2, QuotaConstants
<1> QED BY <1>3, QuotaConstants DEF Overrun, QuotaTypeOK

LEMMA OpenSpans ==
  QuotaTypeOK /\ SomeAreFresh /\ SeesItsPosts /\ PostsAddUp
    /\ RowsComeAfterPosts /\ RowsKeepTheGuard => OpenSpansAreBounded
<1> SUFFICES ASSUME QuotaTypeOK, SomeAreFresh, SeesItsPosts, PostsAddUp,
                    RowsComeAfterPosts, RowsKeepTheGuard,
                    ~raced, NEW i \in Instants, instant < i + (DayHours - 1) * Hour
             PROVE  Span(i, (DayHours - 1) * Hour) <= Overrun
  BY DEF OpenSpansAreBounded
<1>1. PICK w \in Pollers : w \notin stale
  BY DEF QuotaTypeOK, SomeAreFresh
<1> DEFINE span == Span(i, (DayHours - 1) * Hour)
           past == Total(posted, Earlier(i))
           before == Total(VisibleRows(w), Before(i))
           since == Total(VisibleRows(w), Since(i))
           all == Total(VisibleRows(w), Hours)
           rows == Total(used, Hours)
           made == poll[w].made
           rest == (Cardinality(Pollers) - 1) * Batch
           posts == AllPosts
           mades == AllMade
<1>2. span \in Nat /\ past \in Nat /\ posts \in Nat /\ span + past <= posts
  BY SpanSums, OverrunIsNat, QuotaSums
<1>3. all = before + since /\ all \in Nat /\ before \in Nat /\ since \in Nat
  BY QuotaSums, HoursSplit
<1>4. all + Owed(w) = rows + made
  BY <1>1 DEF SeesItsPosts
<1>5. posts = rows + mades + lost
  BY DEF PostsAddUp
<1>6. before + Late(w, i) <= past
  BY <1>1 DEF RowsComeAfterPosts
<1>7. since + Taken(w) <= Guard
  BY <1>1 DEF RowsKeepTheGuard
<1>8. made \in Nat /\ mades \in Nat /\ mades <= made + rest /\ rest \in Nat
  BY MadeIsCounted, OverrunIsNat
<1>9. /\ Owed(w) \in {0, 1} /\ Late(w, i) \in {0, 1} /\ Taken(w) \in {0, 1}
      /\ Owed(w) <= Taken(w)
  BY DEF Owed, Late, Taken
<1>10. rows \in Nat /\ lost \in Nat /\ Guard \in Nat /\ Overrun = Guard + rest + lost
  BY QuotaSums, QuotaConstants DEF QuotaTypeOK, Overrun
<1> HIDE DEF span, past, before, since, all, rows, made, rest, posts, mades
<1>11. before <= past
  BY <1>2, <1>3, <1>6, <1>9
<1>12. since + Owed(w) <= Guard
  BY <1>3, <1>7, <1>9, <1>10
<1>13. rows + made <= before + Guard
  BY <1>3, <1>4, <1>8, <1>9, <1>10, <1>12
<1>14. posts <= before + Guard + rest + lost
  BY <1>3, <1>5, <1>8, <1>10, <1>13
<1>15. span <= Guard + rest + lost
  BY <1>2, <1>3, <1>8, <1>10, <1>11, <1>14
<1> QED BY <1>10, <1>15 DEF span

\* A span that has ended gets no more posts, and losses only grow.
LEMMA OvershootNext ==
  ASSUME QuotaTypeOK, QuotaTypeOK', QuotaOvershootIsBounded, OpenSpansAreBounded',
         [QuotaNext]_quotaVars
  PROVE  QuotaOvershootIsBounded'
<1> DEFINE n == (DayHours - 1) * Hour
<1> SUFFICES ASSUME ~raced', NEW i \in Instants
             PROVE  Span(i, n)' <= Overrun'
  BY DEF QuotaOvershootIsBounded, Overrun
<1>1. CASE instant' < i + n
  BY <1>1 DEF OpenSpansAreBounded
<1>2. CASE ~(instant' < i + n)
  <2>0. n \in Nat
    BY OverrunIsNat
  <2>1. CASE UNCHANGED quotaVars \/ QuotaTick
    <3>1. UNCHANGED <<raced, posted, lost>>
      BY <2>1 DEF quotaVars, QuotaTick
    <3> QED BY <3>1 DEF QuotaOvershootIsBounded, Span, Overrun
  <2>2. ASSUME NEW w \in Pollers, Quiet(w) \/ WriteRow(w) \/ Drop(w) \/ CommitPoll(w)
        PROVE  Span(i, n)' <= Overrun'
    <3>1. ~raced /\ instant' = instant
      BY <2>2, QuietEffect, WriteEffect, DropEffect, CommitEffect
    <3>2. lost \in Nat /\ lost' \in Nat /\ lost <= lost'
      <4>1. lost' = lost \/ lost' = lost + 1 \/ lost' = lost + poll[w].made
        BY <2>2, QuietEffect, WriteEffect, DropEffect, CommitEffect DEF Quiet
      <4> QED BY <4>1, PollTypes DEF QuotaTypeOK
    <3>3. Span(i, n)' = Span(i, n)
      <4>1. CASE posted' = posted
        BY <4>1 DEF Span
      <4>2. CASE PostOnce(w) \/ PostUnreported(w)
        <5> DEFINE T == Instants \cap (i .. i + n - 1)
        <5>1. posted' = [posted EXCEPT ![instant] = @ + 1]
          BY <4>2, PostsGrow DEF Quiet
        <5>2. instant \notin T /\ T \in SUBSET Instants
          BY <1>2, <2>0, <3>1, HoursOfInstants DEF QuotaTypeOK
        <5>3. Total(posted', T) = Total(posted, T)
          BY <5>1, <5>2, PostCounts
        <5> QED BY <5>3 DEF Span
      <4> QED BY <2>2, <4>1, <4>2, PostsGrow
    <3>4. Span(i, n) <= Overrun
      BY <3>1 DEF QuotaOvershootIsBounded, Overrun
    <3>5. /\ Span(i, n) \in Nat /\ Guard \in Nat
          /\ (Cardinality(Pollers) - 1) * Batch \in Nat
      BY <2>0, SpanSums, OverrunIsNat, QuotaConstants
    <3> QED BY <3>2, <3>3, <3>4, <3>5 DEF Overrun
  <2> QED BY <2>1, <2>2, QuotaSteps
<1> QED BY <1>1, <1>2

LEMMA QuotaInvInit ==
  QuotaInit => QuotaInv
<1> SUFFICES ASSUME QuotaInit
             PROVE  QuotaInv
  OBVIOUS
<1>1. QuotaTypeOK
  BY QuotaTypesInit
<1>2. /\ \A w \in Pollers : poll[w] = NoPoll
      /\ \A h \in Hours : used[h] \in Nat /\ used[h] <= 0
      /\ \A i \in Instants : posted[i] \in Nat /\ posted[i] <= 0
      /\ lost = 0 /\ stale = {} /\ instant = 0
  BY DEF QuotaInit
<1>3. /\ \A T \in SUBSET Hours : Total(used, T) = 0
      /\ \A T \in SUBSET Instants : Total(posted, T) = 0
  <2>1. ASSUME NEW T, IsFiniteSet(T), NEW f, \A x \in T : f[x] \in Nat /\ f[x] <= 0
        PROVE  Total(f, T) = 0
    <3>1. Total(f, T) \in Nat /\ Total(f, T) <= Cardinality(T) * 0
      BY <2>1, TotalIsNat, TotalBound
    <3>2. Cardinality(T) \in Nat
      BY <2>1, FS_CardinalityType
    <3> QED BY <3>1, <3>2
  <2> QED BY <1>2, <2>1, QuotaSetsAreFinite, FS_Subset
<1>4. \A w \in Pollers :
        /\ VisibleRows(w) = used
        /\ Owed(w) = 0 /\ Taken(w) = 0 /\ poll[w].made = 0
        /\ \A i : Late(w, i) = 0
        /\ poll[w].step = "ready"
  <2> TAKE w \in Pollers
  <2>1. poll[w] = NoPoll
    BY <1>2
  <2>2. VisibleRows(w) = used
    BY <1>1, <2>1 DEF NoPoll, VisibleRows, Visible, QuotaTypeOK
  <2> QED BY <2>1, <2>2 DEF NoPoll, Owed, Taken, Late
<1>5. AllMade = 0
  <2>1. \A w \in Pollers : MadeBy[w] \in Nat /\ MadeBy[w] <= 0
    BY <1>4 DEF MadeBy
  <2>2. AllMade \in Nat /\ AllMade <= Cardinality(Pollers) * 0
    BY <2>1, TotalIsNat, TotalBound, QuotaConstants DEF AllMade
  <2>3. Cardinality(Pollers) \in Nat
    BY QuotaConstants, FS_CardinalityType
  <2> QED BY <2>2, <2>3
<1>6. HasRoom /\ NoPostsAhead /\ SomeAreFresh
  BY <1>2, <1>4, HoursOfInstants, QuotaConstants, QuotaInit
     DEF HasRoom, NoPostsAhead, SomeAreFresh, QuotaInit
<1>7. SeesItsPosts
  BY <1>3, <1>4 DEF SeesItsPosts
<1>8. PostsAddUp
  BY <1>2, <1>3, <1>5 DEF PostsAddUp, AllPosts
<1>9. RowsComeAfterPosts
  BY <1>3, <1>4, QuotaSetsAreFinite DEF RowsComeAfterPosts
<1>10. RowsKeepTheGuard
  BY <1>3, <1>4, QuotaSetsAreFinite, QuotaConstants DEF RowsKeepTheGuard
<1>11. QuotaOvershootIsBounded
  <2> SUFFICES ASSUME NEW i \in Instants
               PROVE  Span(i, (DayHours - 1) * Hour) <= Overrun
    BY DEF QuotaOvershootIsBounded, Overrun
  <2>1. Span(i, (DayHours - 1) * Hour) = 0
    BY <1>3 DEF Span
  <2> QED BY <1>1, <2>1, OverrunIsNat
<1> QED BY <1>1, <1>6, <1>7, <1>8, <1>9, <1>10, <1>11 DEF QuotaInv

LEMMA QuotaInvNext ==
  QuotaInv /\ [QuotaNext]_quotaVars => QuotaInv'
<1> SUFFICES ASSUME QuotaInv, [QuotaNext]_quotaVars
             PROVE  QuotaInv'
  OBVIOUS
<1>1. /\ QuotaTypeOK /\ HasRoom /\ NoPostsAhead /\ SomeAreFresh
      /\ SeesItsPosts /\ PostsAddUp /\ RowsComeAfterPosts /\ RowsKeepTheGuard
      /\ QuotaOvershootIsBounded
  BY DEF QuotaInv
<1>2. QuotaTypeOK'
  BY <1>1, QuotaTypesNext
<1>3. HasRoom' /\ NoPostsAhead' /\ SomeAreFresh'
  BY <1>1, HasRoomNext, NoPostsAheadNext, SomeAreFreshNext
<1>4. SeesItsPosts'
  BY <1>1, <1>2, SeesItsPostsNext
<1>5. PostsAddUp'
  BY <1>1, <1>2, PostsAddUpNext
<1>6. RowsComeAfterPosts'
  BY <1>1, <1>2, RowsComeAfterPostsNext
<1>7. RowsKeepTheGuard'
  BY <1>1, <1>2, RowsKeepTheGuardNext
<1>8. OpenSpansAreBounded'
  BY <1>2, <1>3, <1>4, <1>5, <1>6, <1>7, OpenSpans, PTL
<1>9. QuotaOvershootIsBounded'
  BY <1>1, <1>2, <1>8, OvershootNext
<1> QED BY <1>2, <1>3, <1>4, <1>5, <1>6, <1>7, <1>9 DEF QuotaInv

LEMMA QuotaInvariant ==
  QuotaSpec => []QuotaInv
BY QuotaInvInit, QuotaInvNext, PTL DEF QuotaSpec

\* The variables keep their types, and no poll posts more than its batch.
THEOREM QuotaTypes ==
  QuotaSpec => []QuotaTypeOK
<1>1. QuotaInv => QuotaTypeOK
  BY DEF QuotaInv
<1> QED BY <1>1, QuotaInvariant, PTL

\* Unless a poll commits after another one that it did not see, the rows, the
\* open polls and the lost posts add up to the posts that were made
\* (_increment_quota).
THEOREM CountsAreExact ==
  QuotaSpec => []SerialCountsAreExact
<1>1. QuotaInv => SerialCountsAreExact
  <2> SUFFICES ASSUME QuotaInv, ~raced
               PROVE  Missed = lost
    BY DEF SerialCountsAreExact
  <2>1. /\ AllPosts = Total(used, Hours) + AllMade + lost
        /\ Total(used, Hours) \in Nat /\ AllMade \in Nat /\ lost \in Nat
    BY QuotaSums DEF QuotaInv, PostsAddUp, QuotaTypeOK
  <2>2. Missed = AllPosts - (Total(used, Hours) + AllMade)
    BY DEF Missed, AllMade, MadeBy
  <2> QED BY <2>1, <2>2
<1> QED BY <1>1, QuotaInvariant, PTL

\* Whatever the workers, their batches and the limit: unless a poll commits after
\* another one that it did not see, in any DayHours - 1 hours no more is posted
\* than the guard, a batch for each other worker, and the lost posts
\* (_check_daily_quota).
THEOREM OvershootIsBounded ==
  QuotaSpec => []QuotaOvershootIsBounded
<1>1. QuotaInv => QuotaOvershootIsBounded
  BY DEF QuotaInv
<1> QED BY <1>1, QuotaInvariant, PTL

=============================================================================
