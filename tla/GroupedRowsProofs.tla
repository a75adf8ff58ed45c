------------------------- MODULE GroupedRowsProofs --------------------------
(***************************************************************************)
(* Grouping and aggregation, for every statement, every size of the blocks *)
(* and any cut of the rows by them: what is delivered are the groups of    *)
(* the rows, with the values that the functions mean, and all of them when *)
(* the end is reported.                                                    *)
(***************************************************************************)
EXTENDS RowOperatorsProofs

(***************************************************************************)
(* Sums over finite sets, as the folds of the community modules compute    *)
(* them: whatever element is chosen first.                                 *)
(***************************************************************************)
SumTo(w, S, f) ==
  f = [T \in SUBSET S |->
         IF T = {} THEN 0
         ELSE w[CHOOSE x \in T : TRUE] + f[T \ {CHOOSE x \in T : TRUE}]]
SumsOver(w, S) == CHOOSE f : SumTo(w, S, f)
SumOf(w, S) == SumsOver(w, S)[S]

LEMMA Removed ==
  ASSUME NEW T, IsFiniteSet(T), NEW n \in Nat, Cardinality(T) = n, NEW x \in T
  PROVE  /\ n # 0 /\ IsFiniteSet(T \ {x}) /\ Cardinality(T \ {x}) = n - 1
         /\ T = (T \ {x}) \cup {x} /\ x \notin T \ {x}
<1>1. IsFiniteSet(T \ {x}) /\ Cardinality(T \ {x}) = n - 1
  BY FS_RemoveElement
<1>2. n # 0
  BY FS_EmptySet
<1> QED
  BY <1>1, <1>2

LEMMA SumExists ==
  ASSUME NEW w, NEW S, IsFiniteSet(S)
  PROVE  \E f : SumTo(w, S, f)
<1> DEFINE D(n) == {T \in SUBSET S : Cardinality(T) <= n}
           first(T) == CHOOSE x \in T : TRUE
           step(g, T) == IF T = {} THEN 0 ELSE w[first(T)] + g[T \ {first(T)}]
           I == {n \in Nat : \E f : f = [T \in D(n) |-> step(f, T)]}
<1>1. \A T \in SUBSET S : IsFiniteSet(T) /\ Cardinality(T) \in Nat /\ Cardinality(T) <= Cardinality(S)
  BY FS_Subset, FS_CardinalityType
<1>2. \A T : T # {} => first(T) \in T
  OBVIOUS
<1> HIDE DEF first
<1>3. 0 \in I
  <2> DEFINE f == [T \in D(0) |-> 0]
  <2>1. \A T \in D(0) : T = {}
    BY <1>1, FS_EmptySet
  <2>2. \A T \in D(0) : f[T] = step(f, T)
    BY <2>1
  <2>3. f = [T \in D(0) |-> step(f, T)]
    BY <2>1
  <2> QED
    BY <2>3
<1>4. ASSUME NEW n \in Nat, n \in I PROVE n + 1 \in I
  <2>1. PICK f : f = [T \in D(n) |-> step(f, T)]
    BY <1>4
  <2> DEFINE g == [T \in D(n + 1) |-> IF T \in D(n) THEN f[T] ELSE step(f, T)]
  <2>2. ASSUME NEW T \in D(n + 1) PROVE g[T] = step(g, T)
    <3>1. ASSUME T # {} PROVE T \ {first(T)} \in D(n) /\ T \ {first(T)} \in D(n + 1)
      <4>1. first(T) \in T /\ IsFiniteSet(T) /\ Cardinality(T) \in Nat /\ Cardinality(T) <= n + 1
        BY <1>1, <1>2, <3>1
      <4>2. Cardinality(T \ {first(T)}) = Cardinality(T) - 1 /\ Cardinality(T) # 0
        BY <4>1, Removed
      <4> QED
        BY <4>1, <4>2
    <3>2. step(g, T) = step(f, T)
      BY <3>1
    <3>3. T \in D(n) => f[T] = step(f, T)
      <4> HIDE DEF D, step
      <4> QED
        BY <2>1
    <3> HIDE DEF step
    <3> QED
      BY <3>2, <3>3
  <2>3. g = [T \in D(n + 1) |-> step(g, T)]
    <3>1. PICK h : h = g
      OBVIOUS
    <3>2. h = [T \in D(n + 1) |-> h[T]]
      BY <3>1
    <3> HIDE DEF g, step, D
    <3> QED
      BY <2>2, <3>1, <3>2
  <2> HIDE DEF g, step, D
  <2> QED
    BY <2>3
<1> HIDE DEF I
<1>5. Nat \subseteq I
  BY <1>3, <1>4, NatSetInduction
<1>6. PICK n \in Nat : n = Cardinality(S) /\ n \in I
  BY <1>5, FS_CardinalityType
<1>7. D(n) = SUBSET S
  BY <1>1, <1>6
<1>8. PICK f : f = [T \in D(n) |-> step(f, T)]
  BY <1>6 DEF I
<1>9. f = [T \in SUBSET S |-> step(f, T)]
  <2> HIDE DEF D, step
  <2> QED
    BY <1>7, <1>8
<1> QED
  BY <1>9 DEF SumTo, first

LEMMA SumIs ==
  ASSUME NEW w, NEW S, IsFiniteSet(S)
  PROVE  SumTo(w, S, SumsOver(w, S))
BY SumExists DEF SumsOver

(* It does not matter in which set a sum is taken.                         *)
LEMMA SumAgrees ==
  ASSUME NEW w, NEW S, NEW f, SumTo(w, S, f), NEW u, NEW U, NEW g, SumTo(u, U, g),
         NEW T, IsFiniteSet(T), T \subseteq S, T \subseteq U, \A x \in T : w[x] = u[x]
  PROVE  f[T] = g[T]
<1> DEFINE I == {n \in Nat : \A V \in SUBSET T : Cardinality(V) = n => f[V] = g[V]}
           first(V) == CHOOSE x \in V : TRUE
<1>1. \A V \in SUBSET T : IsFiniteSet(V) /\ Cardinality(V) \in Nat
  BY FS_Subset, FS_CardinalityType
<1>2. \A V \in SUBSET T :
        /\ f[V] = IF V = {} THEN 0 ELSE w[first(V)] + f[V \ {first(V)}]
        /\ g[V] = IF V = {} THEN 0 ELSE u[first(V)] + g[V \ {first(V)}]
  BY DEF SumTo
<1>3. \A V : V # {} => first(V) \in V
  OBVIOUS
<1> HIDE DEF first
<1>4. 0 \in I
  <2>1. \A V \in SUBSET T : Cardinality(V) = 0 => V = {}
    BY <1>1, FS_EmptySet
  <2> QED
    BY <1>2, <2>1
<1>5. ASSUME NEW n \in Nat, n \in I PROVE n + 1 \in I
  <2>1. ASSUME NEW V \in SUBSET T, Cardinality(V) = n + 1 PROVE f[V] = g[V]
    <3>1. V # {}
      BY <2>1, FS_EmptySet
    <3>2. first(V) \in V /\ V \ {first(V)} \in SUBSET T /\ w[first(V)] = u[first(V)]
      BY <1>3, <3>1
    <3>3. Cardinality(V \ {first(V)}) = (n + 1) - 1
      BY <1>1, <2>1, <3>2, Removed
    <3>4. f[V \ {first(V)}] = g[V \ {first(V)}]
      BY <1>5, <3>2, <3>3
    <3> QED
      BY <1>2, <3>1, <3>2, <3>4
  <2> QED
    BY <2>1
<1> HIDE DEF I
<1>6. Nat \subseteq I
  BY <1>4, <1>5, NatSetInduction
<1>7. Cardinality(T) \in I /\ T \in SUBSET T
  BY <1>1, <1>6
<1> QED
  BY <1>7 DEF I

LEMMA SumAnywhere ==
  ASSUME NEW w, NEW S, IsFiniteSet(S), NEW T \in SUBSET S
  PROVE  SumsOver(w, S)[T] = SumOf(w, T)
<1>1. IsFiniteSet(T)
  BY FS_Subset
<1>2. SumTo(w, S, SumsOver(w, S)) /\ SumTo(w, T, SumsOver(w, T))
  BY <1>1, SumIs
<1> QED
  BY <1>1, <1>2, SumAgrees DEF SumOf

LEMMA SumSame ==
  ASSUME NEW w, NEW u, NEW S, IsFiniteSet(S), \A x \in S : w[x] = u[x]
  PROVE  SumOf(w, S) = SumOf(u, S)
BY SumIs, SumAgrees DEF SumOf

(* Any element may be the first.                                           *)
LEMMA SumFirst ==
  ASSUME NEW S, IsFiniteSet(S), NEW w, \A x \in S : w[x] \in Int
  PROVE  /\ SumOf(w, {}) = 0
         /\ SumOf(w, S) \in Int
         /\ \A x \in S : SumOf(w, S) = SumOf(w, S \ {x}) + w[x]
<1>1. \A T \in SUBSET S : IsFiniteSet(T) /\ Cardinality(T) \in Nat
  BY FS_Subset, FS_CardinalityType
<1>2. PICK f : f = SumsOver(w, S) /\ SumTo(w, S, f)
  BY SumIs
<1> DEFINE first(T) == CHOOSE x \in T : TRUE
           I == {n \in Nat : \A T \in SUBSET S : Cardinality(T) <= n =>
                  f[T] \in Int /\ \A x \in T : f[T] = f[T \ {x}] + w[x]}
<1>3. \A T \in SUBSET S : f[T] = IF T = {} THEN 0 ELSE w[first(T)] + f[T \ {first(T)}]
  BY <1>2 DEF SumTo
<1>4. \A T : T # {} => first(T) \in T
  OBVIOUS
<1> HIDE DEF first
<1>5. 0 \in I
  <2>1. ASSUME NEW T \in SUBSET S, Cardinality(T) <= 0
        PROVE  f[T] = 0 /\ T = {}
    <3>1. T = {}
      BY <1>1, <2>1, FS_EmptySet
    <3> QED
      BY <1>3, <3>1
  <2>2. \A T \in SUBSET S : Cardinality(T) <= 0 =>
          f[T] \in Int /\ \A x \in T : f[T] = f[T \ {x}] + w[x]
    BY <2>1
  <2> QED
    BY <2>2
<1>6. ASSUME NEW n \in Nat, n \in I PROVE n + 1 \in I
  <2>1. ASSUME NEW T \in SUBSET S, Cardinality(T) = n + 1
        PROVE  f[T] \in Int /\ \A x \in T : f[T] = f[T \ {x}] + w[x]
    <3>1. T # {}
      BY <2>1, FS_EmptySet
    <3>2. \A x \in T : T \ {x} \in SUBSET S /\ Cardinality(T \ {x}) = n /\ w[x] \in Int
      <4>1. ASSUME NEW x \in T PROVE Cardinality(T \ {x}) = (n + 1) - 1
        BY <1>1, <2>1, Removed
      <4> QED
        BY <4>1
    <3>3. \A V \in SUBSET S : Cardinality(V) <= n =>
            f[V] \in Int /\ \A x \in V : f[V] = f[V \ {x}] + w[x]
      BY <1>6
    <3>4. PICK c \in T : f[T] = w[c] + f[T \ {c}]
      BY <1>3, <1>4, <3>1
    <3>5. ASSUME NEW x \in T, x # c PROVE f[T] = f[T \ {x}] + w[x]
      <4>1. PICK V, U, W : V = T \ {c} /\ U = T \ {x} /\ W = T \ {c, x}
        OBVIOUS
      <4>2. /\ x \in V /\ c \in U /\ V \ {x} = W /\ U \ {c} = W
            /\ V \in SUBSET S /\ U \in SUBSET S /\ W \in SUBSET S
        BY <3>5, <4>1
      <4>3. Cardinality(V) = n /\ Cardinality(U) = n /\ Cardinality(W) <= n
        <5>1. Cardinality(V) = n /\ Cardinality(U) = n
          BY <3>2, <4>1
        <5>2. Cardinality(W) = n - 1
          BY <1>1, <4>2, <5>1, Removed
        <5> QED
          BY <5>1, <5>2
      <4>4. f[W] \in Int /\ f[V] = f[W] + w[x] /\ f[U] = f[W] + w[c]
        BY <3>3, <4>2, <4>3
      <4>5. f[T] = w[c] + f[V]
        BY <3>4, <4>1
      <4>6. w[x] \in Int /\ w[c] \in Int
        BY <3>2
      <4>7. f[T] = f[U] + w[x]
        BY <4>4, <4>5, <4>6
      <4> QED
        BY <4>1, <4>7
    <3>6. f[T \ {c}] \in Int
      <4>1. T \ {c} \in SUBSET S /\ Cardinality(T \ {c}) <= n
        BY <1>6, <3>2, <3>4
      <4> QED
        BY <3>3, <4>1
    <3>7. f[T] \in Int
      BY <3>2, <3>4, <3>6
    <3>8. f[T] = f[T \ {c}] + w[c]
      BY <3>2, <3>4, <3>6
    <3> QED
      BY <3>5, <3>7, <3>8
  <2>2. ASSUME NEW T \in SUBSET S, Cardinality(T) <= n + 1
        PROVE  Cardinality(T) <= n \/ Cardinality(T) = n + 1
    BY <1>1, <2>2
  <2> QED
    BY <1>6, <2>1, <2>2
<1> HIDE DEF I
<1>7. Nat \subseteq I
  BY <1>5, <1>6, NatSetInduction
<1>8. Cardinality(S) \in I /\ S \in SUBSET S
  BY <1>1, <1>7
<1>9. f[S] \in Int /\ \A x \in S : f[S] = f[S \ {x}] + w[x]
  BY <1>8 DEF I
<1>10. \A T \in SUBSET S : f[T] = SumOf(w, T)
  BY <1>2, SumAnywhere
<1>11. f[{}] = 0
  BY <1>3
<1> QED
  BY <1>9, <1>10, <1>11

LEMMA SumAdds ==
  ASSUME NEW S, IsFiniteSet(S), NEW w, \A y \in S : w[y] \in Int, NEW x, x \notin S,
         w[x] \in Int
  PROVE  SumOf(w, S \cup {x}) = SumOf(w, S) + w[x]
<1>1. PICK T : T = S \cup {x} /\ x \in T /\ T \ {x} = S
  <2>1. (S \cup {x}) \ {x} = S
    OBVIOUS
  <2> QED
    BY <2>1
<1>2. IsFiniteSet(T) /\ \A y \in T : w[y] \in Int
  BY <1>1, FS_AddElement
<1>3. SumOf(w, T) = SumOf(w, T \ {x}) + w[x]
  BY <1>1, <1>2, SumFirst
<1> QED
  BY <1>1, <1>3
-----------------------------------------------------------------------------
(***************************************************************************)
(* The functions: what an accumulator of a function has become after it    *)
(* was stepped over the values v[r] of the rows r of S, in any order.      *)
(***************************************************************************)
KnownOf(v, S) == {r \in S : ~ v[r].null}
NumbersOf(v) == [r \in DOMAIN v |-> v[r].n]

Counts(a, v, S) ==
  /\ a.function = "COUNT_STAR" => ~ a.value.null /\ a.value.n = Cardinality(S)
  /\ a.function = "COUNT" /\ KnownOf(v, S) # {} => a.value.n = Cardinality(KnownOf(v, S))
Sums(a, v, S) ==
  /\ a.function \in {"SUM", "AVG"} /\ KnownOf(v, S) # {} =>
       a.value.n = SumOf(NumbersOf(v), KnownOf(v, S))
  /\ a.function = "AVG" => a.count = Cardinality(KnownOf(v, S))
Picks(a, v, S) ==
  a.function \in {"MIN", "MAX", "ARBITRARY"} /\ KnownOf(v, S) # {} =>
    /\ \E r \in KnownOf(v, S) : a.value.n = v[r].n
    /\ a.function = "MIN" => \A r \in KnownOf(v, S) : a.value.n <= v[r].n
    /\ a.function = "MAX" => \A r \in KnownOf(v, S) : v[r].n <= a.value.n
Passes(a, v, S) ==
  a.function = "PATHTHROUGH" =>
    IF S = {} THEN a.value.type = "NONE" ELSE \E r \in S : a.value = v[r]
NullIfNone(a, v, S) ==
  a.function \notin {"COUNT_STAR", "PATHTHROUGH"} => (a.value.null <=> KnownOf(v, S) = {})
PointsInto(a, v, S) ==
  a.origin # 0 =>
    a.function \in {"MIN", "MAX"} /\ a.origin \in S /\ a.value = v[a.origin]
SizeOfSome(a, v, S) == a.value.size = 1 \/ \E r \in S : a.value.size = v[r].size
Reflects(a, function, v, S) ==
  /\ a \in Accumulators /\ a.function = function
  /\ Counts(a, v, S) /\ Sums(a, v, S) /\ Picks(a, v, S) /\ Passes(a, v, S)
  /\ NullIfNone(a, v, S) /\ PointsInto(a, v, S) /\ SizeOfSome(a, v, S)

(* As it begins.                                                           *)
LEMMA ReflectsNone ==
  ASSUME NEW f \in FunctionsOn(Columns), NEW v
  PROVE  Reflects(Begun(f), f.function, v, {})
<1>1. Begun(f) \in Accumulators
  BY DEF Begun, Accumulators, CellValues, FunctionsOn, FunctionNames,
    NullOf, IntValue, ValueTypes
<1>2. KnownOf(v, {}) = {} /\ Cardinality({}) = 0
  BY FS_EmptySet DEF KnownOf
<1>3. PICK a : a = Begun(f)
  OBVIOUS
<1>4. /\ a.function = f.function /\ a.count = 0 /\ a.origin = 0 /\ a.value.size = 1
      /\ f.function = "COUNT_STAR" => ~ a.value.null /\ a.value.n = 0
      /\ f.function # "COUNT_STAR" => a.value.null
      /\ f.function = "PATHTHROUGH" => a.value.type = "NONE"
  BY <1>3 DEF Begun, FunctionsOn, FunctionNames, NullOf, IntValue
<1> QED
  BY <1>1, <1>2, <1>3, <1>4 DEF Reflects, Counts, Sums, Picks, Passes, NullIfNone, PointsInto,
    SizeOfSome

(* The values of one row more.                                             *)
LEMMA KnownMore ==
  ASSUME NEW S, NEW r, NEW v
  PROVE  KnownOf(v, S \cup {r}) = IF v[r].null THEN KnownOf(v, S) ELSE KnownOf(v, S) \cup {r}
BY DEF KnownOf

LEMMA ReflectsMore ==
  ASSUME NEW S \in SUBSET RowNumbers, IsFiniteSet(S), NEW r \in RowNumbers, r \notin S,
         NEW v \in [RowNumbers -> CellValues], NEW function, NEW a,
         RowNumbers \subseteq Nat \ {0},
         Reflects(a, function, v, S)
  PROVE  Reflects(Step(a, v[r], r), function, v, S \cup {r})
<1> DEFINE b == Step(a, v[r], r)
           K == KnownOf(v, S)
           L == KnownOf(v, S \cup {r})
<1>1. a \in Accumulators /\ a.function = function /\ function \in FunctionNames
  BY DEF Reflects, Accumulators
<1>2. b \in Accumulators
  BY <1>1, StepTypes
<1>3. /\ v[r] \in CellValues /\ v[r].n \in Int /\ v[r].null \in BOOLEAN /\ r \in Nat \ {0}
      /\ a.value \in CellValues /\ a.value.n \in Int /\ a.count \in Nat /\ a.value.null \in BOOLEAN
  BY <1>1 DEF CellValues, Accumulators
<1>4. /\ Cardinality(S \cup {r}) = Cardinality(S) + 1 /\ Cardinality(S) \in Nat
      /\ IsFiniteSet(K) /\ Cardinality(K) \in Nat /\ r \notin K /\ K \subseteq S
      /\ Cardinality(K \cup {r}) = Cardinality(K) + 1
  <2>1. K \in SUBSET S
    BY DEF KnownOf
  <2>2. IsFiniteSet(K)
    BY <2>1, FS_Subset
  <2> QED
    BY <2>1, <2>2, FS_AddElement, FS_CardinalityType
<1>5. SumOf(NumbersOf(v), K \cup {r}) = SumOf(NumbersOf(v), K) + v[r].n
  <2>1. PICK w : w = NumbersOf(v)
    OBVIOUS
  <2>2. \A s \in RowNumbers : w[s] = v[s].n /\ w[s] \in Int
    BY <2>1 DEF NumbersOf, CellValues
  <2>3. (\A s \in K : w[s] \in Int) /\ w[r] \in Int /\ w[r] = v[r].n
    BY <1>4, <2>2
  <2>4. PICK k : k = K
    OBVIOUS
  <2>5. IsFiniteSet(k) /\ r \notin k /\ \A s \in k : w[s] \in Int
    BY <1>4, <2>3, <2>4
  <2>6. SumOf(w, k \cup {r}) = SumOf(w, k) + w[r]
    BY <2>3, <2>5, SumAdds
  <2> QED
    BY <2>1, <2>3, <2>4, <2>6
<1>6. NumbersOf(v) = [s \in RowNumbers |-> v[s].n]
  BY DEF NumbersOf
<1>7. L = IF v[r].null THEN K ELSE K \cup {r}
  BY KnownMore
<1>8. K = {} => SumOf(NumbersOf(v), K) = 0 /\ Cardinality(K) = 0
  <2>1. SumOf(NumbersOf(v), {}) = 0
    <3>1. \A y \in {} : NumbersOf(v)[y] \in Int
      OBVIOUS
    <3> QED
      BY <3>1, FS_EmptySet, SumFirst
  <2> QED
    BY <2>1, FS_EmptySet
<1>9. K # {} => Cardinality(K) # 0
  BY <1>4, FS_EmptySet
<1>10. /\ Counts(a, v, S) /\ Sums(a, v, S) /\ Picks(a, v, S) /\ Passes(a, v, S)
       /\ NullIfNone(a, v, S) /\ PointsInto(a, v, S) /\ SizeOfSome(a, v, S)
  BY DEF Reflects
<1>11. ASSUME b.function = function, SizeOfSome(b, v, S \cup {r}), b.origin = 0
       PROVE  PointsInto(b, v, S \cup {r}) /\ SizeOfSome(b, v, S \cup {r}) /\ b.function = function
  BY <1>11 DEF PointsInto
<1> HIDE DEF b, K, L
<1>12. CASE function = "COUNT_STAR"
  <2>1. b = [a EXCEPT !.value = Plus(@, IntValue(1))]
    BY <1>1, <1>12 DEF b, Step, RowCountStep
  <2>2. /\ b.value.n = a.value.n + 1 /\ b.value.null = a.value.null /\ b.value.size = a.value.size
        /\ b.origin = a.origin /\ b.function = a.function
    BY <1>1, <1>3, <2>1 DEF Plus, IntValue, Accumulators, CellValues
  <2>3. a.origin = 0
    BY <1>1, <1>10, <1>12 DEF PointsInto
  <2> QED
    BY <1>1, <1>2, <1>4, <1>10, <1>12, <2>2, <2>3
    DEF Reflects, Counts, Sums, Picks, Passes, NullIfNone, PointsInto, SizeOfSome, b
<1>13. CASE function = "PATHTHROUGH"
  <2>1. b = IF a.value.type = "NONE" THEN [a EXCEPT !.value = v[r], !.origin = 0] ELSE a
    BY <1>1, <1>13 DEF b, Step, PaththroughStep, Keep
  <2>2. a.origin = 0
    BY <1>1, <1>10, <1>13 DEF PointsInto
  <2>3. /\ b.function = a.function /\ b.origin = 0
        /\ b.value = IF a.value.type = "NONE" THEN v[r] ELSE a.value
    BY <1>1, <2>1, <2>2 DEF Accumulators
  <2>4. \E s \in S \cup {r} : b.value = v[s]
    BY <1>1, <1>10, <1>13, <2>3 DEF Passes
  <2>5. Passes(b, v, S \cup {r}) /\ SizeOfSome(b, v, S \cup {r})
    BY <2>4 DEF Passes, SizeOfSome
  <2> QED
    BY <1>1, <1>2, <1>13, <2>3, <2>5
    DEF Reflects, Counts, Sums, Picks, NullIfNone, PointsInto, b
<1>14. CASE function \notin {"COUNT_STAR", "PATHTHROUGH"} /\ v[r].null
  <2>1. b = a
    BY <1>1, <1>14 DEF b, Step
  <2>2. L = K
    BY <1>7, <1>14
  <2> QED
    BY <1>1, <1>2, <1>10, <1>14, <2>1, <2>2
    DEF Reflects, Counts, Sums, Picks, Passes, NullIfNone, PointsInto, SizeOfSome, b, K, L
<1>15. CASE function \notin {"COUNT_STAR", "PATHTHROUGH"} /\ ~ v[r].null
  <2>1. b = StepKnown(a, v[r], r)
    BY <1>1, <1>15 DEF b, Step
  <2>2. L = K \cup {r} /\ L # {} /\ (a.value.null <=> K = {})
    BY <1>1, <1>7, <1>10, <1>15 DEF NullIfNone, K
  <2>3. CASE function \in {"COUNT", "SUM", "AVG"}
    <3>1. PICK w \in CellValues :
            /\ w = IF function = "COUNT" THEN IntValue(1) ELSE v[r]
            /\ w.n = (IF function = "COUNT" THEN 1 ELSE v[r].n) /\ ~ w.null
            /\ w.size = (IF function = "COUNT" THEN 1 ELSE v[r].size)
      <4>1. IntValue(1) \in CellValues /\ IntValue(1).n = 1 /\ ~ IntValue(1).null /\ IntValue(1).size = 1
        BY DEF IntValue, CellValues, ValueTypes
      <4> QED
        BY <1>3, <1>15, <4>1
    <3>2. PICK c \in Accumulators : c = Summed(a, w)
          /\ c.function = a.function /\ c.count = a.count /\ c.origin = 0
          /\ c.value.n = (IF a.value.null THEN w.n ELSE a.value.n + w.n) /\ ~ c.value.null
          /\ c.value.size = (IF a.value.null THEN w.size ELSE a.value.size)
      <4>1. a.origin = 0
        BY <1>1, <1>10, <2>3 DEF PointsInto
      <4>2. a.value.null => Summed(a, w) = [a EXCEPT !.value = w, !.origin = 0]
        BY DEF Summed, Keep
      <4>3. ~ a.value.null => Summed(a, w) = [a EXCEPT !.value = Plus(a.value, w)]
        BY <1>1 DEF Summed, Accumulators
      <4>4. CASE a.value.null
        <5>1. [a EXCEPT !.value = w, !.origin = 0] \in Accumulators
          BY <1>1, <3>1 DEF Accumulators
        <5>2. PICK c : c = [a EXCEPT !.value = w, !.origin = 0]
          OBVIOUS
        <5>3. /\ c.function = a.function /\ c.count = a.count /\ c.origin = 0 /\ c.value = w
          BY <1>1, <5>2 DEF Accumulators
        <5>4. c = Summed(a, w) /\ c \in Accumulators
          BY <4>2, <4>4, <5>1, <5>2
        <5>5. /\ c.value.n = (IF a.value.null THEN w.n ELSE a.value.n + w.n) /\ ~ c.value.null
              /\ c.value.size = (IF a.value.null THEN w.size ELSE a.value.size)
          BY <3>1, <4>4, <5>3
        <5> QED
          BY <5>3, <5>4, <5>5
      <4>5. CASE ~ a.value.null
        <5>1. PICK q : q = Plus(a.value, w)
          OBVIOUS
        <5>2. /\ q \in CellValues /\ q.n = a.value.n + w.n /\ q.null = a.value.null
              /\ q.size = a.value.size
          <6>1. PICK x \in CellValues : x = a.value
            BY <1>3
          <6>2. q = [x EXCEPT !.n = x.n + w.n]
            BY <5>1, <6>1 DEF Plus, CellValues
          <6>3. x.n + w.n \in Int
            BY <3>1, <6>1 DEF CellValues
          <6> QED
            BY <6>1, <6>2, <6>3 DEF CellValues
        <5>3. [a EXCEPT !.value = q] \in Accumulators
          BY <1>1, <5>2 DEF Accumulators
        <5>4. PICK c : c = [a EXCEPT !.value = q]
          OBVIOUS
        <5>5. /\ c.function = a.function /\ c.count = a.count /\ c.origin = a.origin /\ c.value = q
          BY <1>1, <5>4 DEF Accumulators
        <5> QED
          BY <4>1, <4>3, <4>5, <5>1, <5>2, <5>3, <5>4, <5>5
      <4> QED
        BY <4>4, <4>5
    <3>3. b = IF function = "AVG" THEN [c EXCEPT !.count = @ + 1] ELSE c
      BY <1>1, <2>1, <2>3, <3>1, <3>2 DEF StepKnown, CountStep, AvgStep
    <3>4. /\ b.function = function /\ b.origin = 0 /\ b.value = c.value
          /\ function = "AVG" => b.count = a.count + 1
      BY <1>1, <3>2, <3>3 DEF Accumulators
    <3>5. Counts(b, v, S \cup {r})
      <4>1. CASE function # "COUNT"
        BY <2>3, <3>4, <4>1 DEF Counts
      <4>2. CASE function = "COUNT"
        <5>1. Cardinality(L) = Cardinality(K) + 1
          BY <1>4, <2>2
        <5>2. K = {} => b.value.n = 1 /\ Cardinality(K) = 0
          BY <1>8, <2>2, <3>1, <3>2, <3>4, <4>2
        <5>3. K # {} => b.value.n = a.value.n + 1
          BY <2>2, <3>1, <3>2, <3>4, <4>2
        <5>4. K # {} => a.value.n = Cardinality(K)
          BY <1>1, <1>10, <4>2 DEF Counts, K
        <5>5. b.value.n = Cardinality(L)
          BY <1>4, <5>1, <5>2, <5>3, <5>4
        <5> QED
          BY <3>4, <4>2, <5>5 DEF Counts, L
      <4> QED
        BY <4>1, <4>2
    <3>6. Sums(b, v, S \cup {r})
      <4>1. function \in {"SUM", "AVG"} => b.value.n = SumOf(NumbersOf(v), K \cup {r})
        <5>1. CASE K = {}
          BY <1>3, <1>5, <1>8, <2>2, <3>1, <3>2, <3>4, <5>1
        <5>2. CASE K # {}
          BY <1>1, <1>3, <1>5, <1>10, <2>2, <3>1, <3>2, <3>4, <5>2 DEF Sums, K
        <5> QED
          BY <5>1, <5>2
      <4>2. function = "AVG" => b.count = Cardinality(K \cup {r})
        BY <1>1, <1>4, <1>10, <3>4 DEF Sums, K
      <4> QED
        BY <2>2, <3>4, <4>1, <4>2 DEF Sums, L
    <3>7. SizeOfSome(b, v, S \cup {r})
      BY <1>10, <3>1, <3>2, <3>4 DEF SizeOfSome
    <3> QED
      BY <1>2, <2>2, <2>3, <3>2, <3>4, <3>5, <3>6, <3>7
      DEF Reflects, Picks, Passes, NullIfNone, PointsInto, b, L
  <2>4. CASE function = "ARBITRARY"
    <3>1. b = IF a.value.null THEN [a EXCEPT !.value = v[r], !.origin = 0] ELSE a
      BY <1>1, <2>1, <2>4 DEF StepKnown, ArbitraryStep, Keep
    <3>2. a.origin = 0
      BY <1>1, <1>10, <2>4 DEF PointsInto
    <3>3. /\ b.function = function /\ b.origin = 0
          /\ b.value = IF a.value.null THEN v[r] ELSE a.value
      BY <1>1, <3>1, <3>2 DEF Accumulators
    <3>4. SizeOfSome(b, v, S \cup {r})
      BY <1>10, <3>3 DEF SizeOfSome
    <3>5. Picks(b, v, S \cup {r})
      <4>1. \E s \in K \cup {r} : b.value.n = v[s].n
        BY <1>1, <1>10, <2>2, <2>4, <3>3 DEF Picks, K
      <4> QED
        BY <2>2, <2>4, <3>3, <4>1 DEF Picks, L
    <3>6. ~ b.value.null
      BY <1>15, <3>3
    <3> QED
      BY <1>2, <2>2, <2>4, <3>3, <3>4, <3>5, <3>6
      DEF Reflects, Counts, Sums, Passes, NullIfNone, PointsInto, b, L
  <2>5. CASE function \in {"MIN", "MAX"}
    <3> DEFINE better == IF function = "MIN" THEN v[r].n < a.value.n ELSE a.value.n < v[r].n
    <3>1. b = Best(a, v[r], r, better)
      BY <1>1, <2>1, <2>5 DEF StepKnown, MinStep, MaxStep, Smaller
    <3>2. \/ a.value.null /\ b = [a EXCEPT !.value = v[r], !.origin = r]
          \/ ~ a.value.null /\ better
               /\ b = [[a EXCEPT !.value = v[r], !.origin = r] EXCEPT !.origin = 0]
          \/ ~ a.value.null /\ ~ better /\ b = a
      BY <3>1 DEF Best, Keep, Disconnected
    <3>3. /\ b.function = function
          /\ \/ a.value.null /\ b.value = v[r] /\ b.origin = r
             \/ ~ a.value.null /\ better /\ b.value = v[r] /\ b.origin = 0
             \/ ~ a.value.null /\ ~ better /\ b.value = a.value /\ b.origin = a.origin
      BY <1>1, <3>2 DEF Accumulators
    <3>4. SizeOfSome(b, v, S \cup {r}) /\ PointsInto(b, v, S \cup {r})
      BY <1>1, <1>10, <2>5, <3>3 DEF SizeOfSome, PointsInto
    <3>5. Picks(b, v, S \cup {r})
      <4>1. \E s \in K \cup {r} : b.value.n = v[s].n
        BY <1>1, <1>10, <2>2, <2>5, <3>3 DEF Picks, K
      <4>2. \A s \in K : v[s].n \in Int
        BY <1>4 DEF CellValues
      <4>3. ~ a.value.null => /\ function = "MIN" => \A s \in K : a.value.n <= v[s].n
                              /\ function = "MAX" => \A s \in K : v[s].n <= a.value.n
        BY <1>1, <1>10, <2>2, <2>5 DEF Picks, K
      <4>4. function = "MIN" => \A s \in K \cup {r} : b.value.n <= v[s].n
        BY <1>3, <2>2, <2>5, <3>3, <4>2, <4>3
      <4>5. function = "MAX" => \A s \in K \cup {r} : v[s].n <= b.value.n
        BY <1>3, <2>2, <2>5, <3>3, <4>2, <4>3
      <4> QED
        BY <2>2, <2>5, <3>3, <4>1, <4>4, <4>5 DEF Picks, L
    <3>6. ~ b.value.null
      BY <1>15, <3>3
    <3> QED
      BY <1>2, <2>2, <2>5, <3>3, <3>4, <3>5, <3>6
      DEF Reflects, Counts, Sums, Passes, NullIfNone, b, L
  <2> QED
    BY <1>1, <1>15, <2>3, <2>4, <2>5 DEF FunctionNames
<1> QED
  BY <1>3, <1>12, <1>13, <1>14, <1>15 DEF b

(* The sum that the functions mean.                                        *)
TotalOf(v, S) == MapThenSumSet(LAMBDA r : v[r].n, S)
TotalTo(v, S, f) ==
  f = [T \in SUBSET S |->
         IF T = {} THEN 0
         ELSE v[CHOOSE x \in T : TRUE].n + f[T \ {CHOOSE x \in T : TRUE}]]
LEMMA TotalIsSum ==
  ASSUME NEW v, NEW S, IsFiniteSet(S), NEW w, \A r \in S : w[r] = v[r].n
  PROVE  TotalOf(v, S) = SumOf(w, S)
<1>1. TotalOf(v, S) = (CHOOSE f : TotalTo(v, S, f))[S]
  BY DEF TotalOf, TotalTo, MapThenSumSet, MapThenFoldSet
<1>2. ASSUME NEW f PROVE TotalTo(v, S, f) <=> SumTo(w, S, f)
  <2>1. \A T \in SUBSET S : T # {} => v[CHOOSE x \in T : TRUE].n = w[CHOOSE x \in T : TRUE]
    OBVIOUS
  <2>2. [T \in SUBSET S |->
           IF T = {} THEN 0
           ELSE v[CHOOSE x \in T : TRUE].n + f[T \ {CHOOSE x \in T : TRUE}]]
        = [T \in SUBSET S |->
           IF T = {} THEN 0
           ELSE w[CHOOSE x \in T : TRUE] + f[T \ {CHOOSE x \in T : TRUE}]]
    BY <2>1
  <2> QED
    BY <2>2 DEF TotalTo, SumTo
<1>3. PICK g : g = (CHOOSE f : TotalTo(v, S, f))
  OBVIOUS
<1>4. SumTo(w, S, g)
  BY <1>2, <1>3, SumExists
<1>5. SumTo(w, S, SumsOver(w, S))
  BY SumIs
<1>6. g[S] = SumsOver(w, S)[S]
  BY <1>4, <1>5, SumAgrees
<1> QED
  BY <1>1, <1>3, <1>6 DEF SumOf

(***************************************************************************)
(* What an accumulator that reflects the rows of a group is at the end is  *)
(* what its function means of them.                                        *)
(***************************************************************************)
LEMMA FinalizedExplained ==
  ASSUME NEW S \in SUBSET RowNumbers, IsFiniteSet(S), NEW v \in [RowNumbers -> CellValues],
         NEW function, NEW a, Reflects(a, function, v, S),
         function = "PATHTHROUGH" => S # {} /\ \A r \in S : v[r].null => S = {r},
         NEW w, w = [r \in S |-> v[r]]
  PROVE  IF Finalized(a).null
         THEN Meant(function, S, w) = {} \/ (function = "COUNT" /\ Meant(function, S, w) = {0})
         ELSE Finalized(a).n \in Meant(function, S, w)
<1> DEFINE K == KnownOf(v, S)
           all == {v[r].n : r \in K}
           meant == Meant(function, S, w)
<1>1. a \in Accumulators /\ a.function = function /\ function \in FunctionNames
  BY DEF Reflects, Accumulators
<1>2. K \in SUBSET S /\ IsFiniteSet(K) /\ Cardinality(K) \in Nat /\ (K = {} <=> Cardinality(K) = 0)
  <2>1. K \in SUBSET S
    BY DEF KnownOf
  <2>2. IsFiniteSet(K)
    BY <2>1, FS_Subset
  <2> QED
    BY <2>1, <2>2, FS_EmptySet, FS_CardinalityType
<1>3. {r \in S : ~ w[r].null} = K /\ {w[r].n : r \in K} = all
  BY <1>2 DEF KnownOf
<1>4. TotalOf(w, K) = SumOf(NumbersOf(v), K)
  <2>1. PICK k, n : k = K /\ n = NumbersOf(v)
    OBVIOUS
  <2>2. \A r \in k : n[r] = w[r].n
    BY <1>2, <2>1 DEF NumbersOf
  <2>3. IsFiniteSet(k)
    BY <1>2, <2>1
  <2>4. TotalOf(w, k) = SumOf(n, k)
    BY <2>2, <2>3, TotalIsSum
  <2> QED
    BY <2>1, <2>4
<1>5. /\ function = "COUNT_STAR" => meant = {Cardinality(S)}
      /\ function = "COUNT" => meant = {Cardinality(K)}
      /\ function \in {"ARBITRARY", "PATHTHROUGH"} => meant = all
      /\ function = "MIN" => meant = {n \in all : \A m \in all : n <= m}
      /\ function = "MAX" => meant = {n \in all : \A m \in all : m <= n}
  BY <1>3 DEF Meant
<1>6. /\ function = "SUM" => meant = IF K = {} THEN {} ELSE {TotalOf(w, K)}
      /\ function = "AVG" => meant = IF K = {} THEN {} ELSE {TotalOf(w, K) \div Cardinality(K)}
  BY <1>3 DEF Meant, TotalOf
<1>7. /\ Counts(a, v, S) /\ Sums(a, v, S) /\ Picks(a, v, S) /\ Passes(a, v, S)
      /\ NullIfNone(a, v, S)
  BY DEF Reflects
<1>8. function # "AVG" => Finalized(a) = a.value
  BY <1>1 DEF Finalized
<1> HIDE DEF K, meant
<1>9. CASE function = "COUNT_STAR"
  BY <1>1, <1>5, <1>7, <1>8, <1>9 DEF Counts, meant
<1>10. CASE function = "COUNT"
  BY <1>1, <1>2, <1>5, <1>7, <1>8, <1>10 DEF Counts, NullIfNone, meant, K
<1>11. CASE function = "PATHTHROUGH"
  <2>1. PICK r \in S : a.value = v[r]
    BY <1>1, <1>7, <1>11 DEF Passes
  <2>2. CASE v[r].null
    <3>1. K = {}
      BY <1>11, <2>2 DEF K, KnownOf
    <3> QED
      BY <1>5, <1>8, <1>11, <2>1, <2>2, <3>1 DEF meant
  <2>3. CASE ~ v[r].null
    <3>1. r \in K
      BY <2>3 DEF K, KnownOf
    <3> QED
      BY <1>5, <1>8, <1>11, <2>1, <2>3, <3>1 DEF meant
  <2> QED
    BY <2>2, <2>3
<1>12. CASE function = "ARBITRARY"
  <2>1. CASE K = {}
    BY <1>1, <1>5, <1>7, <1>8, <1>12, <2>1 DEF NullIfNone, meant, K
  <2>2. CASE K # {}
    BY <1>1, <1>5, <1>7, <1>8, <1>12, <2>2 DEF NullIfNone, Picks, meant, K
  <2> QED
    BY <2>1, <2>2
<1>13. CASE function \in {"MIN", "MAX"}
  <2>1. CASE K = {}
    BY <1>1, <1>5, <1>7, <1>8, <1>13, <2>1 DEF NullIfNone, meant, K
  <2>2. CASE K # {}
    <3>1. ~ a.value.null /\ a.value.n \in all
      BY <1>1, <1>7, <1>13, <2>2 DEF NullIfNone, Picks, K
    <3>2. function = "MIN" => \A m \in all : a.value.n <= m
      BY <1>1, <1>7, <2>2 DEF Picks, K
    <3>3. function = "MAX" => \A m \in all : m <= a.value.n
      BY <1>1, <1>7, <2>2 DEF Picks, K
    <3> QED
      BY <1>5, <1>8, <1>13, <3>1, <3>2, <3>3 DEF meant
  <2> QED
    BY <2>1, <2>2
<1>14. CASE function = "SUM"
  BY <1>1, <1>4, <1>6, <1>7, <1>8, <1>14 DEF NullIfNone, Sums, meant, K
<1>15. CASE function = "AVG"
  <2>1. CASE K = {}
    BY <1>1, <1>6, <1>7, <1>15, <2>1 DEF NullIfNone, meant, K, Finalized
  <2>2. CASE K # {}
    <3>1. ~ a.value.null /\ a.value.n = SumOf(NumbersOf(v), K) /\ a.count = Cardinality(K)
      BY <1>1, <1>7, <1>15, <2>2 DEF NullIfNone, Sums, K
    <3>2. Finalized(a) = [a.value EXCEPT !.n = a.value.n \div a.count]
      <4> QED
        BY <1>1, <1>15, <3>1 DEF Finalized, Average, Accumulators, CellValues
    <3>3. ~ Finalized(a).null /\ Finalized(a).n = a.value.n \div a.count
      BY <1>1, <3>1, <3>2 DEF Accumulators, CellValues
    <3> QED
      BY <1>4, <1>6, <1>15, <2>2, <3>1, <3>3 DEF meant
  <2> QED
    BY <2>1, <2>2
<1> QED
  BY <1>1, <1>9, <1>10, <1>11, <1>12, <1>13, <1>14, <1>15 DEF FunctionNames

(* A result that fits into no block comes from a value that does not.      *)
LEMMA LostResult ==
  ASSUME NEW S \in SUBSET RowNumbers, NEW v \in [RowNumbers -> CellValues],
         NEW function, NEW a, Reflects(a, function, v, S)
  PROVE  /\ Finalized(a).size \in Nat
         /\ Lost(Finalized(a).size) => \E r \in S : Lost(v[r].size)
<1>1. a \in Accumulators /\ SizeOfSome(a, v, S)
  BY DEF Reflects
<1>2. Finalized(a).size = a.value.size /\ a.value.size \in Nat
  BY <1>1 DEF Finalized, Average, Accumulators, CellValues
<1>3. ~ Lost(1)
  BY FunctionsAssumption DEF Lost
<1> QED
  BY <1>1, <1>2, <1>3 DEF SizeOfSome
-----------------------------------------------------------------------------
(***************************************************************************)
(* Grouping and aggregation: the groups are the classes of the rows, and   *)
(* the functions of each have taken a step for each of its rows.           *)
(***************************************************************************)
ArgumentsOf(f) == [r \in RowNumbers |-> Argument(f, r)]
Mates(r, s) == SameKey(Key(r), Key(s))

(* The rows that belong to a group: all but the one that begins one.       *)
Gathered == {pulled[k] : k \in 1 .. (IF pc = "new" THEN Len(pulled) - 1 ELSE Len(pulled))}
GroupHolds(g, G) ==
  /\ groups[g].members \subseteq G /\ IsFiniteSet(groups[g].members)
  /\ Grouping => /\ \E m \in groups[g].members : groups[g].key = Key(m)
                 /\ \A r, s \in groups[g].members : r # s => Mates(r, s)
  /\ \A f \in DOMAIN Functions :
       Reflects(groups[g].functions[f], Functions[f].function, ArgumentsOf(f), groups[g].members)
GroupsHold(G) == \A g \in DOMAIN groups : GroupHolds(g, G)
GroupsApart ==
  \A g, h \in DOMAIN groups : g # h =>
    \A r \in groups[g].members, s \in groups[h].members : r # s /\ ~ Mates(r, s)
Covered(G) == \A r \in G : \E g \in DOMAIN groups : r \in groups[g].members

GatherStages ==
  /\ pc \in {"first", "functions"} => pulled = <<>> /\ groups = <<>>
  /\ Aggregating /\ groups # <<>> => Len(groups) = 1
  /\ Aggregating /\ outcome \in {"open", "eof"} /\ pc # "first" => groups # <<>>
  /\ pc = "new" =>
       Grouping /\ pulled # <<>> /\ \A g \in DOMAIN groups : ~ SameKey(groups[g].key, Key(Row))
  /\ pc \in {"spare", "write", "next"} \/ outcome = "eof" => in.ends = 1
GatherInv ==
  /\ GroupsHold(Gathered) /\ GroupsApart /\ GatherStages
  /\ outcome \in {"open", "eof"} /\ pc # "crashed" => Covered(Gathered)

(* What is undefined are MIN and MAX of strings in blocks given back.      *)
KeptReleasedString ==
  \E f \in DOMAIN Functions : \E r, s \in ToSet(pulled) :
    /\ Functions[f].function \in {"MIN", "MAX"}
    /\ Argument(f, r).type = "STRING" /\ Released(r, s)
KeptExplained == fault = "kept" => KeptReleasedString

LEMMA KeyPlaces ==
  ASSUME statement \in Statements, Grouping
  PROVE  /\ \A k \in DOMAIN statement.keys : statement.keys[k] \in Columns
         /\ \A r : DOMAIN Key(r) = DOMAIN statement.keys
         /\ \A r, s : Mates(r, s) <=>
              \A k \in DOMAIN statement.keys :
                LET v == Cell(r, statement.keys[k])
                    w == Cell(s, statement.keys[k])
                IN  ~ v.null /\ ~ w.null /\ v.n = w.n
<1>1. PICK T : T = Columns
  OBVIOUS
<1>2. statement.keys \in Seq(T)
  BY <1>1, StatementsAssumption DEF Grouping, ColumnsOf, Columns, Width
<1>3. \A k \in DOMAIN statement.keys : statement.keys[k] \in Columns
  BY <1>1, <1>2
<1> QED
  BY <1>3 DEF Mates, SameKey, Key

LEMMA MatesMeet ==
  ASSUME statement \in Statements, Grouping, NEW r, NEW s, NEW t
  PROVE  /\ Mates(r, s) => Mates(s, r)
         /\ Mates(r, s) /\ Mates(s, t) => Mates(r, t)
         /\ Mates(r, s) => Mates(r, r)
BY KeyPlaces

LEMMA FunctionArguments ==
  ASSUME statement \in Statements, Grouping \/ Aggregating
  PROVE  \A f \in DOMAIN Functions :
           /\ Functions[f] \in FunctionsOn(Columns)
           /\ ArgumentsOf(f) \in [RowNumbers -> CellValues]
           /\ \A r \in RowNumbers : ArgumentsOf(f)[r] = Argument(f, r)
<1>1. ASSUME NEW f \in DOMAIN Functions PROVE Functions[f] \in FunctionsOn(Columns)
  BY FunctionTypes
<1>2. ASSUME NEW f \in DOMAIN Functions, NEW r \in RowNumbers PROVE Argument(f, r) \in CellValues
  <2>1. Functions[f].column \in Columns
    BY <1>1 DEF FunctionsOn
  <2> QED
    BY <2>1, CellTypes DEF Argument
<1> QED
  BY <1>1, <1>2 DEF ArgumentsOf

LEMMA RowNumbersAreNumbers ==
  ASSUME statement \in Statements
  PROVE  RowNumbers \subseteq Nat \ {0} /\ IsFiniteSet(RowNumbers)
<1>1. Len(Rows) \in Nat
  BY StatementTypes
<1>2. PICK n \in Nat : n = Len(Rows)
  BY <1>1
<1>3. IsFiniteSet(1 .. n)
  BY FS_Interval
<1> QED
  BY <1>2, <1>3 DEF RowNumbers

(* The rows that were pulled, and one more.                                *)
LEMMA GatheredRows ==
  ASSUME InputTypes, InputInv
  PROVE  /\ Gathered \subseteq RowNumbers /\ IsFiniteSet(Gathered)
         /\ Gathered \subseteq {pulled[k] : k \in DOMAIN pulled}
         /\ pc # "new" => Gathered = {pulled[k] : k \in DOMAIN pulled}
         /\ pc = "new" /\ pulled # <<>> =>
              /\ Row \in RowNumbers /\ Row \notin Gathered
              /\ Gathered \cup {Row} = {pulled[k] : k \in DOMAIN pulled}
<1>1. PICK n \in Nat : n = Len(pulled) /\ DOMAIN pulled = 1 .. n
  BY DEF InputTypes
<1>2. \A k \in 1 .. n : pulled[k] \in RowNumbers
  BY <1>1 DEF InputTypes
<1>3. Gathered \subseteq {pulled[k] : k \in 1 .. n} /\ (pc # "new" => Gathered = {pulled[k] : k \in 1 .. n})
  BY <1>1 DEF Gathered
<1>4. ASSUME pc = "new", pulled # <<>>
      PROVE  /\ Row \in RowNumbers /\ Row \notin Gathered
             /\ Gathered \cup {Row} = {pulled[k] : k \in 1 .. n}
  <2>1. n # 0 /\ Row = pulled[n]
    BY <1>1, <1>4 DEF Row, Last, InputTypes
  <2>2. Gathered = {pulled[k] : k \in 1 .. n - 1}
    BY <1>1, <1>4 DEF Gathered
  <2>3. n \in 1 .. n /\ \A k \in 1 .. n - 1 : k \in 1 .. n /\ k # n
    BY <2>1
  <2>4. \A k \in 1 .. n - 1 : pulled[k] # pulled[n]
    BY <1>1, <2>3, PulledOnce DEF PulledApart
  <2>5. \A k \in 1 .. n : k = n \/ k \in 1 .. n - 1
    OBVIOUS
  <2> QED
    BY <1>2, <2>1, <2>2, <2>3, <2>4, <2>5
<1>5. IsFiniteSet(Gathered)
  <2>1. Gathered \subseteq RowNumbers
    BY <1>2, <1>3
  <2> QED
    BY <2>1, RowNumbersAreNumbers, FS_Subset DEF InputTypes
<1> QED
  BY <1>1, <1>2, <1>3, <1>4, <1>5

LEMMA GatheredAll ==
  InputTypes /\ InputInv /\ pc # "new" => Gathered = {pulled[k] : k \in DOMAIN pulled}
BY GatheredRows

LEMMA RowsAfterTake ==
  ASSUME InputTypes, InputInv, InputTypes', InputInv', TakeRow, UNCHANGED statement
  PROVE  /\ Pulled.row \in RowNumbers /\ Row' = Pulled.row /\ pulled' # <<>>
         /\ Pulled.row \notin {pulled[k] : k \in DOMAIN pulled}
         /\ {pulled'[k] : k \in DOMAIN pulled'} = {pulled[k] : k \in DOMAIN pulled} \cup {Pulled.row}
         /\ {pulled'[k] : k \in 1 .. Len(pulled') - 1} = {pulled[k] : k \in DOMAIN pulled}
<1>1. PICK row \in RowNumbers : row = Pulled.row /\ Row' = row /\ pulled' = Append(pulled, row)
  BY RowTaken DEF TakeRow
<1>2. PICK n \in Nat : n = Len(pulled) /\ DOMAIN pulled = 1 .. n /\ pulled \in Seq(RowNumbers)
  BY DEF InputTypes
<1>3. /\ Len(pulled') = n + 1 /\ DOMAIN pulled' = 1 .. n + 1 /\ pulled'[n + 1] = row
      /\ \A k \in 1 .. n : pulled'[k] = pulled[k]
  BY <1>1, <1>2
<1>4. \A j, k \in 1 .. n + 1 : pulled'[j] = pulled'[k] => j = k
  <2>1. PulledApart'
    BY PulledOnce, PTL
  <2> QED
    BY <1>3, <2>1 DEF PulledApart
<1>5. \A k \in 1 .. n : k \in 1 .. n + 1 /\ k # n + 1
  OBVIOUS
<1>6. n + 1 \in 1 .. n + 1 /\ \A k \in 1 .. n + 1 : k = n + 1 \/ k \in 1 .. n
  OBVIOUS
<1>7. (n + 1) - 1 = n /\ pulled' # <<>>
  BY <1>3
<1> QED
  BY <1>1, <1>2, <1>3, <1>4, <1>5, <1>6, <1>7

GroupPremise ==
  /\ TypeIInv /\ Keeping /\ InputInv /\ EndKnown /\ (Grouping \/ Aggregating)
  /\ TypeIInv' /\ InputInv' /\ UNCHANGED statement

LEMMA SameKeys ==
  ASSUME UNCHANGED statement
  PROVE  /\ RowNumbers' = RowNumbers /\ Functions' = Functions /\ Results' = Results
         /\ (Grouping' <=> Grouping) /\ (Aggregating' <=> Aggregating)
         /\ \A r : Key(r)' = Key(r)
         /\ \A r, s : Mates(r, s)' <=> Mates(r, s)
         /\ \A f, r : Argument(f, r)' = Argument(f, r)
         /\ \A f : ArgumentsOf(f)' = ArgumentsOf(f)
         /\ \A a, function, v, S : Reflects(a, function, v, S)' <=> Reflects(a, function, v, S)
<1>1. RowNumbers' = RowNumbers /\ Functions' = Functions /\ Results' = Results
      /\ (Grouping' <=> Grouping) /\ (Aggregating' <=> Aggregating)
  BY DEF RowNumbers, Rows, Functions, Results, Grouping, Aggregating
<1>2. \A r : Key(r)' = Key(r)
  BY DEF Key, Cell, Rows
<1>3. \A f, r : Argument(f, r)' = Argument(f, r)
  BY DEF Argument, Cell, Rows, Functions
<1>4. \A f : ArgumentsOf(f)' = ArgumentsOf(f)
  BY <1>1, <1>3 DEF ArgumentsOf
<1>5. \A r, s : Mates(r, s)' <=> Mates(r, s)
  BY <1>2 DEF Mates
<1>6. \A a, function, v, S : Reflects(a, function, v, S)' <=> Reflects(a, function, v, S)
  OBVIOUS
<1> QED
  BY <1>1, <1>2, <1>3, <1>4, <1>5, <1>6

LEMMA GroupsStay ==
  ASSUME UNCHANGED <<statement, groups>>, GroupsHold(Gathered), GroupsApart,
         Gathered \subseteq Gathered'
  PROVE  GroupsHold(Gathered)' /\ GroupsApart'
<1>1. ASSUME NEW g \in DOMAIN groups PROVE GroupHolds(g, Gathered)'
  <2>1. GroupHolds(g, Gathered)
    BY DEF GroupsHold
  <2> QED
    BY <2>1, SameKeys DEF GroupHolds
<1>2. GroupsApart'
  BY SameKeys DEF GroupsApart
<1> QED
  BY <1>1, <1>2 DEF GroupsHold

(* Steps that leave the rows and their groups alone.                       *)
GatherGoesOn ==
  \/ pc' = pc /\ outcome' = outcome
  \/ /\ outcome' = outcome
     /\ \/ pc = "functions" /\ pc' = "pull"
        \/ pc = "spare" /\ pc' = "write"
        \/ pc = "write" /\ pc' \in {"next", "crashed"}
        \/ pc = "release" /\ pc' = "closed"
  \/ pc' = "release" /\ outcome' \in {"failed", "abandoned", "threw"}
  \/ pc = "next" /\ pc' = "release" /\ outcome' = "eof"

LEMMA GatherStays ==
  ASSUME TypeIInv, InputInv, TypeIInv', InputInv', GatherInv, Grouping \/ Aggregating, GatherGoesOn,
         UNCHANGED <<statement, groups, pulled, in>>
  PROVE  GatherInv'
<1>1. InputTypes /\ InputTypes'
  BY DEF TypeIInv
<1>2. Gathered \subseteq Gathered' /\ (pc # "new" \/ pc' = pc => Gathered' = Gathered)
  <2>1. pc' = pc => Gathered' = Gathered
    BY DEF Gathered
  <2>2. pc' # pc => pc' # "new"
    BY DEF GatherGoesOn
  <2>3. pc' # pc => Gathered' = {pulled[k] : k \in DOMAIN pulled}
    <3>1. (InputTypes /\ InputInv /\ pc # "new" => Gathered = {pulled[k] : k \in DOMAIN pulled})'
      BY GatheredAll, PTL
    <3> QED
      BY <1>1, <2>2, <3>1
  <2>4. /\ Gathered \subseteq {pulled[k] : k \in DOMAIN pulled}
        /\ pc # "new" => Gathered = {pulled[k] : k \in DOMAIN pulled}
    BY <1>1, GatheredRows
  <2> QED
    BY <2>1, <2>3, <2>4
<1>3. GroupsHold(Gathered)' /\ GroupsApart'
  BY <1>2, GroupsStay DEF GatherInv
<1>4. GatherStages'
  <2>1. Row' = Row
    BY DEF Row
  <2>2. pc = "first" <=> pc # "functions" /\ pc \in {"first", "functions"}
    OBVIOUS
  <2>3. outcome' \in {"open", "eof"} => outcome \in {"open", "eof"}
    BY DEF GatherGoesOn, TypeIInv, Stages, Ends
  <2>4. outcome' \in {"open", "eof"} /\ pc' # "first" => pc # "first"
    BY DEF GatherGoesOn
  <2>5. pc' = "new" => pc = "new"
    BY DEF GatherGoesOn
  <2>6. pc' \in {"first", "functions"} => pc' = pc
    BY DEF GatherGoesOn
  <2>7. pc' \in {"spare", "write", "next"} \/ outcome' = "eof" =>
          pc \in {"spare", "write", "next"} \/ outcome = "eof"
    BY DEF GatherGoesOn
  <2> QED
    BY <2>1, <2>3, <2>4, <2>5, <2>6, <2>7, SameKeys DEF GatherInv, GatherStages
<1>5. outcome' \in {"open", "eof"} /\ pc' # "crashed" => Covered(Gathered)'
  <2>1. SUFFICES ASSUME outcome' \in {"open", "eof"}, pc' # "crashed" PROVE Covered(Gathered)'
    OBVIOUS
  <2>2. outcome \in {"open", "eof"} /\ pc # "crashed"
    BY <2>1 DEF GatherGoesOn, TypeIInv, Stages, Ends
  <2>3. pc # "new" \/ pc' = pc
    BY <2>1 DEF GatherGoesOn
  <2> QED
    BY <1>2, <2>2, <2>3 DEF GatherInv, Covered
<1> QED
  BY <1>3, <1>4, <1>5 DEF GatherInv

LEMMA GroupRecord ==
  ASSUME GroupTypes, Grouping \/ Aggregating, NEW g \in DOMAIN groups
  PROVE  groups[g] \in GroupRecords /\ Len(groups) \in Nat /\ DOMAIN groups = 1 .. Len(groups)
BY DEF GroupTypes

LEMMA GatherFirst ==
  ASSUME GroupPremise, GatherInv, GroupFirstBlock
  PROVE  GatherInv'
<1>1. /\ pc = "first" /\ pc' = (IF Grouping THEN "functions" ELSE "pull")
      /\ groups' = IF Aggregating THEN <<[key |-> <<>>, members |-> {}, functions |-> Begin]>>
                   ELSE groups
      /\ UNCHANGED <<statement, pulled, in, outcome>>
  BY DEF GroupFirstBlock, commonVars, GoTo
<1>2. pulled = <<>> /\ groups = <<>>
  BY <1>1 DEF GatherInv, GatherStages
<1>3. outcome = "open" /\ ~ (Grouping /\ Aggregating) /\ statement \in Statements
  BY <1>1 DEF GroupPremise, TypeIInv, Stages, Ends, Grouping, Aggregating
<1>4. Gathered' = {}
  BY <1>1, <1>2 DEF Gathered
<1>5. Covered(Gathered)'
  BY <1>4 DEF Covered
<1>6. CASE Grouping
  <2>1. groups' = <<>> /\ DOMAIN groups' = {}
    BY <1>1, <1>2, <1>3, <1>6
  <2>2. GroupsHold(Gathered)' /\ GroupsApart'
    BY <2>1 DEF GroupsHold, GroupsApart
  <2>3. GatherStages'
    BY <1>1, <1>2, <1>3, <1>6, <2>1, SameKeys DEF GatherStages
  <2> QED
    BY <1>5, <2>2, <2>3 DEF GatherInv
<1>7. CASE Aggregating
  <2> DEFINE h == [key |-> <<>>, members |-> {}, functions |-> Begin]
  <2>a. groups' = <<h>>
    BY <1>1, <1>7
  <2>2. h.members = {} /\ h.functions = Begin
    OBVIOUS
  <2> HIDE DEF h
  <2>1. groups' = <<h>> /\ Len(groups') = 1 /\ DOMAIN groups' = {1} /\ groups'[1] = h
    BY <2>a
  <2>3. ASSUME NEW f \in DOMAIN Functions
        PROVE  Reflects(Begin[f], Functions[f].function, ArgumentsOf(f), {})
    <3>1. Functions[f] \in FunctionsOn(Columns)
      BY <1>3, <1>7, FunctionArguments
    <3> QED
      BY <3>1, ReflectsNone DEF Begin
  <2>4. IsFiniteSet({})
    BY FS_EmptySet
  <2>5. GroupHolds(1, {})'
    BY <1>1, <1>3, <1>7, <2>1, <2>2, <2>3, <2>4, SameKeys DEF GroupHolds
  <2>6. GroupsHold(Gathered)' /\ GroupsApart'
    BY <1>4, <2>1, <2>5 DEF GroupsHold, GroupsApart
  <2>7. GatherStages'
    BY <1>1, <1>3, <1>7, <2>1, SameKeys DEF GatherStages
  <2> QED
    BY <1>5, <2>6, <2>7 DEF GatherInv
<1> QED
  BY <1>6, <1>7 DEF GroupPremise

(* A row that comes to a group: it is a mate of its rows.                  *)
LEMMA HasMate ==
  ASSUME statement \in Statements, Grouping, GroupsHold(Gathered), NEW g \in DOMAIN groups, NEW r
  PROVE  /\ SameKey(groups[g].key, Key(r)) =>
              groups[g].members # {} /\ \A s \in groups[g].members : Mates(s, r)
         /\ ~ SameKey(groups[g].key, Key(r)) => \A s \in groups[g].members : ~ Mates(s, r)
<1>1. PICK m \in groups[g].members : groups[g].key = Key(m)
  BY DEF GroupsHold, GroupHolds
<1>2. \A s \in groups[g].members : s = m \/ (Mates(m, s) /\ Mates(s, m))
  BY DEF GroupsHold, GroupHolds
<1>3. SameKey(groups[g].key, Key(r)) <=> Mates(m, r)
  BY <1>1 DEF Mates
<1> QED
  BY <1>1, <1>2, <1>3, MatesMeet

LEMMA GatherStep ==
  ASSUME GroupPremise, GatherInv, GroupStep
  PROVE  GatherInv'
<1>1. /\ pc = "pull" /\ TakeRow /\ UNCHANGED <<pc, statement, outcome>>
  BY DEF GroupStep, Pulling
<1>2. PICK g \in GroupsFor(Pulled.row) :
        groups' = [groups EXCEPT ![g].members = @ \cup {Pulled.row},
                                 ![g].functions = Stepped(@, Pulled.row)]
  BY DEF GroupStep
<1>3. /\ outcome = "open" /\ ~ (Grouping /\ Aggregating) /\ statement \in Statements
      /\ InputTypes /\ InputInv /\ InputTypes' /\ InputInv' /\ GroupTypes
  BY <1>1 DEF GroupPremise, TypeIInv, Stages, Ends, Grouping, Aggregating
<1>4. PICK r \in RowNumbers :
        /\ r = Pulled.row /\ r \notin Gathered /\ Gathered' = Gathered \cup {r}
        /\ Gathered \subseteq RowNumbers
  <2>1. Gathered = {pulled[k] : k \in DOMAIN pulled}
    BY <1>1, <1>3, GatheredAll
  <2>2. (InputTypes /\ InputInv /\ pc # "new" => Gathered = {pulled[k] : k \in DOMAIN pulled})'
    BY GatheredAll, PTL
  <2>3. Gathered' = {pulled'[k] : k \in DOMAIN pulled'}
    BY <1>1, <1>3, <2>2
  <2> QED
    BY <1>1, <1>3, <2>1, <2>3, RowsAfterTake, GatheredRows
<1>5. g \in DOMAIN groups /\ (Grouping => SameKey(groups[g].key, Key(r)))
  <2>1. Aggregating => Len(groups) = 1
    BY <1>1, <1>3 DEF GatherInv, GatherStages
  <2>2. Aggregating => 1 \in DOMAIN groups
    BY <2>1 DEF GroupTypes, TypeIInv, GroupPremise
  <2> QED
    BY <1>2, <1>3, <1>4, <2>2 DEF GroupsFor, GroupOf, GroupPremise
<1>6. PICK n \in Nat : n = Len(groups) /\ DOMAIN groups = 1 .. n
  BY <1>5, <1>3, GroupRecord DEF GroupPremise
<1>7. /\ Len(groups') = n /\ DOMAIN groups' = 1 .. n
      /\ \A k \in 1 .. n : k # g => groups'[k] = groups[k]
      /\ groups'[g].key = groups[g].key
      /\ groups'[g].members = groups[g].members \cup {r}
      /\ groups'[g].functions = Stepped(groups[g].functions, r)
  <2>1. \A k \in 1 .. n : groups[k] \in GroupRecords
    BY <1>3, <1>6, GroupRecord DEF GroupPremise
  <2>2. DOMAIN groups' = 1 .. n /\ \A k \in 1 .. n : k # g => groups'[k] = groups[k]
    BY <1>2, <1>6
  <2>3. PICK h \in GroupRecords : h = groups[g]
    BY <1>5, <1>6, <2>1
  <2>4. groups'[g] = [h EXCEPT !.members = @ \cup {r}, !.functions = Stepped(@, r)]
    BY <1>2, <1>4, <1>5, <2>3
  <2>5. /\ groups'[g].key = h.key /\ groups'[g].members = h.members \cup {r}
        /\ groups'[g].functions = Stepped(h.functions, r)
    BY <2>4 DEF GroupRecords
  <2>6. Len(groups') = n
    BY <2>2, <1>6, <1>2
  <2> QED
    BY <2>2, <2>3, <2>5, <2>6
<1>8. /\ \A k \in 1 .. n : GroupHolds(k, Gathered)
      /\ groups[g] \in GroupRecords
  BY <1>3, <1>5, <1>6, GroupRecord DEF GatherInv, GroupsHold, GroupPremise
<1>9. Grouping => /\ \A s \in groups[g].members : Mates(s, r) /\ Mates(r, s)
                  /\ \A k \in 1 .. n : k # g => \A s \in groups[k].members : ~ Mates(s, r) /\ ~ Mates(r, s)
  <2>1. SUFFICES ASSUME Grouping
                 PROVE  /\ \A s \in groups[g].members : Mates(s, r) /\ Mates(r, s)
                        /\ \A k \in 1 .. n : k # g =>
                             \A s \in groups[k].members : ~ Mates(s, r) /\ ~ Mates(r, s)
    OBVIOUS
  <2>2. groups[g].members # {} /\ \A s \in groups[g].members : Mates(s, r)
    BY <1>3, <1>5, <2>1, HasMate DEF GatherInv
  <2>3. PICK m \in groups[g].members : Mates(m, r)
    BY <2>2
  <2>4. ASSUME NEW k \in 1 .. n, k # g, NEW s \in groups[k].members
        PROVE  ~ Mates(s, r) /\ ~ Mates(r, s)
    <3>1. ~ Mates(m, s)
      BY <1>5, <1>6, <2>3, <2>4 DEF GatherInv, GroupsApart
    <3> QED
      BY <1>3, <2>1, <2>3, <3>1, MatesMeet
  <2> QED
    BY <1>3, <2>1, <2>2, <2>4, MatesMeet
<1>10. ASSUME NEW f \in DOMAIN Functions
       PROVE  Reflects(groups'[g].functions[f], Functions[f].function, ArgumentsOf(f),
                       groups[g].members \cup {r})
  <2>1. /\ ArgumentsOf(f) \in [RowNumbers -> CellValues] /\ ArgumentsOf(f)[r] = Argument(f, r)
    BY <1>3, FunctionArguments DEF GroupPremise
  <2>2. /\ Reflects(groups[g].functions[f], Functions[f].function, ArgumentsOf(f), groups[g].members)
        /\ groups[g].members \subseteq Gathered /\ IsFiniteSet(groups[g].members)
    BY <1>5, <1>6, <1>8 DEF GroupHolds
  <2>3. groups'[g].functions[f] = Step(groups[g].functions[f], Argument(f, r), r)
    <3>1. DOMAIN groups[g].functions = DOMAIN Functions
      BY <1>8 DEF GroupRecords
    <3> QED
      BY <1>7, <3>1 DEF Stepped
  <2>4. groups[g].members \in SUBSET RowNumbers /\ r \notin groups[g].members
        /\ RowNumbers \subseteq Nat \ {0}
    BY <1>3, <1>4, <2>2, RowNumbersAreNumbers
  <2>5. PICK v \in [RowNumbers -> CellValues] : v = ArgumentsOf(f) /\ v[r] = Argument(f, r)
    BY <2>1
  <2>6. PICK a, S : a = groups[g].functions[f] /\ S = groups[g].members
    OBVIOUS
  <2>7. /\ S \in SUBSET RowNumbers /\ IsFiniteSet(S) /\ r \notin S
        /\ Reflects(a, Functions[f].function, v, S)
    BY <2>2, <2>4, <2>5, <2>6
  <2>8. Reflects(Step(a, v[r], r), Functions[f].function, v, S \cup {r})
    BY <2>4, <2>7, ReflectsMore
  <2> QED
    BY <2>3, <2>5, <2>6, <2>8
<1>11. ASSUME NEW k \in 1 .. n PROVE GroupHolds(k, Gathered)'
  <2>1. CASE k = g
    <3>1. /\ groups[g].members \subseteq Gathered /\ IsFiniteSet(groups[g].members)
          /\ Grouping => /\ \E m \in groups[g].members : groups[g].key = Key(m)
                         /\ \A a, b \in groups[g].members : a # b => Mates(a, b)
      BY <1>5, <1>6, <1>8 DEF GroupHolds
    <3>2. IsFiniteSet(groups[g].members \cup {r})
      BY <3>1, FS_AddElement
    <3>3. groups'[g].members \subseteq Gathered' /\ IsFiniteSet(groups'[g].members)
      BY <1>4, <1>7, <3>1, <3>2
    <3>4. Grouping => /\ \E m \in groups'[g].members : groups'[g].key = Key(m)
                      /\ \A a, b \in groups'[g].members : a # b => Mates(a, b)
      BY <1>7, <1>9, <3>1
    <3>5. \A f \in DOMAIN Functions :
            Reflects(groups'[g].functions[f], Functions[f].function, ArgumentsOf(f), groups'[g].members)
      BY <1>7, <1>10
    <3> QED
      BY <1>1, <2>1, <3>3, <3>4, <3>5, SameKeys DEF GroupHolds
  <2>2. CASE k # g
    <3>1. groups'[k] = groups[k] /\ GroupHolds(k, Gathered)
      BY <1>7, <1>8, <2>2
    <3> QED
      BY <1>1, <1>4, <3>1, SameKeys DEF GroupHolds
  <2> QED
    BY <2>1, <2>2
<1>12. GroupsHold(Gathered)'
  BY <1>7, <1>11 DEF GroupsHold
<1>13. GroupsApart'
  <2>1. ASSUME NEW k \in 1 .. n, NEW h \in 1 .. n, k # h,
               NEW a \in groups'[k].members, NEW b \in groups'[h].members
        PROVE  a # b /\ ~ Mates(a, b)
    <3>1. \A i \in 1 .. n : groups[i].members \subseteq Gathered
      BY <1>8 DEF GroupHolds
    <3>2. \A i, j \in 1 .. n : i # j => \A c \in groups[i].members, d \in groups[j].members :
            c # d /\ ~ Mates(c, d)
      BY <1>6 DEF GatherInv, GroupsApart
    <3>3. Grouping
      <4>1. Aggregating => n = 1
        BY <1>5, <1>6 DEF GatherInv, GatherStages
      <4>2. n = 1 => k = h
        OBVIOUS
      <4> QED
        BY <2>1, <4>1, <4>2 DEF GroupPremise
    <3>4. g \in 1 .. n
      BY <1>5, <1>6
    <3>5. CASE k = g /\ a = r
      <4>1. b \in groups[h].members
        BY <1>7, <2>1, <3>5
      <4> QED
        BY <1>4, <1>9, <2>1, <3>1, <3>3, <3>5, <4>1
    <3>6. CASE h = g /\ b = r
      <4>1. a \in groups[k].members
        BY <1>7, <2>1, <3>6
      <4> QED
        BY <1>4, <1>9, <2>1, <3>1, <3>3, <3>6, <4>1
    <3>7. CASE ~ (k = g /\ a = r) /\ ~ (h = g /\ b = r)
      <4>1. a \in groups[k].members /\ b \in groups[h].members
        BY <1>7, <2>1, <3>7
      <4> QED
        BY <2>1, <3>2, <4>1
    <3> QED
      BY <3>5, <3>6, <3>7
  <2> QED
    BY <1>1, <1>7, <2>1, SameKeys DEF GroupsApart
<1>14. Covered(Gathered)'
  <2>1. \A a \in Gathered : \E k \in 1 .. n : a \in groups[k].members
    BY <1>1, <1>3, <1>6 DEF GatherInv, Covered
  <2>2. \A k \in 1 .. n : groups[k].members \subseteq groups'[k].members
    BY <1>7
  <2>3. g \in 1 .. n /\ r \in groups'[g].members
    BY <1>5, <1>6, <1>7
  <2> QED
    BY <1>4, <1>7, <2>1, <2>2, <2>3 DEF Covered
<1>15. GatherStages'
  <2>1. groups # <<>> /\ groups' # <<>>
    BY <1>5, <1>6, <1>7
  <2> QED
    BY <1>1, <1>3, <1>6, <1>7, <2>1, SameKeys DEF GatherInv, GatherStages
<1> QED
  BY <1>12, <1>13, <1>14, <1>15 DEF GatherInv

LEMMA GatherCrash ==
  ASSUME GroupPremise, GatherInv, GroupStepOnReleased
  PROVE  GatherInv'
<1>1. /\ pc = "pull" /\ pc' = "crashed" /\ TakeRow /\ UNCHANGED <<statement, outcome, groups>>
  BY DEF GroupStepOnReleased, Pulling, Crash, GoTo
<1>2. outcome = "open" /\ InputTypes /\ InputInv /\ InputTypes' /\ InputInv'
  BY <1>1 DEF GroupPremise, TypeIInv, Stages, Ends
<1>3. Gathered \subseteq Gathered'
  <2>1. Gathered = {pulled[k] : k \in DOMAIN pulled}
    BY <1>1, <1>2, GatheredAll
  <2>2. (InputTypes /\ InputInv /\ pc # "new" => Gathered = {pulled[k] : k \in DOMAIN pulled})'
    BY GatheredAll, PTL
  <2>3. Gathered' = {pulled'[k] : k \in DOMAIN pulled'}
    BY <1>1, <1>2, <2>2
  <2> QED
    BY <1>1, <1>2, <2>1, <2>3, RowsAfterTake
<1>4. GroupsHold(Gathered)' /\ GroupsApart'
  BY <1>1, <1>3, GroupsStay DEF GatherInv
<1>5. GatherStages'
  BY <1>1, <1>2, SameKeys DEF GatherInv, GatherStages
<1> QED
  BY <1>1, <1>4, <1>5 DEF GatherInv

LEMMA GatherNew ==
  ASSUME GroupPremise, GatherInv, GroupPullNew
  PROVE  GatherInv'
<1>1. /\ pc = "pull" /\ pc' = "new" /\ TakeRow /\ GroupsFor(Pulled.row) = {}
      /\ UNCHANGED <<statement, outcome, groups>>
  BY DEF GroupPullNew, Pulling, GoTo
<1>2. outcome = "open" /\ InputTypes /\ InputInv /\ InputTypes' /\ InputInv'
  BY <1>1 DEF GroupPremise, TypeIInv, Stages, Ends
<1>3. Gathered' = Gathered /\ Row' = Pulled.row /\ pulled' # <<>>
  <2>1. Gathered = {pulled[k] : k \in DOMAIN pulled}
    BY <1>1, <1>2, GatheredAll
  <2>2. Gathered' = {pulled'[k] : k \in 1 .. Len(pulled') - 1}
    BY <1>1 DEF Gathered
  <2> QED
    BY <1>1, <1>2, <2>1, <2>2, RowsAfterTake
<1>4. GroupsHold(Gathered)' /\ GroupsApart'
  BY <1>1, <1>3, GroupsStay DEF GatherInv
<1>5. Grouping /\ \A g \in DOMAIN groups : ~ SameKey(groups[g].key, Key(Pulled.row))
  BY <1>1 DEF GroupsFor, GroupOf, GroupPremise
<1>6. GatherStages'
  <2>1. ~ Aggregating
    BY <1>5 DEF Grouping, Aggregating
  <2>2. \A g \in DOMAIN groups' : ~ SameKey(groups'[g].key, Key(Row)')
    BY <1>1, <1>3, <1>5, SameKeys
  <2> QED
    BY <1>1, <1>2, <1>3, <1>5, <2>1, <2>2, SameKeys DEF GatherInv, GatherStages
<1>7. Covered(Gathered)'
  BY <1>1, <1>2, <1>3 DEF GatherInv, Covered
<1> QED
  BY <1>4, <1>6, <1>7 DEF GatherInv

LEMMA GatherEnter ==
  ASSUME GroupPremise, GatherInv, EnterGroup
  PROVE  GatherInv'
<1> DEFINE entered == [key |-> Key(Row), members |-> {Row}, functions |-> Stepped(Begin, Row)]
<1>1. /\ pc = "new" /\ pc' = "pull" /\ groups' = Append(groups, entered)
      /\ UNCHANGED <<statement, outcome, in, pulled>>
  BY DEF EnterGroup, GoTo, commonVars
<1>2. outcome = "open" /\ InputTypes /\ InputInv /\ InputTypes' /\ InputInv' /\ statement \in Statements
  BY <1>1 DEF GroupPremise, TypeIInv, Stages, Ends
<1>3. Grouping /\ ~ Aggregating /\ pulled # <<>> /\ GroupTypes
  BY <1>1 DEF GatherInv, GatherStages, Grouping, Aggregating, GroupPremise, TypeIInv
<1>4. PICK r \in RowNumbers :
        /\ r = Row /\ r \notin Gathered /\ Gathered' = Gathered \cup {r} /\ Gathered \subseteq RowNumbers
  <2>1. (InputTypes /\ InputInv /\ pc # "new" => Gathered = {pulled[k] : k \in DOMAIN pulled})'
    BY GatheredAll, PTL
  <2>2. Gathered' = {pulled[k] : k \in DOMAIN pulled}
    BY <1>1, <1>2, <2>1
  <2> QED
    BY <1>1, <1>2, <1>3, <2>2, GatheredRows
<1>5. PICK e : e = entered
  OBVIOUS
<1>6. e.key = Key(r) /\ e.members = {r} /\ e.functions = Stepped(Begin, r) /\ groups' = Append(groups, e)
  BY <1>1, <1>4, <1>5
<1> HIDE DEF entered
<1>7. PICK n \in Nat : n = Len(groups) /\ DOMAIN groups = 1 .. n /\ groups \in Seq(GroupRecords)
  BY <1>3 DEF GroupTypes
<1>8. /\ Len(groups') = n + 1 /\ DOMAIN groups' = 1 .. n + 1 /\ groups'[n + 1] = e
      /\ \A k \in 1 .. n : groups'[k] = groups[k]
  BY <1>6, <1>7
<1>9. \A k \in 1 .. n : GroupHolds(k, Gathered)
  BY <1>7 DEF GatherInv, GroupsHold
<1>10. \A k \in 1 .. n : \A s \in groups[k].members : ~ Mates(s, r) /\ ~ Mates(r, s)
  <2>1. ASSUME NEW k \in 1 .. n, NEW s \in groups[k].members PROVE ~ Mates(s, r)
    <3>1. ~ SameKey(groups[k].key, Key(r))
      BY <1>1, <1>4, <1>7 DEF GatherInv, GatherStages
    <3> QED
      BY <1>2, <1>3, <1>7, <2>1, <3>1, HasMate DEF GatherInv
  <2> QED
    BY <1>2, <1>3, <2>1, MatesMeet
<1>11. ASSUME NEW f \in DOMAIN Functions
       PROVE  Reflects(e.functions[f], Functions[f].function, ArgumentsOf(f), {r})
  <2>1. Functions[f] \in FunctionsOn(Columns)
    BY <1>2, <1>3, FunctionArguments
  <2>2. PICK v \in [RowNumbers -> CellValues] : v = ArgumentsOf(f) /\ v[r] = Argument(f, r)
    BY <1>2, <1>3, FunctionArguments
  <2>3. PICK a : a = Begun(Functions[f])
    OBVIOUS
  <2>4. Reflects(a, Functions[f].function, v, {})
    BY <2>1, <2>3, ReflectsNone
  <2>5. PICK S : S = {}
    OBVIOUS
  <2>6. S \in SUBSET RowNumbers /\ IsFiniteSet(S) /\ r \notin S /\ S \cup {r} = {r}
    BY <2>5, FS_EmptySet
  <2>7. Reflects(Step(a, v[r], r), Functions[f].function, v, S \cup {r})
    BY <1>2, <2>4, <2>5, <2>6, RowNumbersAreNumbers, ReflectsMore
  <2>8. e.functions[f] = Step(a, Argument(f, r), r)
    BY <1>6, <2>3 DEF Stepped, Begin
  <2> QED
    BY <2>2, <2>6, <2>7, <2>8
<1>12. GroupHolds(n + 1, Gathered)'
  <2>1. IsFiniteSet({r})
    BY FS_Singleton
  <2>2. e.members \subseteq Gathered' /\ IsFiniteSet(e.members) /\ e.key = Key(r) /\ r \in e.members
        /\ \A a, b \in e.members : a = b
    BY <1>4, <1>6, <2>1
  <2>3. \A f \in DOMAIN Functions :
          Reflects(e.functions[f], Functions[f].function, ArgumentsOf(f), e.members)
    BY <1>6, <1>11
  <2> QED
    BY <1>1, <1>8, <2>2, <2>3, SameKeys DEF GroupHolds
<1>13. ASSUME NEW k \in 1 .. n PROVE GroupHolds(k, Gathered)'
  <2>1. groups'[k] = groups[k] /\ GroupHolds(k, Gathered)
    BY <1>8, <1>9
  <2> QED
    BY <1>1, <1>4, <2>1, SameKeys DEF GroupHolds
<1>14. \A k \in 1 .. n + 1 : k = n + 1 \/ k \in 1 .. n
  OBVIOUS
<1>15. GroupsHold(Gathered)'
  BY <1>8, <1>12, <1>13, <1>14 DEF GroupsHold
<1>16. GroupsApart'
  <2>1. \A k \in 1 .. n : groups[k].members \subseteq Gathered
    BY <1>9 DEF GroupHolds
  <2>2. \A i, j \in 1 .. n : i # j => \A c \in groups[i].members, d \in groups[j].members :
          c # d /\ ~ Mates(c, d)
    BY <1>7 DEF GatherInv, GroupsApart
  <2>3. ASSUME NEW k \in 1 .. n + 1, NEW h \in 1 .. n + 1, k # h,
               NEW a \in groups'[k].members, NEW b \in groups'[h].members
        PROVE  a # b /\ ~ Mates(a, b)
    <3>1. CASE k = n + 1
      <4>1. h \in 1 .. n /\ b \in groups[h].members /\ a = r
        BY <1>6, <1>8, <1>14, <2>3, <3>1
      <4> QED
        BY <1>4, <1>10, <2>1, <4>1
    <3>2. CASE h = n + 1
      <4>1. k \in 1 .. n /\ a \in groups[k].members /\ b = r
        BY <1>6, <1>8, <1>14, <2>3, <3>2
      <4> QED
        BY <1>4, <1>10, <2>1, <4>1
    <3>3. CASE k # n + 1 /\ h # n + 1
      <4>1. k \in 1 .. n /\ h \in 1 .. n
        BY <1>14, <3>3
      <4>2. a \in groups[k].members /\ b \in groups[h].members
        BY <1>8, <2>3, <4>1
      <4> QED
        BY <2>2, <2>3, <4>1, <4>2
    <3> QED
      BY <3>1, <3>2, <3>3
  <2> QED
    BY <1>1, <1>8, <2>3, SameKeys DEF GroupsApart
<1>17. Covered(Gathered)'
  <2>1. \A a \in Gathered : \E k \in 1 .. n : a \in groups[k].members
    BY <1>1, <1>2, <1>7 DEF GatherInv, Covered
  <2>2. n + 1 \in 1 .. n + 1 /\ r \in groups'[n + 1].members /\ \A k \in 1 .. n : k \in 1 .. n + 1
    BY <1>6, <1>8
  <2> QED
    BY <1>4, <1>8, <2>1, <2>2 DEF Covered
<1>18. GatherStages'
  <2>1. ~ Aggregating'
    BY <1>1, <1>3, SameKeys
  <2>2. pc' \notin {"first", "functions", "new", "spare", "write", "next"} /\ outcome' # "eof"
    BY <1>1, <1>2
  <2> QED
    BY <2>1, <2>2 DEF GatherStages
<1> QED
  BY <1>15, <1>16, <1>17, <1>18 DEF GatherInv

(* The map has the groups in any order.                                    *)
LEMMA OrdersReach ==
  ASSUME NEW s, NEW n \in Nat, DOMAIN s = 1 .. n, NEW t \in Orders(s)
  PROVE  \E f \in [1 .. n -> 1 .. n] : Reaches(s, t, n, f)
<1>1. PICK f \in [1 .. n -> 1 .. n] : IsInjective(f) /\ t = [k \in 1 .. n |-> s[f[k]]]
  BY DEF Orders
<1>2. PICK S : S = 1 .. n /\ IsFiniteSet(S)
  BY FS_Interval
<1>3. f \in Injection(S, S)
  BY <1>1, <1>2 DEF Injection
<1>4. f \in Surjection(S, S)
  BY <1>2, <1>3, FS_Injection
<1>5. \A p \in S : \E k \in S : f[k] = p
  BY <1>4 DEF Surjection
<1>6. \A j, k \in 1 .. n : f[j] = f[k] => j = k
  BY <1>1 DEF IsInjective
<1> QED
  BY <1>1, <1>2, <1>5, <1>6 DEF Reaches

LEMMA GatherEnd ==
  ASSUME GroupPremise, GatherInv, GroupEndOfInput
  PROVE  GatherInv'
<1>1. /\ pc = "pull" /\ pc' = (IF Grouping THEN "spare" ELSE "write") /\ TakeEnd
      /\ groups' \in Orders(groups) /\ UNCHANGED <<statement, outcome, pulled>>
  BY DEF GroupEndOfInput, Pulling, GoTo, TakeEnd
<1>2. /\ outcome = "open" /\ InputTypes /\ InputInv /\ InputTypes' /\ InputInv'
      /\ GroupTypes /\ (Grouping \/ Aggregating)
  BY <1>1 DEF GroupPremise, TypeIInv, Stages, Ends
<1>3. in'.ends = 1
  <2>1. in.ends = 0 /\ ~ TakeRow
    BY <1>1 DEF GroupPremise, EndKnown, Asking, TakeEnd, TakeRow
  <2> QED
    BY <1>1, <1>2, <2>1, InputTakes
<1>4. PICK n \in Nat : n = Len(groups) /\ DOMAIN groups = 1 .. n
  BY <1>2 DEF GroupTypes
<1>5. PICK f \in [1 .. n -> 1 .. n] : Reaches(groups, groups', n, f)
  BY <1>1, <1>4, OrdersReach
<1>6. /\ DOMAIN groups' = 1 .. n /\ \A k \in 1 .. n : groups'[k] = groups[f[k]] /\ f[k] \in 1 .. n
      /\ \A j, k \in 1 .. n : f[j] = f[k] => j = k
      /\ \A p \in 1 .. n : \E k \in 1 .. n : f[k] = p
  BY <1>5 DEF Reaches
<1>7. Len(groups') = n
  <2>1. groups' = [k \in 1 .. n |-> groups[f[k]]]
    BY <1>5 DEF Reaches
  <2> QED
    BY <2>1
<1>8. Gathered' = Gathered
  BY <1>1 DEF Gathered
<1>9. ASSUME NEW k \in 1 .. n PROVE GroupHolds(k, Gathered)'
  <2>1. groups'[k] = groups[f[k]] /\ GroupHolds(f[k], Gathered)
    BY <1>4, <1>6 DEF GatherInv, GroupsHold
  <2> QED
    BY <1>1, <1>8, <2>1, SameKeys DEF GroupHolds
<1>10. GroupsHold(Gathered)'
  BY <1>6, <1>9 DEF GroupsHold
<1>11. GroupsApart'
  <2>1. ASSUME NEW k \in 1 .. n, NEW h \in 1 .. n, k # h,
               NEW a \in groups'[k].members, NEW b \in groups'[h].members
        PROVE  a # b /\ ~ Mates(a, b)
    <3>1. f[k] # f[h] /\ f[k] \in 1 .. n /\ f[h] \in 1 .. n
          /\ a \in groups[f[k]].members /\ b \in groups[f[h]].members
      BY <1>6, <2>1
    <3> QED
      BY <1>4, <3>1 DEF GatherInv, GroupsApart
  <2>2. \A r, s : Mates(r, s)' <=> Mates(r, s)
    BY <1>1, SameKeys
  <2>3. DOMAIN groups' = 1 .. n
    BY <1>6
  <2> QED
    BY <2>1, <2>2, <2>3, Zenon DEF GroupsApart
<1>12. Covered(Gathered)'
  <2>1. ASSUME NEW a \in Gathered PROVE \E k \in 1 .. n : a \in groups'[k].members
    <3>1. PICK p \in 1 .. n : a \in groups[p].members
      BY <1>1, <1>2, <1>4 DEF GatherInv, Covered
    <3>2. PICK k \in 1 .. n : f[k] = p
      BY <1>6
    <3> QED
      BY <1>6, <3>1, <3>2
  <2> QED
    BY <1>6, <1>8, <2>1 DEF Covered
<1>13. GatherStages'
  <2>1. groups = <<>> <=> n = 0
    BY <1>2, <1>4 DEF GroupTypes
  <2>2. groups' = <<>> <=> n = 0
    <3>1. groups' = [k \in 1 .. n |-> groups[f[k]]]
      BY <1>5 DEF Reaches
    <3> QED
      BY <3>1
  <2>3. pc' \notin {"first", "functions", "new"}
    BY <1>1
  <2> QED
    BY <1>1, <1>2, <1>3, <1>4, <1>7, <2>1, <2>2, <2>3, SameKeys DEF GatherInv, GatherStages
<1> QED
  BY <1>10, <1>11, <1>12, <1>13 DEF GatherInv

(* All other steps leave the rows and the groups alone.                    *)
LEMMA GatherIdle ==
  ASSUME GroupPremise, GatherInv,
         \/ GroupFirstFunctionBlock \/ CloneFunction \/ CloneToNextBlock \/ SpareBlock \/ AddResult
         \/ ResultToNextBlock \/ ResultDropped \/ ReadReleasedResult \/ EndGroup \/ EndGroups
         \/ GroupBlockThrows \/ GroupedRow \/ GroupedRowThrows \/ GroupedEnd \/ ReleaseFunctionBlock
         \/ (InputThrows \/ Abandon \/ ReleaseBlocks \/ Close) /\ UNCHANGED ownVars
         \/ UNCHANGED vars
  PROVE  GatherInv'
<1>1. GatherGoesOn /\ UNCHANGED <<statement, groups, pulled, in>>
  BY DEF GatherGoesOn, GroupFirstFunctionBlock, Cloning, CloneFunction, CloneToNextBlock, SpareBlock,
    Writing, WritingResult, AddResult, ResultToNextBlock, ResultDropped, ReadReleasedResult, EndGroup,
    EndGroups, GroupBlockThrows, ReadingGroups, GroupedRow, GroupedRowThrows, GroupedEnd,
    ReleaseFunctionBlock, InputThrows, Abandon, ReleaseBlocks, Close, Destroy, Crash, GoTo,
    commonVars, ownVars, vars
<1> QED
  BY <1>1, GatherStays DEF GroupPremise

LEMMA GatherSteps ==
  ASSUME GroupPremise, GatherInv, [Next]_vars
  PROVE  GatherInv'
<1>1. ~ SortNext /\ ~ ProjectNext
  BY SortOnly, ProjectOnly, Kinds DEF GroupPremise, TypeIInv, Stages
<1>2. CASE GroupNext
  BY <1>2, GatherFirst, GatherStep, GatherCrash, GatherNew, GatherEnter, GatherEnd, GatherIdle
  DEF GroupNext
<1>3. CASE ~ GroupNext
  <2>1. \/ (InputThrows \/ Abandon \/ ReleaseBlocks \/ Close) /\ UNCHANGED ownVars
        \/ UNCHANGED vars
    BY <1>1, <1>3 DEF Next, Stopped
  <2> QED
    BY <2>1, GatherIdle
<1> QED
  BY <1>2, <1>3

LEMMA GatherBegins == Init => GatherInv /\ KeptExplained
<1> SUFFICES ASSUME Init PROVE GatherInv /\ KeptExplained
  OBVIOUS
<1>1. pc = "first" /\ pulled = <<>> /\ groups = <<>> /\ outcome = "open" /\ fault = "none"
  BY DEF Init, CommonInit
<1>2. Gathered = {} /\ DOMAIN groups = {}
  BY <1>1 DEF Gathered
<1> QED
  BY <1>1, <1>2 DEF GatherInv, GroupsHold, GroupsApart, GatherStages, Covered, KeptExplained

(* A value that MIN or MAX kept is that of a row of the group.             *)
LEMMA DanglingKept ==
  ASSUME InputTypes, InputInv, Grouping \/ Aggregating, GroupsHold(Gathered),
         NEW g \in DOMAIN groups, NEW f \in DOMAIN Functions, NEW s,
         Dangling(groups[g].functions[f], s)
  PROVE  /\ Functions[f].function \in {"MIN", "MAX"}
         /\ \E k \in DOMAIN pulled : Argument(f, pulled[k]).type = "STRING" /\ Released(pulled[k], s)
<1>1. PICK a : a = groups[g].functions[f]
  OBVIOUS
<1>2. Reflects(a, Functions[f].function, ArgumentsOf(f), groups[g].members)
      /\ groups[g].members \subseteq Gathered
  BY <1>1 DEF GroupsHold, GroupHolds
<1>3. a.origin # 0 /\ a.value.type = "STRING" /\ Released(a.origin, s)
  BY <1>1 DEF Dangling
<1>4. /\ a.function \in {"MIN", "MAX"} /\ a.function = Functions[f].function
      /\ a.origin \in groups[g].members /\ a.value = ArgumentsOf(f)[a.origin]
  BY <1>2, <1>3 DEF Reflects, PointsInto
<1>5. PICK k \in DOMAIN pulled : a.origin = pulled[k] /\ a.origin \in RowNumbers
  BY <1>2, <1>4, GatheredRows
<1>6. a.value = Argument(f, pulled[k])
  BY <1>4, <1>5 DEF ArgumentsOf
<1> QED
  BY <1>3, <1>4, <1>5, <1>6

LEMMA KeptSteps ==
  ASSUME InputTypes, InputInv, Stages, UNCHANGED statement, Grouping \/ Aggregating => GatherInv /\ GroupTypes,
         PlaceTypes, KeptExplained, [Next]_vars
  PROVE  KeptExplained'
<1>1. PICK P : P = ToSet(pulled)
  OBVIOUS
<1>2. PICK P2 : P2 = ToSet(pulled')
  OBVIOUS
<1>3. P \subseteq P2 /\ P = {pulled[k] : k \in DOMAIN pulled} /\ (TakeRow => Pulled.row \in P2)
  <2>1. UNCHANGED pulled \/ TakeRow
    BY InputSteps DEF InputStep, TakeEnd
  <2>2. ASSUME TakeRow PROVE P \subseteq P2 /\ Pulled.row \in P2
    <3>1. PICK row \in RowNumbers : row = Pulled.row /\ pulled' = Append(pulled, row)
      BY <2>2, RowTaken DEF TakeRow
    <3>2. PICK n \in Nat : n = Len(pulled) /\ DOMAIN pulled = 1 .. n /\ pulled \in Seq(RowNumbers)
      BY DEF InputTypes
    <3>3. /\ DOMAIN pulled' = 1 .. n + 1 /\ pulled'[n + 1] = row
          /\ \A k \in 1 .. n : pulled'[k] = pulled[k] /\ k \in 1 .. n + 1
      BY <3>1, <3>2
    <3> QED
      BY <1>1, <1>2, <3>1, <3>2, <3>3 DEF ToSet
  <2> QED
    BY <1>1, <1>2, <2>1, <2>2 DEF ToSet
<1>4. KeptReleasedString' <=>
        \E f \in DOMAIN Functions : \E r, s \in P2 :
          /\ Functions[f].function \in {"MIN", "MAX"}
          /\ Argument(f, r).type = "STRING" /\ Released(r, s)
  <2>1. \A r, s : Released(r, s)' <=> Released(r, s)
    BY DEF Released, Rows
  <2> QED
    BY <1>2, <2>1, SameKeys DEF KeptReleasedString
<1>5. KeptReleasedString => KeptReleasedString'
  BY <1>1, <1>3, <1>4 DEF KeptReleasedString
<1>6. CASE GroupStepOnReleased
  <2>1. /\ pc = "pull" /\ TakeRow /\ (Grouping \/ Aggregating)
        /\ \E g \in GroupsFor(Pulled.row) : StepsOnReleased(groups[g].functions, Pulled.row)
    BY <1>6 DEF GroupStepOnReleased, Pulling
  <2>a. PICK g \in GroupsFor(Pulled.row) : StepsOnReleased(groups[g].functions, Pulled.row)
    BY <2>1
  <2>2. PICK f \in DOMAIN groups[g].functions : Dangling(groups[g].functions[f], Pulled.row)
    BY <2>a DEF StepsOnReleased
  <2>3. g \in DOMAIN groups
    <3>1. outcome = "open" /\ ~ (Grouping /\ Aggregating)
      BY <2>1 DEF Stages, Ends, Grouping, Aggregating
    <3>2. Aggregating => Len(groups) = 1
      BY <2>1, <3>1 DEF GatherInv, GatherStages
    <3>3. Aggregating => 1 \in DOMAIN groups
      BY <3>2 DEF GroupTypes
    <3> QED
      BY <2>1, <2>2, <3>1, <3>3 DEF GroupsFor, GroupOf
  <2>4. f \in DOMAIN Functions
    BY <2>1, <2>2, <2>3, GroupRecord DEF GroupRecords
  <2>5. /\ Functions[f].function \in {"MIN", "MAX"}
        /\ \E r \in P : Argument(f, r).type = "STRING" /\ Released(r, Pulled.row)
    BY <1>3, <2>1, <2>2, <2>3, <2>4, DanglingKept DEF GatherInv
  <2>6. KeptReleasedString'
    BY <1>3, <1>4, <2>1, <2>4, <2>5
  <2> QED
    BY <2>6 DEF KeptExplained
<1>7. CASE ReadReleasedResult
  <2>1. /\ pc = "write" /\ target.group \in DOMAIN groups /\ col \in DOMAIN Results
        /\ LastRow # 0 /\ Dangling(Kept, LastRow)
    BY <1>7 DEF ReadReleasedResult, WritingResult, Writing, ReadsReleased
  <2>2. Grouping \/ Aggregating
    BY <2>1, Kinds DEF Stages, Ends
  <2>3. PICK f \in DOMAIN Functions : f = Results[col]
    BY <2>1, <2>2, FunctionTypes DEF InputTypes
  <2>4. Dangling(groups[target.group].functions[f], LastRow)
    BY <2>1, <2>3 DEF Kept
  <2>5. LastRow \in P
    <3>1. pulled # <<>> /\ LastRow = Row
      BY <2>1 DEF LastRow
    <3>2. PICK n \in Nat : n = Len(pulled) /\ DOMAIN pulled = 1 .. n /\ n # 0 /\ Row = pulled[n]
      BY <3>1 DEF InputTypes, Row, Last
    <3> QED
      BY <1>3, <3>1, <3>2
  <2>6. /\ Functions[f].function \in {"MIN", "MAX"}
        /\ \E r \in P : Argument(f, r).type = "STRING" /\ Released(r, LastRow)
    BY <1>3, <2>1, <2>2, <2>3, <2>4, DanglingKept DEF GatherInv
  <2>7. KeptReleasedString'
    BY <1>3, <1>4, <2>3, <2>5, <2>6
  <2> QED
    BY <2>7 DEF KeptExplained
<1>8. CASE ~ GroupStepOnReleased /\ ~ ReadReleasedResult
  <2>1. fault' = "kept" => fault = "kept"
    <3>1. SortNext => fault' \in {fault, "order"}
      BY DEF SortNext, SortFirstBlock, SortFirstBlockThrows, SortPull, SortCopy, SortCopying,
        SortCopyThrows, SortEndRow, SortEndOfInput, Sort, SortUndefined, SortThrows, SortedLeft,
        SortedRow, SortedRowThrows, SortedEnd, Crash, commonVars
    <3>2. GroupNext => fault' = fault
      BY <1>8 DEF GroupNext, GroupFirstBlock, GroupFirstFunctionBlock, Pulling, GroupStep,
        GroupPullNew, Cloning, CloneFunction, CloneToNextBlock, EnterGroup,
        GroupEndOfInput, SpareBlock, WritingResult, Writing, AddResult, ResultToNextBlock,
        ResultDropped, EndGroup, EndGroups, AsksForBlock, GroupBlockThrows,
        ReadingGroups, GroupedRow, GroupedRowThrows, GroupedEnd, ReleaseFunctionBlock, commonVars
    <3>3. ProjectNext => fault' = fault
      BY DEF ProjectNext, ProjectFirstBlock, ProjectFirstBlockThrows, Preparing, ProjectRow,
        EvaluatingItem, ProjectItem, ProjectItemToNext, ProjectItemThrows, ProjectEndRow,
        HandFullBlock, HandLastBlock, AtItem, ProjectedRowThrows, ProjectedEnd, ProjectedRow,
        ReadItem, NextItemBlock, ReadItemThrows, RowRead, UseProjectedRow, ReleaseRead, commonVars
    <3>4. InputThrows \/ Abandon \/ ReleaseBlocks \/ Close \/ UNCHANGED vars => fault' = fault
      BY DEF InputThrows, Abandon, ReleaseBlocks, Close, vars, commonVars
    <3> QED
      BY <3>1, <3>2, <3>3, <3>4 DEF Next, Stopped
  <2> QED
    BY <1>5, <2>1 DEF KeptExplained
<1> QED
  BY <1>6, <1>7, <1>8
-----------------------------------------------------------------------------
(* At the end the groups are the classes of the rows that were taken.      *)
AllGathered == outcome = "eof" /\ GatherInv
LEMMA GatheredTaken ==
  ASSUME InputTypes, InputInv, Stages, AllGathered
  PROVE  Gathered = ToSet(Taken) /\ Covered(Gathered)
<1>1. pc \in Ends /\ in.ends = 1
  BY DEF AllGathered, GatherInv, GatherStages, Stages
<1>2. pulled = Taken /\ pc \notin {"new", "crashed"}
  BY <1>1, PulledTaken DEF Ends
<1>3. Gathered = {pulled[k] : k \in DOMAIN pulled}
  BY <1>2, GatheredAll
<1> QED
  BY <1>2, <1>3 DEF ToSet, AllGathered, GatherInv

LEMMA MatesMeant ==
  ASSUME statement \in Statements, Grouping, NEW r
  PROVE  GroupMates(r) = IF Mates(r, r) THEN {s \in ToSet(Taken) : Mates(r, s)} ELSE {r}
<1> DEFINE cell(s, k) == Cell(s, statement.keys[k])
           keys == DOMAIN statement.keys
<1>1. \A s, t : Mates(s, t) <=>
        \A k \in keys : ~ cell(s, k).null /\ ~ cell(t, k).null /\ cell(s, k).n = cell(t, k).n
  BY KeyPlaces
<1>2. CASE Mates(r, r)
  <2>1. \A k \in keys : ~ cell(r, k).null
    BY <1>1, <1>2
  <2>2. GroupMates(r) = {s \in ToSet(Taken) :
          \A k \in keys : ~ cell(s, k).null /\ cell(s, k).n = cell(r, k).n}
    BY <2>1 DEF GroupMates
  <2>3. \A s : Mates(r, s) <=> \A k \in keys : ~ cell(s, k).null /\ cell(s, k).n = cell(r, k).n
    BY <1>1, <2>1
  <2> QED
    BY <1>2, <2>2, <2>3
<1>3. CASE ~ Mates(r, r)
  <2>1. \E k \in keys : cell(r, k).null
    BY <1>1, <1>3
  <2> QED
    BY <1>3, <2>1 DEF GroupMates
<1> QED
  BY <1>2, <1>3

LEMMA GroupIsClass ==
  ASSUME InputTypes, InputInv, Stages, AllGathered, Grouping,
         NEW g \in DOMAIN groups, NEW m \in groups[g].members
  PROVE  groups[g].members = GroupMates(m)
<1>1. Gathered = ToSet(Taken) /\ Covered(Gathered) /\ statement \in Statements
  BY GatheredTaken DEF InputTypes
<1>2. /\ groups[g].members \subseteq ToSet(Taken)
      /\ \A r, s \in groups[g].members : r # s => Mates(r, s)
  BY <1>1 DEF AllGathered, GatherInv, GroupsHold, GroupHolds
<1>3. CASE Mates(m, m)
  <2>1. \A s \in groups[g].members : Mates(m, s)
    BY <1>2, <1>3
  <2>2. ASSUME NEW s \in ToSet(Taken), Mates(m, s) PROVE s \in groups[g].members
    <3>1. PICK h \in DOMAIN groups : s \in groups[h].members
      BY <1>1 DEF Covered
    <3>2. h = g
      BY <2>2, <3>1 DEF AllGathered, GatherInv, GroupsApart
    <3> QED
      BY <3>1, <3>2
  <2> QED
    BY <1>1, <1>2, <1>3, <2>1, <2>2, MatesMeant
<1>4. CASE ~ Mates(m, m)
  <2>1. \A s \in groups[g].members : s = m
    BY <1>1, <1>2, <1>4, MatesMeet
  <2>2. groups[g].members = {m}
    BY <2>1
  <2> QED
    BY <1>1, <1>4, <2>2, MatesMeant
<1> QED
  BY <1>3, <1>4

LEMMA GroupsFound ==
  ASSUME InputTypes, InputInv, Stages, GroupTypes, AllGathered, Grouping
  PROVE  /\ {groups[g].members : g \in DOMAIN groups} = {GroupMates(r) : r \in ToSet(Taken)}
         /\ Len(groups) = Cardinality({GroupMates(r) : r \in ToSet(Taken)})
<1>1. Gathered = ToSet(Taken) /\ Covered(Gathered)
  BY GatheredTaken
<1>2. \A g \in DOMAIN groups : groups[g].members \subseteq ToSet(Taken) /\ groups[g].members # {}
  BY <1>1 DEF AllGathered, GatherInv, GroupsHold, GroupHolds
<1> DEFINE classes == {groups[g].members : g \in DOMAIN groups}
<1>3. classes = {GroupMates(r) : r \in ToSet(Taken)}
  <2>1. ASSUME NEW g \in DOMAIN groups PROVE \E r \in ToSet(Taken) : groups[g].members = GroupMates(r)
    <3>1. PICK m \in groups[g].members : m \in ToSet(Taken)
      BY <1>2
    <3> QED
      BY <3>1, GroupIsClass
  <2>2. ASSUME NEW r \in ToSet(Taken) PROVE \E g \in DOMAIN groups : GroupMates(r) = groups[g].members
    <3>1. PICK g \in DOMAIN groups : r \in groups[g].members
      BY <1>1 DEF Covered
    <3> QED
      BY <3>1, GroupIsClass
  <2> QED
    BY <2>1, <2>2
<1>4. PICK n \in Nat : n = Len(groups) /\ DOMAIN groups = 1 .. n
  BY DEF GroupTypes
<1>5. Cardinality(classes) = n
  <2>1. PICK S : S = 1 .. n /\ IsFiniteSet(S) /\ Cardinality(S) = n
    <3>1. IsFiniteSet(1 .. n) /\ Cardinality(1 .. n) = n
      BY FS_Interval
    <3> QED
      BY <3>1
  <2>2. PICK T : T = classes
    OBVIOUS
  <2>3. PICK f : f = [g \in S |-> groups[g].members]
    OBVIOUS
  <2>4. f \in [S -> T] /\ \A g \in S : f[g] = groups[g].members
    BY <1>4, <2>1, <2>2, <2>3
  <2>5. ASSUME NEW g \in S, NEW h \in S, g # h PROVE f[g] # f[h]
    <3>1. PICK m \in groups[g].members : TRUE
      BY <1>2, <1>4, <2>1
    <3>2. m \notin groups[h].members
      BY <1>4, <2>1, <2>5 DEF AllGathered, GatherInv, GroupsApart
    <3> QED
      BY <2>4, <3>1, <3>2
  <2>6. \A t \in T : \E g \in S : f[g] = t
    BY <1>4, <2>1, <2>2, <2>4
  <2>7. f \in Bijection(S, T)
    <3>1. f \in Injection(S, T)
      BY <2>4, <2>5 DEF Injection, IsInjective
    <3>2. f \in Surjection(S, T)
      BY <2>4, <2>6 DEF Surjection
    <3> QED
      BY <3>1, <3>2 DEF Bijection
  <2>8. Cardinality(S) = Cardinality(T)
    BY <2>1, <2>7, FS_Bijection DEF ExistsBijection
  <2> QED
    BY <2>1, <2>2, <2>8
<1> QED
  BY <1>3, <1>4, <1>5

LEMMA AggregateFound ==
  ASSUME InputTypes, InputInv, Stages, GroupTypes, AllGathered, Aggregating
  PROVE  Len(groups) = 1 /\ groups[1].members = ToSet(Taken)
<1>1. Gathered = ToSet(Taken) /\ Covered(Gathered)
  BY GatheredTaken
<1>2. Len(groups) = 1
  <2>1. pc # "first"
    BY DEF AllGathered, Stages, Ends
  <2> QED
    BY <2>1 DEF AllGathered, GatherInv, GatherStages
<1>3. DOMAIN groups = {1}
  BY <1>2 DEF GroupTypes
<1>4. groups[1].members \subseteq ToSet(Taken)
  BY <1>1, <1>3 DEF AllGathered, GatherInv, GroupsHold, GroupHolds
<1> QED
  BY <1>1, <1>2, <1>3, <1>4 DEF Covered

(* A value that passes through is one of the key: where it is NULL, the    *)
(* row is a group of its own.                                              *)
LEMMA PassedKey ==
  ASSUME InputTypes, Grouping \/ Aggregating, GroupsHold(Gathered), NEW g \in DOMAIN groups,
         NEW f \in DOMAIN Functions, Functions[f].function = "PATHTHROUGH"
  PROVE  /\ groups[g].members # {}
         /\ \A r \in groups[g].members : Argument(f, r).null => groups[g].members = {r}
<1>1. Functions[f] \in ToSet(Functions) /\ statement \in Statements
  BY FunctionTypes DEF ToSet, InputTypes
<1>2. Grouping /\ Functions[f].column \in ToSet(statement.keys)
  BY <1>1, StatementsAssumption DEF Functions, Grouping, Aggregating
<1>3. PICK k \in DOMAIN statement.keys : statement.keys[k] = Functions[f].column
  BY <1>2 DEF ToSet
<1>4. /\ groups[g].members # {}
      /\ \A r, s \in groups[g].members : r # s => Mates(r, s)
  BY <1>2 DEF GroupsHold, GroupHolds
<1>5. ASSUME NEW r \in groups[g].members, NEW s \in groups[g].members, Argument(f, r).null
      PROVE  s = r
  <2>1. ~ Mates(r, s)
    BY <1>1, <1>2, <1>3, <1>5, KeyPlaces DEF Argument
  <2> QED
    BY <1>4, <2>1
<1> QED
  BY <1>4, <1>5

(* The results of a group are what its functions mean.                     *)
LEMMA ResultFunction ==
  ASSUME InputTypes, Grouping \/ Aggregating, NEW c \in DOMAIN Results
  PROVE  Results[c] \in DOMAIN Functions
BY FunctionTypes DEF InputTypes

LEMMA ResultsExplained ==
  ASSUME InputTypes, InputInv, Grouping \/ Aggregating, GroupsHold(Gathered),
         NEW g \in DOMAIN groups, NEW c \in DOMAIN Results
  PROVE  /\ ResultExplained(Results[c], groups[g].members, Result(g, c))
         /\ Result(g, c).size \in Nat
         /\ Lost(Result(g, c).size) => LostValue
<1>1. PICK f \in DOMAIN Functions : f = Results[c]
  BY ResultFunction
<1>2. PICK v \in [RowNumbers -> CellValues] :
        v = ArgumentsOf(f) /\ \A r \in RowNumbers : v[r] = Argument(f, r)
  BY FunctionArguments DEF InputTypes
<1>3. PICK a, S : a = groups[g].functions[f] /\ S = groups[g].members
  OBVIOUS
<1>4. Reflects(a, Functions[f].function, v, S) /\ S \in SUBSET RowNumbers /\ IsFiniteSet(S)
  BY <1>2, <1>3, GatheredRows DEF GroupsHold, GroupHolds
<1>5. Result(g, c) = Finalized(a)
  BY <1>1, <1>3 DEF Result
<1>6. ResultExplained(f, S, Finalized(a))
  <2>1. PICK w : w = [r \in S |-> v[r]]
    OBVIOUS
  <2>2. [r \in S |-> Argument(f, r)] = w
    BY <1>2, <1>4, <2>1
  <2>3. Functions[f].function = "PATHTHROUGH" => S # {} /\ \A r \in S : v[r].null => S = {r}
    BY <1>2, <1>3, <1>4, PassedKey
  <2>4. IF Finalized(a).null
        THEN Meant(Functions[f].function, S, w) = {}
             \/ (Functions[f].function = "COUNT" /\ Meant(Functions[f].function, S, w) = {0})
        ELSE Finalized(a).n \in Meant(Functions[f].function, S, w)
    BY <1>4, <2>1, <2>3, FinalizedExplained
  <2> QED
    BY <2>2, <2>4 DEF ResultExplained
<1>7. Lost(Finalized(a).size) => LostValue
  <2>1. SUFFICES ASSUME NEW r \in S, Lost(v[r].size) PROVE LostValue
    BY <1>4, LostResult
  <2>2. v[r] = Cell(r, Functions[f].column) /\ Functions[f].column \in Columns /\ r \in DOMAIN Rows
    <3>1. Functions[f].column \in Columns
      BY FunctionArguments DEF FunctionsOn, InputTypes
    <3>2. DOMAIN Rows = RowNumbers
      <4>1. PICK T : statement.rows \in Seq(T) /\ statement.more \in Seq(T)
        BY StatementsAssumption DEF InputRows, InputTypes
      <4>2. Rows \in Seq(T)
        BY <4>1 DEF Rows
      <4> QED
        BY <4>2 DEF RowNumbers
    <3> QED
      BY <1>2, <1>4, <3>1, <3>2 DEF Argument
  <2> QED
    BY <2>1, <2>2 DEF LostValue
<1>8. Finalized(a).size \in Nat
  BY <1>4, LostResult
<1> QED
  BY <1>1, <1>3, <1>5, <1>6, <1>7, <1>8
-----------------------------------------------------------------------------
(***************************************************************************)
(* The results of the groups: rows that are written one behind the other.  *)
(* A row is whole unless a value was lost, or did not fit into the block   *)
(* of an aggregation.                                                      *)
(***************************************************************************)
Excused == LostValue \/ LargeResult
RowSoFar(mem, p, r, c) == WholeSoFar(mem, p, r, c) \/ (Excused /\ CutSoFar(mem, p, c))
ResultRow(mem, p, q, r, n) ==
  \E sizes \in Seq(Nat) :
    Len(sizes) = n /\ (Fit(sizes, n) \/ Excused) /\ Spans(mem, p, q, r, sizes)

LEMMA FreshIs ==
  ASSUME NEW m \in Memories, NEW n \in Nat, n = Len(m)
  PROVE  Fresh(m) = [k \in 1 .. n + 1 |-> IF k = n + 1 THEN <<>> ELSE m[k]]
<1>1. PICK none \in Seq(Cells) : none = <<>>
  BY EmptySeq
<1>2. PICK f : f = Append(m, none)
  OBVIOUS
<1>3. m \in Seq(Seq(Cells))
  BY DEF Memories
<1>4. f \in Seq(Seq(Cells)) /\ Len(f) = n + 1
      /\ \A k \in 1 .. n + 1 : f[k] = IF k = n + 1 THEN none ELSE m[k]
  BY <1>2, <1>3
<1>5. f = [k \in 1 .. n + 1 |-> f[k]]
  BY <1>4
<1> QED
  BY <1>1, <1>2, <1>4, <1>5 DEF Fresh

LEMMA PutFresh ==
  ASSUME NEW m \in Memories, NEW cell \in Cells
  PROVE  Append(m, <<cell>>) = Put(Fresh(m), cell)
<1>1. PICK n \in Nat : n = Len(m) /\ DOMAIN m = 1 .. n
  BY DEF Memories
<1>2. PICK none \in Seq(Cells) : none = <<>>
  BY EmptySeq
<1>3. Fresh(m) = [k \in 1 .. n + 1 |-> IF k = n + 1 THEN none ELSE m[k]]
  BY <1>1, <1>2, FreshIs
<1>4. Append(none, cell) = <<cell>>
  BY <1>2
<1>5. Len(Fresh(m)) = n + 1
  BY <1>1, FreshBlock
<1>6. Put(Fresh(m), cell) = [k \in 1 .. n + 1 |-> IF k = n + 1 THEN <<cell>> ELSE m[k]]
  BY <1>1, <1>3, <1>4, <1>5 DEF Put
<1>7. Append(m, <<cell>>) = [k \in 1 .. n + 1 |-> IF k = n + 1 THEN <<cell>> ELSE m[k]]
  BY <1>1 DEF Memories
<1> QED
  BY <1>6, <1>7

(* One more value: in the same block, in the next one, in none.            *)
LEMMA ValueAdded ==
  ASSUME NEW mem \in Memories, mem # <<>>, NEW p \in Positions, NEW r \in Nat, NEW c \in Nat,
         RowSoFar(mem, p, r, c)
  PROVE  RowSoFar(Put(mem, Value(r, c + 1)), p, r, c + 1)
<1>1. CASE WholeSoFar(mem, p, r, c)
  <2>1. PICK pos \in [1 .. c -> Positions] :
          Chain(mem, pos, c, p) /\ Holds(mem, pos, c, r) /\ Behind(pos, c, p) = EndOf(mem)
    BY <1>1 DEF WholeSoFar
  <2>2. Waits(mem, Behind(pos, c, p))
    BY <2>1 DEF Waits
  <2> QED
    BY <2>1, <2>2, WholeAdded DEF RowSoFar
<1>2. CASE Excused /\ CutSoFar(mem, p, c)
  <2>1. PICK cell \in Cells : cell = Value(r, c + 1) /\ cell.tag = "AA"
    <3>1. Value(r, c + 1) \in Cells
      BY DEF Value, Cells
    <3> QED
      BY <3>1 DEF Value
  <2>2. CutSoFar(Put(mem, cell), p, c + 1)
    BY <1>2, <2>1, CutAdded
  <2> QED
    BY <1>2, <2>1, <2>2 DEF RowSoFar
<1> QED
  BY <1>1, <1>2 DEF RowSoFar

LEMMA ValueMoved ==
  ASSUME NEW mem \in Memories, mem # <<>>, NEW p \in Positions, NEW r \in Nat, NEW c \in Nat,
         RowSoFar(mem, p, r, c)
  PROVE  RowSoFar(Put(Fresh(Put(mem, NextBlock)), Value(r, c + 1)), p, r, c + 1)
<1>1. PICK next \in Memories :
        /\ next = Fresh(Put(mem, NextBlock)) /\ next # <<>> /\ Grows(mem, next)
        /\ Waits(next, EndOf(mem))
  BY Closed
<1>2. CASE WholeSoFar(mem, p, r, c)
  <2>1. PICK pos \in [1 .. c -> Positions] :
          Chain(mem, pos, c, p) /\ Holds(mem, pos, c, r) /\ Behind(pos, c, p) = EndOf(mem)
    BY <1>2 DEF WholeSoFar
  <2>2. Waits(next, Behind(pos, c, p))
    BY <1>1, <2>1
  <2>3. Chain(next, pos, c, p) /\ Holds(next, pos, c, r)
    BY <1>1, <2>1, ChainGrows DEF Holds
  <2> QED
    BY <1>1, <2>2, <2>3, WholeAdded DEF RowSoFar
<1>3. CASE Excused /\ CutSoFar(mem, p, c)
  <2>1. PICK cell \in Cells : cell = Value(r, c + 1) /\ cell.tag = "AA"
    <3>1. Value(r, c + 1) \in Cells
      BY DEF Value, Cells
    <3> QED
      BY <3>1 DEF Value
  <2>2. CutSoFar(next, p, c)
    BY <1>1, <1>3, CutClosed
  <2>3. CutSoFar(Put(next, cell), p, c + 1)
    BY <1>1, <2>1, <2>2, CutAdded
  <2> QED
    BY <1>1, <1>3, <2>1, <2>3 DEF RowSoFar
<1> QED
  BY <1>2, <1>3 DEF RowSoFar

LEMMA ValueLost ==
  ASSUME NEW mem \in Memories, mem # <<>>, NEW p \in Positions, NEW r \in Nat, NEW c \in Nat,
         RowSoFar(mem, p, r, c), Excused
  PROVE  RowSoFar(Fresh(Put(mem, NextBlock)), p, r, c + 1)
<1>1. CASE WholeSoFar(mem, p, r, c)
  BY <1>1, WholeBreaks DEF RowSoFar
<1>2. CASE CutSoFar(mem, p, c)
  <2>1. PICK next : next = Fresh(Put(mem, NextBlock))
    OBVIOUS
  <2>2. CutSoFar(next, p, c)
    BY <1>2, <2>1, CutClosed
  <2>3. CutSoFar(next, p, c + 1)
    BY <2>2, CutLonger
  <2> QED
    BY <2>1, <2>3 DEF RowSoFar
<1> QED
  BY <1>1, <1>2 DEF RowSoFar

LEMMA ValueDropped ==
  ASSUME NEW mem \in Memories, NEW p \in Positions, NEW r \in Nat, NEW c \in Nat,
         RowSoFar(mem, p, r, c), Excused
  PROVE  RowSoFar(mem, p, r, c + 1)
<1>1. CASE WholeSoFar(mem, p, r, c)
  <2>1. PICK pos \in [1 .. c -> Positions] :
          Chain(mem, pos, c, p) /\ Behind(pos, c, p) = EndOf(mem)
    BY <1>1 DEF WholeSoFar
  <2>2. c \in 0 .. (c + 1) - 1 /\ Waits(mem, Behind(pos, c, p))
    BY <2>1 DEF Waits
  <2> QED
    BY <2>1, <2>2 DEF RowSoFar, CutSoFar
<1>2. CASE CutSoFar(mem, p, c)
  BY <1>2, CutLonger DEF RowSoFar
<1> QED
  BY <1>1, <1>2 DEF RowSoFar

(* The row begins: nothing of it is there.                                 *)
LEMMA RowOpens ==
  ASSUME NEW mem, NEW p \in Positions, NEW r, p = EndOf(mem)
  PROVE  WholeSoFar(mem, p, r, 0)
<1>1. PICK pos \in [1 .. 0 -> Positions] : TRUE
  <2>1. [i \in 1 .. 0 |-> p] \in [1 .. 0 -> Positions]
    OBVIOUS
  <2> QED
    BY <2>1
<1>2. Chain(mem, pos, 0, p) /\ Holds(mem, pos, 0, r) /\ Behind(pos, 0, p) = EndOf(mem)
  BY DEF Chain, Holds, Behind
<1> QED
  BY <1>2 DEF WholeSoFar

(* The marker behind it.                                                   *)
LEMMA RowCloses ==
  ASSUME NEW mem \in Memories, mem # <<>>, NEW p \in Positions, NEW r \in Nat,
         NEW n \in Nat \ {0}, RowSoFar(mem, p, r, n), HasSizeFor(Empty, 1),
         NEW cell \in Cells, cell.tag = "BB"
  PROVE  ResultRow(Put(mem, cell), p, EndOf(mem), r, n)
<1>1. Capacity \in Nat
  BY CopiesAssumption
<1>2. CASE WholeSoFar(mem, p, r, n)
  <2>1. PICK sizes : sizes = [i \in 1 .. n |-> 1]
    OBVIOUS
  <2>2. sizes \in Seq(Nat) /\ Len(sizes) = n /\ Fit(sizes, n)
    BY <2>1 DEF Fit
  <2>3. Copied(mem, p, r, sizes, Len(sizes))
    BY <1>2, <2>2 DEF Copied
  <2> QED
    BY <2>2, <2>3, EndCopied DEF ResultRow
<1>3. CASE Excused /\ CutSoFar(mem, p, n)
  <2>1. PICK sizes : sizes = [i \in 1 .. n |-> Capacity]
    OBVIOUS
  <2>2. sizes \in Seq(Nat) /\ Len(sizes) = n
    BY <1>1, <2>1
  <2>3. ~ Fit(sizes, n)
    <3>1. 1 \in 1 .. n /\ sizes[1] = Capacity
      BY <2>1
    <3>2. ~ HasSizeFor(Empty, Capacity)
      BY <1>1 DEF HasSizeFor, Empty
    <3> QED
      BY <3>1, <3>2 DEF Fit
  <2>4. Copied(mem, p, r, sizes, Len(sizes))
    BY <1>3, <2>2, <2>3 DEF Copied
  <2> QED
    BY <1>3, <2>2, <2>4, EndCopied DEF ResultRow
<1> QED
  BY <1>2, <1>3 DEF RowSoFar

LEMMA ResultRowGrows ==
  ASSUME NEW mem, NEW new, Grows(mem, new), NEW p \in Positions, NEW q \in Positions,
         NEW r, NEW n, ResultRow(mem, p, q, r, n)
  PROVE  ResultRow(new, p, q, r, n)
BY SpanGrows DEF ResultRow

(* The row that is read back.                                              *)
LEMMA ReadsResult ==
  ASSUME NEW p \in Positions, NEW q \in Positions, NEW r, NEW n \in Nat \ {0},
         ResultRow(Memory, p, q, r, n)
  PROVE  /\ TagAt(p) # "DD"
         /\ Complete(p, n) =>
              /\ RowAt(p, n) = [c \in 1 .. n |-> <<r, c>>]
              /\ q = After(ValuePositions(p, n)[n]) /\ q.offset # 0
         /\ ~ Complete(p, n) => Excused
<1>1. PICK sizes \in Seq(Nat) :
        Len(sizes) = n /\ (Fit(sizes, n) \/ Excused) /\ Spans(Memory, p, q, r, sizes)
  BY DEF ResultRow
<1>2. sizes \in Seq(Nat) \ {<<>>}
  BY <1>1
<1> QED
  BY <1>1, <1>2, ReadsSpan, SpanBegins
-----------------------------------------------------------------------------
(* The bytes that the results of a row take.                               *)
LEMMA SumStep ==
  ASSUME NEW n \in Nat, NEW w, \A x \in 1 .. n : w[x] \in Nat, NEW m \in 0 .. n
  PROVE  /\ SumOf(w, 1 .. m) \in Int
         /\ m < n => SumOf(w, 1 .. m + 1) = SumOf(w, 1 .. m) + w[m + 1] /\ w[m + 1] \in Nat
<1>1. PICK S : S = 1 .. m /\ IsFiniteSet(S) /\ \A x \in S : w[x] \in Int
  BY FS_Interval
<1>2. SumOf(w, S) \in Int
  BY <1>1, SumFirst
<1>3. ASSUME m < n
      PROVE  SumOf(w, 1 .. m + 1) = SumOf(w, S) + w[m + 1] /\ w[m + 1] \in Nat
  <2>1. PICK x : x = m + 1
    OBVIOUS
  <2>2. x \notin S /\ w[x] \in Int /\ 1 .. m + 1 = S \cup {x} /\ w[x] \in Nat
    BY <1>1, <1>3, <2>1
  <2>3. IsFiniteSet(S) /\ \A y \in S : w[y] \in Int
    BY <1>1
  <2>4. SumOf(w, S \cup {x}) = SumOf(w, S) + w[x]
    BY <2>2, <2>3, SumAdds
  <2> QED
    BY <1>1, <2>1, <2>2, <2>4
<1> QED
  BY <1>1, <1>2, <1>3

LEMMA SumGrows ==
  ASSUME NEW n \in Nat, NEW w, \A x \in 1 .. n : w[x] \in Nat, NEW c \in 0 .. n
  PROVE  SumOf(w, 1 .. c) \in Int /\ SumOf(w, 1 .. c) <= SumOf(w, 1 .. n)
<1>1. ASSUME NEW m \in 0 .. n
      PROVE  /\ SumOf(w, 1 .. m) \in Int
             /\ m < n => SumOf(w, 1 .. m + 1) = SumOf(w, 1 .. m) + w[m + 1] /\ w[m + 1] \in Nat
  BY SumStep
<1> DEFINE F == {d \in Nat : c + d <= n => SumOf(w, 1 .. c) <= SumOf(w, 1 .. c + d)}
<1>2. 0 \in F
  BY <1>1
<1>3. ASSUME NEW d \in Nat, d \in F PROVE d + 1 \in F
  <2>1. SUFFICES ASSUME c + (d + 1) <= n PROVE SumOf(w, 1 .. c) <= SumOf(w, 1 .. c + (d + 1))
    OBVIOUS
  <2>2. PICK m \in 0 .. n : m = c + d /\ m < n /\ m + 1 = c + (d + 1)
    BY <2>1
  <2>3. SumOf(w, 1 .. c) <= SumOf(w, 1 .. m)
    BY <1>3, <2>2
  <2>4. SumOf(w, 1 .. m + 1) = SumOf(w, 1 .. m) + w[m + 1] /\ w[m + 1] \in Nat
    BY <1>1, <2>2
  <2>5. SumOf(w, 1 .. c) \in Int /\ SumOf(w, 1 .. m) \in Int
    BY <1>1
  <2>6. SumOf(w, 1 .. c) <= SumOf(w, 1 .. m + 1)
    BY <2>3, <2>4, <2>5
  <2> QED
    BY <2>2, <2>6
<1>4. Nat \subseteq F
  <2> HIDE DEF F
  <2> QED
    BY <1>2, <1>3, NatSetInduction
<1>5. n - c \in F /\ c + (n - c) = n /\ n \in Nat
  BY <1>4
<1> QED
  BY <1>1, <1>5

RowSizes == [c \in DOMAIN Results |-> 1 + Result(1, c).size]
RowBytes == MapThenSumSet(LAMBDA c : 1 + Result(1, c).size, DOMAIN Results)
BytesTo(S, f) ==
  f = [T \in SUBSET S |->
         IF T = {} THEN 0
         ELSE (1 + Result(1, CHOOSE x \in T : TRUE).size) + f[T \ {CHOOSE x \in T : TRUE}]]
LEMMA RowBytesAreSum ==
  ASSUME IsFiniteSet(DOMAIN Results)
  PROVE  RowBytes = SumOf(RowSizes, DOMAIN Results)
<1>1. PICK S, w : S = DOMAIN Results /\ w = RowSizes
  OBVIOUS
<1>2. IsFiniteSet(S) /\ \A c \in S : w[c] = 1 + Result(1, c).size
  BY <1>1 DEF RowSizes
<1>3. RowBytes = (CHOOSE f : BytesTo(S, f))[S]
  BY <1>1 DEF RowBytes, BytesTo, MapThenSumSet, MapThenFoldSet
<1>4. ASSUME NEW f PROVE BytesTo(S, f) <=> SumTo(w, S, f)
  <2>1. \A T \in SUBSET S : T # {} =>
          1 + Result(1, CHOOSE x \in T : TRUE).size = w[CHOOSE x \in T : TRUE]
    BY <1>2
  <2>2. [T \in SUBSET S |->
           IF T = {} THEN 0
           ELSE (1 + Result(1, CHOOSE x \in T : TRUE).size) + f[T \ {CHOOSE x \in T : TRUE}]]
        = [T \in SUBSET S |->
           IF T = {} THEN 0
           ELSE w[CHOOSE x \in T : TRUE] + f[T \ {CHOOSE x \in T : TRUE}]]
    BY <2>1
  <2> QED
    BY <2>2 DEF BytesTo, SumTo
<1>5. PICK g : g = (CHOOSE f : BytesTo(S, f))
  OBVIOUS
<1>6. SumTo(w, S, g)
  BY <1>2, <1>4, <1>5, SumExists
<1>7. SumTo(w, S, SumsOver(w, S))
  BY <1>2, SumIs
<1>8. g[S] = SumsOver(w, S)[S]
  BY <1>2, <1>6, <1>7, SumAgrees
<1> QED
  BY <1>1, <1>3, <1>5, <1>8 DEF SumOf

(* With the same groups the same is excused.                               *)
LargeRow == Aggregating /\ 1 + SumOf(RowSizes, DOMAIN Results) >= Capacity
LEMMA LargeIs == IsFiniteSet(DOMAIN Results) => (LargeResult <=> LargeRow)
<1>1. LargeResult <=> Aggregating /\ 1 + RowBytes >= Capacity
  BY DEF LargeResult, RowBytes
<1> QED
  BY <1>1, RowBytesAreSum DEF LargeRow

LEMMA SameExcused ==
  ASSUME statement \in Statements, Grouping \/ Aggregating, UNCHANGED <<statement, groups>>
  PROVE  /\ RowSizes' = RowSizes /\ (Excused' <=> Excused)
         /\ \A g, c : Result(g, c)' = Result(g, c)
<1>1. Results' = Results /\ (Aggregating' <=> Aggregating) /\ \A g, c : Result(g, c)' = Result(g, c)
  BY DEF Results, Aggregating, Result
<1>2. RowSizes' = RowSizes
  BY <1>1 DEF RowSizes
<1>3. LargeRow' <=> LargeRow
  BY <1>1, <1>2 DEF LargeRow
<1>4. IsFiniteSet(DOMAIN Results)
  <2>1. PICK n \in Nat : DOMAIN Results = 1 .. n
    <3>1. PICK T : Results \in Seq(T)
      BY FunctionTypes
    <3> QED
      BY <3>1
  <2> QED
    BY <2>1, FS_Interval
<1>5. IsFiniteSet(DOMAIN Results)'
  BY <1>1, <1>4
<1>6. LargeResult <=> LargeRow
  BY <1>4, LargeIs
<1>7. (LargeResult <=> LargeRow)'
  BY <1>5, LargeIs, PTL
<1>8. LostValue' <=> LostValue
  BY SameRows
<1> QED
  BY <1>1, <1>2, <1>3, <1>6, <1>7, <1>8 DEF Excused

(* The blocks of the results: those that are written, and with a GROUP BY  *)
(* an empty one ahead.                                                     *)
Ahead(mem) == IF Grouping THEN Fresh(mem) ELSE mem

LEMMA AheadBlocks ==
  ASSUME Filed, Stored, Held, NEW mem \in Memories, mem # <<>>, Memory = Ahead(mem),
         NEW n, n = Len(mem)
  PROVE  /\ n \in Nat \ {0} /\ DOMAIN mem = 1 .. n /\ n \in DOMAIN cache
         /\ DOMAIN cache = 1 .. (IF Grouping THEN n + 1 ELSE n)
         /\ \A k \in DOMAIN cache : cache[k] \in 1 .. sBlockNumber
         /\ \A k \in 1 .. n : store[cache[k]].cells = mem[k] /\ mem[k] \in Seq(Cells)
         /\ Grouping => store[cache[n + 1]].cells = <<>>
         /\ \A k \in DOMAIN cache : k # n => cache[k] # cache[n]
         /\ \A k \in DOMAIN cache : Memory[k] = store[cache[k]].cells
<1>1. n \in Nat \ {0} /\ DOMAIN mem = 1 .. n /\ \A k \in 1 .. n : mem[k] \in Seq(Cells)
  BY DEF Memories
<1>2. Fresh(mem) = [k \in 1 .. n + 1 |-> IF k = n + 1 THEN <<>> ELSE mem[k]]
  BY <1>1, FreshIs
<1>3. DOMAIN Memory = DOMAIN cache /\ \A k \in DOMAIN cache :
        Memory[k] = store[cache[k]].cells /\ cache[k] \in 1 .. sBlockNumber
  BY MemoryTypes DEF Memory
<1>4. DOMAIN Memory = 1 .. (IF Grouping THEN n + 1 ELSE n)
  BY <1>1, <1>2 DEF Ahead
<1>5. \A k \in 1 .. n : Memory[k] = mem[k]
  BY <1>1, <1>2 DEF Ahead
<1>6. Grouping => Memory[n + 1] = <<>>
  BY <1>1, <1>2 DEF Ahead
<1>7. n \in DOMAIN cache /\ \A k \in 1 .. n : k \in DOMAIN cache
  BY <1>1, <1>3, <1>4
<1>8. \A k \in DOMAIN cache : k # n => cache[k] # cache[n]
  BY <1>7 DEF Filed, Held
<1>9. Grouping => n + 1 \in DOMAIN cache
  BY <1>1, <1>3, <1>4
<1> QED
  BY <1>1, <1>3, <1>4, <1>5, <1>6, <1>7, <1>8, <1>9

LEMMA ResultWritten ==
  ASSUME Filed, Stored, Held, NEW mem \in Memories, mem # <<>>, Memory = Ahead(mem),
         UNCHANGED <<cache, statement>>, NEW cell \in Cells, NEW content,
         content.cells = Append(store[cache[Len(mem)]].cells, cell),
         store' = [store EXCEPT ![cache[Len(mem)]] = content]
  PROVE  Memory' = Ahead(Put(mem, cell)) /\ Held'
<1>1. PICK n : n = Len(mem)
  OBVIOUS
<1>2. /\ n \in Nat \ {0} /\ DOMAIN mem = 1 .. n /\ n \in DOMAIN cache
      /\ DOMAIN cache = 1 .. (IF Grouping THEN n + 1 ELSE n)
      /\ \A k \in DOMAIN cache : cache[k] \in 1 .. sBlockNumber
      /\ \A k \in 1 .. n : store[cache[k]].cells = mem[k] /\ mem[k] \in Seq(Cells)
      /\ Grouping => store[cache[n + 1]].cells = <<>>
      /\ \A k \in DOMAIN cache : k # n => cache[k] # cache[n]
  BY <1>1, AheadBlocks
<1>3. PICK b : b = cache[n] /\ b \in 1 .. sBlockNumber
  BY <1>2
<1>4. /\ store'[b] = content
      /\ \A d \in 1 .. sBlockNumber : d # b => store'[d] = store[d]
  BY <1>1, <1>3 DEF Stored
<1>5. PICK new : new = Put(mem, cell) /\ new \in Memories /\ Len(new) = n
  BY <1>1, PutCell
<1>6. new = [k \in 1 .. n |-> IF k = n THEN content.cells ELSE mem[k]]
  BY <1>1, <1>2, <1>5 DEF Put
<1>7. Memory' = [k \in DOMAIN cache |-> store'[cache[k]].cells]
  BY DEF Memory
<1>8. \A k \in 1 .. n : k \in DOMAIN cache /\ store'[cache[k]].cells = new[k]
  <2>1. SUFFICES ASSUME NEW k \in 1 .. n
        PROVE k \in DOMAIN cache /\ store'[cache[k]].cells = new[k]
    OBVIOUS
  <2>2. k \in DOMAIN cache
    BY <1>2
  <2>3. CASE k = n
    BY <1>3, <1>4, <1>6, <2>2, <2>3
  <2>4. CASE k # n
    BY <1>2, <1>3, <1>4, <1>6, <2>2, <2>4
  <2> QED
    BY <2>2, <2>3, <2>4
<1>9. CASE Grouping
  <2>1. DOMAIN cache = 1 .. n + 1 /\ n + 1 \in DOMAIN cache /\ n + 1 # n
    BY <1>2, <1>9
  <2>2. store'[cache[n + 1]].cells = <<>>
    BY <1>2, <1>3, <1>4, <1>9, <2>1
  <2>3. Fresh(new) = [k \in 1 .. n + 1 |-> IF k = n + 1 THEN <<>> ELSE new[k]]
    BY <1>2, <1>5, FreshIs
  <2>4. \A k \in 1 .. n + 1 : store'[cache[k]].cells = IF k = n + 1 THEN <<>> ELSE new[k]
    <3>1. \A k \in 1 .. n + 1 : k = n + 1 \/ (k # n + 1 /\ k \in 1 .. n)
      BY <1>2
    <3> QED
      BY <1>8, <2>2, <3>1
  <2>5. Memory' = Fresh(new)
    BY <1>7, <2>1, <2>3, <2>4
  <2> QED
    BY <1>5, <1>9, <2>5 DEF Ahead, Held, NoBlock, BM!NoBlock
<1>10. CASE ~ Grouping
  <2>1. DOMAIN cache = 1 .. n
    BY <1>2, <1>10
  <2>2. Memory' = new
    <3>1. new = [k \in 1 .. n |-> new[k]]
      BY <1>6
    <3>2. Memory' = [k \in 1 .. n |-> store'[cache[k]].cells]
      BY <1>7, <2>1
    <3> QED
      BY <1>8, <3>1, <3>2
  <2> QED
    BY <1>5, <1>10, <2>2 DEF Ahead, Held, NoBlock, BM!NoBlock
<1> QED
  BY <1>9, <1>10

(* A block more.                                                           *)
LEMMA BlockAppended ==
  ASSUME Filed, Stored, Held, NEW contents \in [1 .. sBlockNumber -> Contents],
         BM!CreateBlock, cache' = Append(cache, sBlockNumber'),
         store' = Append(contents, Empty)
  PROVE  /\ Held'
         /\ [k \in DOMAIN cache |-> contents[cache[k]].cells] \in Memories
         /\ Memory' = Fresh([k \in DOMAIN cache |-> contents[cache[k]].cells])
<1>1. PICK b : b = sBlockNumber + 1
  OBVIOUS
<1>2. sBlockNumber \in Nat /\ sBlockNumber' = b /\ b \in Nat \ {0}
  BY <1>1 DEF Filed, BM!CreateBlock
<1>3. PICK n \in Nat : n = Len(cache) /\ DOMAIN cache = 1 .. n
  BY DEF Filed
<1>4. /\ DOMAIN cache' = 1 .. n + 1 /\ cache'[n + 1] = b
      /\ \A k \in 1 .. n : cache'[k] = cache[k] /\ cache[k] \in 1 .. sBlockNumber
  <2>1. \A k \in 1 .. n : cache[k] \in 1 .. sBlockNumber
    BY <1>3, MemoryTypes
  <2> QED
    BY <1>2, <1>3, <2>1 DEF Filed
<1>5. /\ store'[b] = Empty
      /\ \A d \in 1 .. sBlockNumber : store'[d] = contents[d]
  <2>1. contents \in Seq(Contents) /\ Len(contents) = sBlockNumber
    BY <1>2
  <2> QED
    BY <1>1, <1>2, <2>1
<1>6. Held'
  <2>1. \A k \in 1 .. n + 1 : k = n + 1 \/ k \in 1 .. n
    BY <1>3
  <2> QED
    BY <1>2, <1>3, <1>4, <2>1 DEF Held, NoBlock, BM!NoBlock
<1>7. PICK m : m = [k \in DOMAIN cache |-> contents[cache[k]].cells]
  OBVIOUS
<1>8. m \in Memories /\ Len(m) = n
  <2>1. \A k \in 1 .. n : contents[cache[k]].cells \in Seq(Cells)
    BY <1>4 DEF Contents
  <2>2. m \in [1 .. n -> Seq(Cells)]
    BY <1>3, <1>7, <2>1
  <2> QED
    BY <1>3, <2>2 DEF Memories
<1>9. Fresh(m) = [k \in 1 .. n + 1 |-> IF k = n + 1 THEN <<>> ELSE m[k]]
  BY <1>8, FreshIs
<1>10. \A k \in 1 .. n + 1 : store'[cache'[k]].cells = IF k = n + 1 THEN <<>> ELSE m[k]
  <2>1. store'[cache'[n + 1]].cells = <<>>
    <3>1. Empty.cells = <<>>
      BY DEF Empty
    <3>2. store'[cache'[n + 1]] = Empty
      BY <1>4, <1>5
    <3> QED
      BY <3>1, <3>2
  <2>2. \A k \in 1 .. n : store'[cache'[k]].cells = m[k]
    BY <1>3, <1>4, <1>5, <1>7
  <2>3. \A k \in 1 .. n + 1 : k = n + 1 \/ (k # n + 1 /\ k \in 1 .. n)
    BY <1>3
  <2> QED
    BY <2>1, <2>2, <2>3
<1>11. Memory' = [k \in 1 .. n + 1 |-> store'[cache'[k]].cells]
  BY <1>4 DEF Memory
<1>12. Memory' = Fresh(m)
  BY <1>9, <1>10, <1>11
<1> QED
  BY <1>6, <1>7, <1>8, <1>12

LEMMA ResultMoved ==
  ASSUME Filed, Stored, Held, Grouping, UNCHANGED statement,
         NEW mem \in Memories, mem # <<>>, Memory = Ahead(mem),
         NEW closed \in Contents,
         closed.cells = Append(store[cache[Len(mem)]].cells, NextBlock),
         NEW next \in Contents,
         BM!CreateBlock, cache' = Append(cache, sBlockNumber'),
         store' = Append([store EXCEPT ![cache[Len(mem)]] = closed,
                                       ![cache[Len(mem) + 1]] = next], Empty)
  PROVE  Held' /\ Memory' = Ahead(Append(Put(mem, NextBlock), next.cells))
<1>1. PICK n : n = Len(mem)
  OBVIOUS
<1>2. /\ n \in Nat \ {0} /\ DOMAIN mem = 1 .. n /\ n \in DOMAIN cache
      /\ DOMAIN cache = 1 .. n + 1
      /\ \A k \in DOMAIN cache : cache[k] \in 1 .. sBlockNumber
      /\ \A k \in 1 .. n : store[cache[k]].cells = mem[k] /\ mem[k] \in Seq(Cells)
      /\ \A k \in DOMAIN cache : k # n => cache[k] # cache[n]
  BY <1>1, AheadBlocks
<1>3. PICK b, d : b = cache[n] /\ d = cache[n + 1]
  OBVIOUS
<1>4. /\ n + 1 \in DOMAIN cache /\ b \in 1 .. sBlockNumber /\ d \in 1 .. sBlockNumber /\ b # d
      /\ \A k \in 1 .. n : k # n => cache[k] # b /\ cache[k] # d
  <2>1. n + 1 \in DOMAIN cache /\ n + 1 # n
    BY <1>2
  <2>2. b \in 1 .. sBlockNumber /\ d \in 1 .. sBlockNumber /\ b # d
    BY <1>2, <1>3, <2>1
  <2>3. ASSUME NEW k \in 1 .. n, k # n PROVE cache[k] # b /\ cache[k] # d
    <3>1. k \in DOMAIN cache /\ k # n + 1
      BY <1>2
    <3> QED
      BY <1>2, <1>3, <2>1, <2>3, <3>1 DEF Filed, Held
  <2> QED
    BY <2>1, <2>2, <2>3
<1>5. PICK contents : contents = [store EXCEPT ![b] = closed, ![d] = next]
  OBVIOUS
<1>6. /\ contents \in [1 .. sBlockNumber -> Contents]
      /\ contents[b] = closed /\ contents[d] = next
      /\ \A x \in 1 .. sBlockNumber : x # b /\ x # d => contents[x] = store[x]
  BY <1>4, <1>5 DEF Stored
<1>7. store' = Append(contents, Empty)
  BY <1>1, <1>3, <1>5
<1>8. PICK m : m = [k \in DOMAIN cache |-> contents[cache[k]].cells]
  OBVIOUS
<1>9. Held' /\ Memory' = Fresh(m)
  BY <1>6, <1>7, <1>8, BlockAppended
<1>10. PICK put \in Memories : put = Put(mem, NextBlock) /\ Len(put) = n
  <2>1. NextBlock \in Cells
    BY DEF NextBlock, Mark, Cells
  <2> QED
    BY <1>1, <2>1, PutCell
<1>11. put = [k \in 1 .. n |-> IF k = n THEN closed.cells ELSE mem[k]]
  BY <1>1, <1>2, <1>10 DEF Put
<1>12. PICK cells \in Seq(Cells) : cells = next.cells
  BY DEF Contents
<1>13. Append(put, cells) = [k \in 1 .. n + 1 |-> IF k = n + 1 THEN cells ELSE put[k]]
  <2>1. put \in Seq(Seq(Cells))
    BY <1>10 DEF Memories
  <2>2. PICK f : f = Append(put, cells)
    OBVIOUS
  <2>3. f \in Seq(Seq(Cells)) /\ Len(f) = n + 1
        /\ \A k \in 1 .. n + 1 : f[k] = IF k = n + 1 THEN cells ELSE put[k]
    BY <1>2, <1>10, <2>1, <2>2
  <2>4. f = [k \in 1 .. n + 1 |-> f[k]]
    BY <2>3
  <2> QED
    BY <2>2, <2>3, <2>4
<1>14. \A k \in 1 .. n + 1 : m[k] = IF k = n + 1 THEN cells ELSE put[k]
  <2>1. m[n + 1] = cells
    BY <1>2, <1>3, <1>4, <1>6, <1>8, <1>12
  <2>2. ASSUME NEW k \in 1 .. n PROVE m[k] = put[k]
    <3>1. k \in DOMAIN cache /\ m[k] = contents[cache[k]].cells
      BY <1>2, <1>8
    <3>2. CASE k = n
      BY <1>3, <1>6, <1>11, <3>1, <3>2
    <3>3. CASE k # n
      <4>1. cache[k] # b /\ cache[k] # d /\ cache[k] \in 1 .. sBlockNumber
        BY <1>2, <1>4, <3>1, <3>3
      <4> QED
        BY <1>2, <1>6, <1>11, <3>1, <3>3, <4>1
    <3> QED
      BY <3>2, <3>3
  <2>3. \A k \in 1 .. n + 1 : k = n + 1 \/ (k # n + 1 /\ k \in 1 .. n)
    BY <1>2
  <2> QED
    BY <2>1, <2>2, <2>3
<1>15. m = [k \in 1 .. n + 1 |-> m[k]]
  BY <1>2, <1>8
<1>16. m = Append(put, cells)
  BY <1>13, <1>14, <1>15
<1> QED
  BY <1>9, <1>10, <1>12, <1>16, SameKeys DEF Ahead
-----------------------------------------------------------------------------
(* Until the end of the input the block for the results is empty.          *)
Gathering == {"functions", "pull", "new", "spare"}
ResultsBlank ==
  /\ pc \in {"first"} \cup Gathering => delivered = <<>> /\ target = [block |-> 1, group |-> 1]
  /\ pc \in Gathering => Held /\ Len(cache) = 1 /\ store[cache[1]] = Empty
  /\ Grouping /\ pc \in {"pull", "new"} => functionBlocks # <<>>
  /\ pc = "spare" => col = 1

(* Then it and the ones behind it have the rows of the groups before       *)
(* target, and a part of the row of that one.                              *)
ResultRows(mem, ends) ==
  /\ mem \in Memories /\ ends \in Seq(Positions)
  /\ \A k \in 1 .. Len(ends) : ResultRow(mem, RowBegin(ends, k), ends[k], k, Len(Results))
BytesCounted ==
  Aggregating /\ target.group = 1 =>
    Excused \/ store[cache[1]].used = SumOf(RowSizes, 1 .. col - 1)
ResultsAhead(mem, ends) ==
  /\ mem # <<>> /\ Memory = Ahead(mem) /\ Len(mem) = target.block
  /\ Len(ends) = target.group - 1 /\ target.group <= Len(groups) + 1
  /\ col <= Len(Results) + 1 /\ (target.group = Len(groups) + 1 => col = 1)
  /\ RowSoFar(mem, NextBegin(ends), target.group, col - 1)
  /\ BytesCounted
ResultsWritten ==
  pc = "write" =>
    /\ Held /\ delivered = <<>>
    /\ \E mem, ends : ResultRows(mem, ends) /\ ResultsAhead(mem, ends)

(* They are read one by one.                                               *)
ResultsRead ==
  pc = "next" =>
    /\ Held
    /\ \E ends :
         /\ ResultRows(Memory, ends) /\ Len(ends) = Len(groups)
         /\ IsIn(Memory, NextBegin(ends)) /\ CellIn(Memory, NextBegin(ends)).tag = "DD"
         /\ GroupStart = RowBegin(ends, Len(delivered) + 1)

DeliveredGroups ==
  /\ Len(delivered) \in Nat /\ Len(delivered) <= Len(groups)
  /\ delivered = [k \in 1 .. Len(delivered) |-> [c \in DOMAIN Results |-> <<k, c>>]]
  /\ outcome = "eof" => Len(delivered) = Len(groups)
GroupTroubles ==
  /\ totalBlocks \in Nat /\ sBlockNumber <= totalBlocks
  /\ outcome = "threw" /\ BM!Refused = 0 => Excused
WriteInv ==
  ResultsBlank /\ ResultsWritten /\ ResultsRead /\ DeliveredGroups /\ GroupTroubles

WritePremise == GroupPremise /\ GatherInv /\ WriteInv

LEMMA GroupTroublesStay ==
  ASSUME GroupTroubles, UNCHANGED <<totalBlocks, sBlockNumber>>,
         outcome' = "threw" => Excused' \/ (outcome = "threw" /\ (Excused => Excused'))
  PROVE  GroupTroubles'
BY DEF GroupTroubles, BM!Refused

LEMMA GroupTroublesPush ==
  ASSUME TypeIInv, GroupTroubles, BM!CreateBlock, outcome' # "threw"
  PROVE  GroupTroubles'
<1>1. totalBlocks' = totalBlocks + 1 /\ sBlockNumber' = sBlockNumber + 1
  BY DEF BM!CreateBlock, BM!CountRequest
<1>2. sBlockNumber \in Nat
  BY DEF TypeIInv, StoreTypes
<1> QED
  BY <1>1, <1>2 DEF GroupTroubles

LEMMA GroupTroublesRefuse ==
  ASSUME TypeIInv, GroupTroubles, BM!CreateBlockThrows
  PROVE  GroupTroubles'
<1>1. totalBlocks' = totalBlocks + 1 /\ sBlockNumber' = sBlockNumber
  BY DEF BM!CreateBlockThrows, BM!CountRequest
<1>2. sBlockNumber \in Nat /\ totalBlocks \in Nat /\ sBlockNumber <= totalBlocks
  BY DEF TypeIInv, StoreTypes, GroupTroubles
<1>3. BM!Refused' # 0 /\ totalBlocks' \in Nat /\ sBlockNumber' <= totalBlocks'
  BY <1>1, <1>2 DEF BM!Refused
<1> QED
  BY <1>3 DEF GroupTroubles

LEMMA WriteFacts ==
  ASSUME WritePremise
  PROVE  /\ statement \in Statements /\ (Grouping \/ Aggregating) /\ ~ (Grouping /\ Aggregating)
         /\ Filed /\ Stored /\ groups \in Seq(GroupRecords) /\ groups' \in Seq(GroupRecords)
         /\ \E n \in Nat \ {0} : n = Len(Results) /\ DOMAIN Results = 1 .. n
         /\ Results' = Results /\ (Grouping' <=> Grouping) /\ (Aggregating' <=> Aggregating)
         /\ pc \notin Ends => outcome = "open"
<1>1. statement \in Statements /\ (Grouping \/ Aggregating) /\ TypeIInv /\ Keeping
      /\ TypeIInv' /\ UNCHANGED statement
  BY DEF WritePremise, GroupPremise, TypeIInv, Stages
<1>2. ~ (Grouping /\ Aggregating)
  BY DEF Grouping, Aggregating
<1>3. Filed /\ Stored
  BY <1>1, FiledByLedger
<1>4. Results' = Results /\ (Grouping' <=> Grouping) /\ (Aggregating' <=> Aggregating)
  BY <1>1, SameKeys
<1>5. groups \in Seq(GroupRecords) /\ groups' \in Seq(GroupRecords)
  <2>1. GroupRecords' = GroupRecords
    BY <1>1, SameKeys DEF GroupRecords, Accumulators
  <2> QED
    BY <1>1, <1>4, <2>1 DEF TypeIInv, GroupTypes
<1>6. \E n \in Nat \ {0} : n = Len(Results) /\ DOMAIN Results = 1 .. n
  <2>1. PICK T : Results \in Seq(T) \ {<<>>}
    BY <1>1, FunctionTypes
  <2> QED
    BY <2>1
<1>7. pc \notin Ends => outcome = "open"
  BY <1>1 DEF TypeIInv, Stages
<1> QED
  BY <1>1, <1>2, <1>3, <1>4, <1>5, <1>6, <1>7

(* Nothing is delivered.                                                   *)
LEMMA NothingDelivered ==
  ASSUME WritePremise, delivered' = <<>>, outcome' # "eof"
  PROVE  DeliveredGroups'
<1>1. groups' \in Seq(GroupRecords) /\ Len(delivered') = 0
  BY WriteFacts
<1>2. delivered' = [k \in 1 .. 0 |-> [c \in DOMAIN Results' |-> <<k, c>>]]
  OBVIOUS
<1> QED
  BY <1>1, <1>2 DEF DeliveredGroups

LEMMA WriteEnds ==
  ASSUME WritePremise, pc' \in Ends \cup {"crashed"}, UNCHANGED <<groups, delivered>>,
         outcome' = "eof" => outcome = "eof" \/ Len(delivered) = Len(groups),
         GroupTroubles'
  PROVE  WriteInv'
<1>1. ResultsBlank' /\ ResultsWritten' /\ ResultsRead'
  BY DEF ResultsBlank, Gathering, ResultsWritten, ResultsRead, Ends
<1>2. DeliveredGroups'
  BY WriteFacts DEF WritePremise, WriteInv, DeliveredGroups
<1> QED
  BY <1>1, <1>2 DEF WriteInv

LEMMA BlankStays ==
  ASSUME WritePremise, pc \in Gathering, pc' \in Gathering, UNCHANGED <<cache, delivered, target, outcome>>,
         store'[cache[1]] = Empty, GroupTroubles',
         Grouping /\ pc' \in {"pull", "new"} => functionBlocks' # <<>>,
         pc' = "spare" => col' = 1
  PROVE  WriteInv'
<1>1. delivered = <<>> /\ outcome = "open"
  BY WriteFacts DEF WritePremise, WriteInv, ResultsBlank, Gathering, Ends
<1>2. ResultsBlank'
  BY <1>1, WriteFacts DEF WritePremise, WriteInv, ResultsBlank, Held, NoBlock, BM!NoBlock, Gathering
<1>3. ResultsWritten' /\ ResultsRead'
  BY DEF Gathering, ResultsWritten, ResultsRead
<1>4. DeliveredGroups'
  BY <1>1, NothingDelivered
<1> QED
  BY <1>2, <1>3, <1>4 DEF WriteInv

LEMMA WriteGoesOn ==
  ASSUME WritePremise, pc' = "write", Held', delivered' = <<>>, outcome' = "open", GroupTroubles',
         NEW mem, NEW ends, ResultRows(mem, ends)', ResultsAhead(mem, ends)'
  PROVE  WriteInv'
<1>1. ResultsBlank' /\ ResultsRead'
  BY DEF ResultsBlank, ResultsRead, Gathering
<1>2. ResultsWritten'
  BY DEF ResultsWritten
<1> QED
  BY <1>1, <1>2, NothingDelivered DEF WriteInv

(* Before the end of the input.                                            *)
LEMMA BlankBlock ==
  ASSUME WritePremise, pc \in Gathering
  PROVE  /\ outcome = "open" /\ delivered = <<>> /\ target = [block |-> 1, group |-> 1]
         /\ Held /\ DOMAIN cache = {1} /\ cache[1] \in 1 .. sBlockNumber /\ store[cache[1]] = Empty
         /\ Memory = <<(<<>>)>> /\ Memory \in Memories /\ pc \notin Ends
<1>1. /\ outcome = "open" /\ delivered = <<>> /\ target = [block |-> 1, group |-> 1]
      /\ Held /\ Len(cache) = 1 /\ store[cache[1]] = Empty /\ pc \notin Ends
  BY WriteFacts DEF WritePremise, WriteInv, ResultsBlank, Gathering, Ends
<1>2. Filed /\ Stored
  BY WriteFacts
<1>3. DOMAIN cache = {1}
  BY <1>1, <1>2 DEF Filed
<1>4. cache[1] \in 1 .. sBlockNumber /\ Memory \in Memories
  BY <1>1, <1>2, <1>3, MemoryTypes
<1>5. Memory = <<(<<>>)>>
  <2>1. Empty.cells = <<>>
    BY DEF Empty
  <2>2. store[cache[1]].cells = <<>>
    BY <1>1, <2>1
  <2>3. DOMAIN Memory = {1} /\ Memory[1] = <<>> /\ Memory = [k \in {1} |-> Memory[k]]
    BY <1>3, <2>2 DEF Memory
  <2>4. Memory \in Seq(Seq(Cells)) /\ Len(Memory) = 1
    BY <1>1, <1>2, <1>4, MemoryTypes DEF Memories
  <2> QED
    BY <2>3, <2>4
<1> QED
  BY <1>1, <1>3, <1>4, <1>5

LEMMA WriteFirst ==
  ASSUME WritePremise, GroupFirstBlock
  PROVE  WriteInv'
<1>1. /\ pc = "first" /\ pc' = (IF Grouping THEN "functions" ELSE "pull") /\ PushBlock(Empty)
      /\ UNCHANGED <<delivered, outcome, target>>
  BY DEF GroupFirstBlock, GoTo, commonVars
<1>2. outcome = "open" /\ delivered = <<>> /\ target = [block |-> 1, group |-> 1]
  BY <1>1, WriteFacts DEF WritePremise, WriteInv, ResultsBlank, Ends
<1>3. cache = <<>> /\ sBlockNumber \in Nat /\ Filed /\ Stored
  BY <1>1, WriteFacts DEF WritePremise, GroupPremise, Keeping, KeepShape, Filed
<1>4. sBlockNumber' = sBlockNumber + 1 /\ cache' = Append(cache, sBlockNumber')
      /\ store'[sBlockNumber'] = Empty
  BY <1>1, <1>3 DEF PushBlock, BM!CreateBlock
<1>5. Len(cache') = 1 /\ DOMAIN cache' = {1} /\ cache'[1] = sBlockNumber' /\ sBlockNumber' # 0
  BY <1>3, <1>4
<1>6. Held'
  BY <1>5 DEF Held, NoBlock, BM!NoBlock
<1>7. ResultsBlank'
  BY <1>1, <1>2, <1>4, <1>5, <1>6, WriteFacts DEF ResultsBlank, Gathering
<1>8. ResultsWritten' /\ ResultsRead'
  BY <1>1 DEF ResultsWritten, ResultsRead
<1>9. GroupTroubles'
  BY <1>1, <1>2, GroupTroublesPush DEF PushBlock, WritePremise, GroupPremise, WriteInv
<1> QED
  BY <1>1, <1>2, <1>7, <1>8, <1>9, NothingDelivered DEF WriteInv

(* A block for functions is not the one for results.                       *)
LEMMA WriteFunctions ==
  ASSUME WritePremise, GroupFirstFunctionBlock \/ CloneFunction \/ CloneToNextBlock
  PROVE  WriteInv'
<1>1. /\ pc \in {"functions", "new"} /\ pc' \in {"pull", "new"}
      /\ UNCHANGED <<cache, delivered, target, outcome>>
  BY DEF GroupFirstFunctionBlock, CloneFunction, CloneToNextBlock, Cloning, PushFunctionBlock,
    GoTo, commonVars
<1>2. pc \in Gathering /\ pc' \in Gathering
  BY <1>1 DEF Gathering
<1>3. outcome = "open" /\ cache[1] \in 1 .. sBlockNumber /\ store[cache[1]] = Empty /\ DOMAIN cache = {1}
  BY <1>2, BlankBlock
<1>4. /\ sBlockNumber \in Nat /\ store \in [1 .. sBlockNumber -> Contents]
      /\ functionBlocks \in Seq(NewerBlocks)
      /\ \A i \in DOMAIN cache, j \in DOMAIN functionBlocks : cache[i] # functionBlocks[j]
  BY WriteFacts DEF Filed, Stored, WritePremise, GroupPremise, Keeping, Ledger
<1>5. CASE CloneFunction
  <2>1. /\ pc = "new" /\ UNCHANGED <<functionBlocks, managerVars>>
        /\ store' = [store EXCEPT ![Last(functionBlocks)] = WithFunction(@)]
    BY <1>5 DEF CloneFunction, Cloning
  <2>2. Grouping /\ functionBlocks # <<>>
    <3>1. Grouping
      BY <2>1 DEF WritePremise, GatherInv, GatherStages
    <3> QED
      BY <2>1, <3>1 DEF WritePremise, WriteInv, ResultsBlank
  <2>3. Last(functionBlocks) # cache[1]
    BY <1>3, <1>4, <2>2 DEF Last
  <2>4. store'[cache[1]] = Empty
    BY <1>3, <1>4, <2>1, <2>3
  <2>5. GroupTroubles'
    BY <1>1, <1>3, <2>1, GroupTroublesStay DEF managerVars, WritePremise, WriteInv
  <2> QED
    BY <1>1, <1>2, <2>1, <2>2, <2>4, <2>5, BlankStays
<1>6. CASE GroupFirstFunctionBlock \/ CloneToNextBlock
  <2>1. PICK content : PushFunctionBlock(content)
    BY <1>6 DEF GroupFirstFunctionBlock, CloneToNextBlock
  <2>2. store' = Append(store, content) /\ BM!CreateBlock
        /\ functionBlocks' = Append(functionBlocks, sBlockNumber')
    BY <2>1 DEF PushFunctionBlock
  <2>3. functionBlocks' # <<>>
    <3>1. PICK b : b = sBlockNumber'
      OBVIOUS
    <3>2. Len(functionBlocks') = Len(functionBlocks) + 1 /\ Len(functionBlocks) \in Nat
      BY <1>4, <2>2
    <3> QED
      BY <3>2
  <2>4. store'[cache[1]] = Empty
    <3>1. store \in Seq(Contents) /\ Len(store) = sBlockNumber
      BY <1>4
    <3> QED
      BY <1>3, <2>2, <3>1
  <2>5. GroupTroubles'
    BY <1>1, <1>3, <2>2, GroupTroublesPush DEF WritePremise, GroupPremise, WriteInv
  <2> QED
    BY <1>1, <1>2, <2>3, <2>4, <2>5, BlankStays
<1> QED
  BY <1>5, <1>6

LEMMA WriteRows ==
  ASSUME WritePremise, GroupStep \/ GroupPullNew \/ EnterGroup \/ (GroupEndOfInput /\ Grouping)
  PROVE  WriteInv'
<1>1. /\ pc \in {"pull", "new"} /\ pc' \in {"pull", "new", "spare"}
      /\ UNCHANGED <<copyVars, delivered, target, outcome, functionBlocks>>
      /\ pc' = "spare" => col' = 1
  BY DEF GroupStep, GroupPullNew, EnterGroup, GroupEndOfInput, Pulling, GoTo, commonVars
<1>2. pc \in Gathering /\ pc' \in Gathering /\ UNCHANGED <<cache, store, totalBlocks, sBlockNumber>>
  BY <1>1 DEF Gathering, copyVars, managerVars
<1>3. outcome = "open" /\ store[cache[1]] = Empty
  BY <1>2, BlankBlock
<1>4. GroupTroubles'
  BY <1>1, <1>2, <1>3, GroupTroublesStay DEF WritePremise, WriteInv
<1>5. Grouping => functionBlocks # <<>>
  BY <1>1 DEF WritePremise, WriteInv, ResultsBlank
<1> QED
  BY <1>1, <1>2, <1>3, <1>4, <1>5, BlankStays

(* The results are about to be written.                                    *)
NoEnds == [k \in 1 .. 0 |-> Start]
LEMMA ResultsBegin ==
  ASSUME WritePremise, pc \in Gathering, pc' = "write", UNCHANGED <<delivered, outcome, target>>,
         col' = 1, GroupTroubles', Held', NEW mem, mem = <<(<<>>)>>, Memory' = Ahead(mem),
         Aggregating => UNCHANGED <<cache, store>>
  PROVE  WriteInv'
<1>1. /\ outcome = "open" /\ delivered = <<>> /\ target = [block |-> 1, group |-> 1]
      /\ store[cache[1]] = Empty
  BY BlankBlock
<1>2. mem \in Memories /\ mem # <<>> /\ Len(mem) = 1 /\ EndOf(mem) = Start
  <2>1. PICK none \in Seq(Cells) : none = <<>> /\ Len(none) = 0
    BY EmptySeq
  <2>2. mem \in Seq(Seq(Cells)) /\ Len(mem) = 1 /\ mem[1] = none
    BY <2>1
  <2> QED
    BY <2>1, <2>2 DEF Memories, EndOf, Start
<1>3. PICK ends \in Seq(Positions) : Len(ends) = 0
  <2>1. NoEnds \in Seq(Positions) /\ Len(NoEnds) = 0
    BY DEF NoEnds
  <2> QED
    BY <2>1
<1>4. NextBegin(ends) = EndOf(mem) /\ NextBegin(ends) \in Positions
  BY <1>2, <1>3 DEF NextBegin, RowBegin, Start, Positions
<1>5. ResultRows(mem, ends)'
  BY <1>2, <1>3 DEF ResultRows
<1>6. RowSoFar(mem, NextBegin(ends), 1, 0)'
  <2>1. PICK p \in Positions : p = NextBegin(ends) /\ p = EndOf(mem)
    BY <1>4
  <2>2. WholeSoFar(mem, p, 1, 0)
    BY <2>1, RowOpens
  <2> QED
    BY <2>1, <2>2 DEF RowSoFar
<1>7. BytesCounted'
  <2>1. SUFFICES ASSUME Aggregating PROVE (store[cache[1]].used = SumOf(RowSizes, 1 .. col - 1))'
    BY WriteFacts DEF BytesCounted
  <2>2. store'[cache'[1]] = Empty
    BY <1>1, <2>1
  <2>3. Empty.used = 0
    BY DEF Empty
  <2>4. 1 .. col' - 1 = {}
    OBVIOUS
  <2>5. PICK w : w = RowSizes'
    OBVIOUS
  <2>6. SumOf(w, {}) = 0
    <3>1. PICK S : S = {}
      OBVIOUS
    <3>2. IsFiniteSet(S) /\ \A x \in S : w[x] \in Int
      BY <3>1, FS_EmptySet
    <3>3. SumOf(w, {}) = 0
      BY <3>2, SumFirst
    <3> QED
      BY <3>3
  <2> QED
    BY <2>2, <2>3, <2>4, <2>5, <2>6
<1>8. PICK n \in Nat \ {0} : n = Len(Results) /\ Results' = Results
  BY WriteFacts
<1>9. groups' \in Seq(GroupRecords) /\ (Grouping' <=> Grouping)
  BY WriteFacts
<1>10. ResultsAhead(mem, ends)'
  <2>1. (mem # <<>> /\ Memory = Ahead(mem) /\ Len(mem) = target.block)'
    BY <1>1, <1>2, <1>9 DEF Ahead
  <2>2. (Len(ends) = target.group - 1 /\ target.group <= Len(groups) + 1)'
    BY <1>1, <1>3, <1>9
  <2>3. (col <= Len(Results) + 1 /\ (target.group = Len(groups) + 1 => col = 1))'
    BY <1>8
  <2>4. RowSoFar(mem, NextBegin(ends), target.group, col - 1)'
    <3>1. target'.group = 1 /\ col' - 1 = 0
      BY <1>1
    <3> QED
      BY <1>6, <3>1
  <2> QED
    BY <1>7, <2>1, <2>2, <2>3, <2>4 DEF ResultsAhead
<1> QED
  BY <1>1, <1>5, <1>10, WriteGoesOn

LEMMA WriteAggregate ==
  ASSUME WritePremise, GroupEndOfInput, Aggregating
  PROVE  WriteInv'
<1>1. /\ pc = "pull" /\ pc' = "write" /\ col' = 1
      /\ UNCHANGED <<copyVars, delivered, target, outcome>>
  BY WriteFacts DEF GroupEndOfInput, Pulling, GoTo
<1>2. pc \in Gathering /\ UNCHANGED <<cache, store, totalBlocks, sBlockNumber>>
  BY <1>1 DEF Gathering, copyVars, managerVars
<1>3. outcome = "open" /\ Held /\ Memory = <<(<<>>)>>
  BY <1>2, BlankBlock
<1>4. GroupTroubles'
  BY <1>1, <1>2, <1>3, GroupTroublesStay DEF WritePremise, WriteInv
<1>5. PICK mem : mem = <<(<<>>)>>
  OBVIOUS
<1>6. Held' /\ Memory' = Ahead(mem)
  BY <1>2, <1>3, <1>5, WriteFacts DEF Held, Memory, Ahead, NoBlock, BM!NoBlock
<1> QED
  BY <1>1, <1>2, <1>4, <1>5, <1>6, ResultsBegin

LEMMA WriteSpare ==
  ASSUME WritePremise, SpareBlock
  PROVE  WriteInv'
<1>1. /\ pc = "spare" /\ pc' = "write" /\ AppendBlock(store)
      /\ UNCHANGED <<delivered, target, outcome, col>>
  BY DEF SpareBlock, GoTo, commonVars
<1>2. pc \in Gathering /\ col' = 1 /\ Grouping
  <2>1. Grouping
    BY <1>1 DEF WritePremise, GroupPremise, TypeIInv, Stages, StagesOf, Ends, Grouping, Aggregating
  <2> QED
    BY <1>1, <2>1 DEF Gathering, WritePremise, WriteInv, ResultsBlank
<1>3. outcome = "open" /\ Held /\ Memory = <<(<<>>)>>
  BY <1>2, BlankBlock
<1>4. BM!CreateBlock /\ cache' = Append(cache, sBlockNumber') /\ store' = Append(store, Empty)
  BY <1>1 DEF AppendBlock
<1>5. PICK mem : mem = <<(<<>>)>>
  OBVIOUS
<1>6. Held' /\ Memory' = Fresh(mem)
  <2>1. PICK contents \in [1 .. sBlockNumber -> Contents] : contents = store
    BY WriteFacts DEF Stored
  <2>2. [k \in DOMAIN cache |-> contents[cache[k]].cells] = mem
    BY <1>3, <1>5, <2>1 DEF Memory
  <2>3. Held' /\ Memory' = Fresh([k \in DOMAIN cache |-> contents[cache[k]].cells])
    BY <1>3, <1>4, <2>1, WriteFacts, BlockAppended
  <2> QED
    BY <2>2, <2>3
<1>7. GroupTroubles'
  BY <1>1, <1>3, <1>4, GroupTroublesPush DEF WritePremise, GroupPremise, WriteInv
<1> QED
  BY <1>1, <1>2, <1>5, <1>6, <1>7, WriteFacts, ResultsBegin DEF Ahead

(* What a step that writes finds.                                          *)
LEMMA Writes ==
  ASSUME WritePremise, pc = "write"
  PROVE  /\ outcome = "open" /\ delivered = <<>> /\ Held
         /\ \E mem \in Memories, ends \in Seq(Positions) :
              /\ ResultRows(mem, ends) /\ ResultsAhead(mem, ends) /\ mem # <<>>
              /\ NextBegin(ends) \in Positions
         /\ \E n, g \in Nat \ {0}, c \in Nat :
              /\ n = Len(Results) /\ DOMAIN Results = 1 .. n
              /\ g = target.group /\ col = c + 1 /\ col - 1 = c
<1>1. outcome = "open" /\ delivered = <<>> /\ Held
  BY WriteFacts DEF WritePremise, WriteInv, ResultsWritten, Ends
<1>2. PICK mem, ends : ResultRows(mem, ends) /\ ResultsAhead(mem, ends)
  BY DEF WritePremise, WriteInv, ResultsWritten
<1>3. mem \in Memories /\ ends \in Seq(Positions) /\ mem # <<>>
  BY <1>2 DEF ResultRows, ResultsAhead
<1>4. NextBegin(ends) \in Positions
  <2>1. Len(ends) + 1 \in 1 .. Len(ends) + 1
    BY <1>3
  <2> QED
    BY <1>3, <2>1, RowBeginTypes DEF NextBegin
<1>5. PICK n \in Nat \ {0} : n = Len(Results) /\ DOMAIN Results = 1 .. n
  BY WriteFacts
<1>6. target.group \in Nat \ {0} /\ col \in Nat \ {0}
  BY DEF WritePremise, GroupPremise, TypeIInv, PlaceTypes
<1>7. col - 1 \in Nat /\ col = (col - 1) + 1
  BY <1>6
<1> QED
  BY <1>1, <1>2, <1>3, <1>4, <1>5, <1>6, <1>7

LEMMA RowsGrow ==
  ASSUME WritePremise, UNCHANGED groups, NEW mem, NEW ends, ResultRows(mem, ends),
         NEW new \in Memories, Grows(mem, new)
  PROVE  ResultRows(new, ends)'
<1>1. Excused' <=> Excused
  BY WriteFacts, SameExcused DEF WritePremise, GroupPremise
<1>2. PICK n : n = Len(Results) /\ Len(Results') = n
  BY WriteFacts
<1>3. ends \in Seq(Positions)
  BY DEF ResultRows
<1>4. ASSUME NEW k \in 1 .. Len(ends)
      PROVE  ResultRow(new, RowBegin(ends, k), ends[k], k, n)'
  <2>1. PICK p \in Positions, q \in Positions : p = RowBegin(ends, k) /\ q = ends[k]
    <3>1. k \in 1 .. Len(ends) + 1 /\ ends[k] \in Positions
      BY <1>3
    <3> QED
      BY <1>3, <3>1, RowBeginTypes
  <2>2. ResultRow(mem, p, q, k, n)
    BY <1>2, <2>1 DEF ResultRows
  <2>3. ResultRow(new, p, q, k, n)
    BY <2>2, ResultRowGrows
  <2>4. ResultRow(new, p, q, k, n)'
    BY <1>1, <2>3 DEF ResultRow
  <2> QED
    BY <2>1, <2>4
<1> QED
  BY <1>2, <1>3, <1>4 DEF ResultRows

LEMMA SoFarStays ==
  ASSUME Excused' <=> Excused, NEW mem, NEW p, NEW r, NEW c, RowSoFar(mem, p, r, c)
  PROVE  RowSoFar(mem, p, r, c)'
BY DEF RowSoFar

(* A value more.                                                           *)
LEMMA ResultTaken ==
  ASSUME WritePremise, pc = "write", pc' = pc, UNCHANGED <<groups, delivered, outcome>>,
         NEW mem \in Memories, NEW ends \in Seq(Positions), mem # <<>>,
         ResultRows(mem, ends), ResultsAhead(mem, ends), WritingResult,
         NEW new \in Memories, new # <<>>, Grows(mem, new),
         RowSoFar(new, NextBegin(ends), target.group, col),
         col' = col + 1, target' = [target EXCEPT !.block = Len(new)],
         Memory' = Ahead(new), Held', GroupTroubles', BytesCounted'
  PROVE  WriteInv'
<1>1. ResultRows(new, ends)'
  BY RowsGrow
<1>2. Excused' <=> Excused
  BY WriteFacts, SameExcused DEF WritePremise, GroupPremise
<1>3. PICK n, g \in Nat \ {0}, c \in Nat :
        n = Len(Results) /\ DOMAIN Results = 1 .. n /\ g = target.group /\ col = c + 1
  BY Writes
<1>4. target'.group = g /\ target'.block = Len(new) /\ Results' = Results /\ (Grouping' <=> Grouping)
  BY <1>3, WriteFacts DEF WritePremise, GroupPremise, TypeIInv, PlaceTypes
<1>5. PICK p : p = NextBegin(ends)
  OBVIOUS
<1>6. RowSoFar(new, p, g, c + 1)'
  BY <1>2, <1>3, <1>5, SoFarStays
<1>7. g \in DOMAIN groups /\ c + 1 <= n /\ groups \in Seq(GroupRecords)
  BY <1>3, WriteFacts DEF WritingResult, Writing
<1>8. ResultsAhead(new, ends)'
  <2>1. (new # <<>> /\ Memory = Ahead(new) /\ Len(new) = target.block)'
    BY <1>4 DEF Ahead
  <2>2. (Len(ends) = target.group - 1 /\ target.group <= Len(groups) + 1)'
    BY <1>3, <1>4 DEF ResultsAhead
  <2>3. (col <= Len(Results) + 1 /\ (target.group = Len(groups) + 1 => col = 1))'
    BY <1>3, <1>4, <1>7
  <2>4. RowSoFar(new, NextBegin(ends), target.group, col - 1)'
    <3>1. target'.group = g /\ col' - 1 = c + 1
      BY <1>3, <1>4
    <3> QED
      BY <1>5, <1>6, <3>1
  <2> QED
    BY <2>1, <2>2, <2>3, <2>4 DEF ResultsAhead
<1> QED
  BY <1>1, <1>8, Writes, WriteGoesOn

(* The one row of an aggregation.                                          *)
LEMMA OneRow ==
  ASSUME WritePremise, pc = "write", Aggregating, WritingResult
  PROVE  /\ target.group = 1 /\ target.block = 1 /\ DOMAIN cache = {1} /\ cache[1] \in 1 .. sBlockNumber
         /\ \E n \in Nat, c \in Nat :
              /\ DOMAIN Results = 1 .. n /\ col = c + 1 /\ col - 1 = c /\ c \in 0 .. n /\ c < n
              /\ \A x \in 1 .. n : RowSizes[x] \in Nat /\ RowSizes[x] = 1 + Result(1, x).size
              /\ ResultSize = Result(1, c + 1).size /\ ResultSize \in Nat
              /\ RowSizes[c + 1] = 1 + ResultSize
         /\ Excused \/ store[cache[1]].used = SumOf(RowSizes, 1 .. col - 1)
<1>1. groups \in Seq(GroupRecords) /\ target.group \in DOMAIN groups
  BY WriteFacts DEF WritingResult, Writing
<1>2. Len(groups) = 1 /\ target.group = 1
  <2>1. groups # <<>>
    BY <1>1
  <2>2. Len(groups) = 1
    BY <2>1 DEF WritePremise, GatherInv, GatherStages
  <2> QED
    BY <1>1, <2>2
<1>3. PICK mem \in Memories, ends \in Seq(Positions) : ResultsAhead(mem, ends) /\ mem # <<>>
  BY Writes
<1>4. /\ Memory = mem /\ Len(mem) = target.block /\ Filed /\ Stored /\ Held
  BY <1>3, Writes, WriteFacts DEF ResultsAhead, Ahead
<1>5. Len(cache) = Len(mem) /\ Len(mem) \in Nat \ {0} /\ Len(cache) <= 1
  BY <1>3, <1>4, MemoryTypes DEF Memories, WritePremise, GroupPremise, Keeping, KeepShape
<1>6. target.block = 1 /\ DOMAIN cache = {1} /\ cache[1] \in 1 .. sBlockNumber
  <2>1. Len(cache) = 1 /\ Len(mem) = 1
    BY <1>5
  <2>2. DOMAIN cache = {1}
    BY <1>4, <2>1 DEF Filed
  <2>3. cache[1] \in 1 .. sBlockNumber
    BY <1>4, <2>2, MemoryTypes
  <2> QED
    BY <1>4, <2>1, <2>2, <2>3
<1>7. PICK n \in Nat \ {0}, c \in Nat : DOMAIN Results = 1 .. n /\ col = c + 1 /\ col - 1 = c
  BY Writes
<1>8. c \in 0 .. n /\ c < n /\ c + 1 \in 1 .. n
  BY <1>7 DEF WritingResult
<1>9. \A x \in 1 .. n : Result(1, x).size \in Nat
  <2>1. 1 \in DOMAIN groups
    BY <1>1, <1>2
  <2> QED
    BY <1>7, <2>1, ResultsExplained DEF WritePremise, GroupPremise, GatherInv, TypeIInv
<1>10. \A x \in 1 .. n : RowSizes[x] \in Nat /\ RowSizes[x] = 1 + Result(1, x).size
  BY <1>7, <1>9 DEF RowSizes
<1>11. ResultSize = Result(1, c + 1).size
  BY <1>2, <1>7 DEF ResultSize
<1>12. Excused \/ store[cache[1]].used = SumOf(RowSizes, 1 .. col - 1)
  BY <1>2, <1>3 DEF ResultsAhead, BytesCounted
<1> QED
  BY <1>2, <1>6, <1>7, <1>8, <1>9, <1>10, <1>11, <1>12

LEMMA DropExcused ==
  ASSUME WritePremise, pc = "write", Aggregating, WritingResult,
         ~ HasSizeFor(store[ResultBlock], ResultSize)
  PROVE  Excused
<1>1. PICK n \in Nat, c \in Nat :
        /\ DOMAIN Results = 1 .. n /\ col = c + 1 /\ col - 1 = c /\ c \in 0 .. n /\ c < n
        /\ \A x \in 1 .. n : RowSizes[x] \in Nat /\ RowSizes[x] = 1 + Result(1, x).size
        /\ ResultSize = Result(1, c + 1).size /\ ResultSize \in Nat
        /\ RowSizes[c + 1] = 1 + ResultSize
  BY OneRow
<1>2. PICK size \in Nat : size = ResultSize
  BY <1>1
<1>14. PICK used, w : used = store[cache[1]].used /\ w = RowSizes
  OBVIOUS
<1>3. SUFFICES ASSUME used = SumOf(w, 1 .. c) PROVE LargeResult
  BY <1>1, <1>2, <1>14, OneRow DEF Excused
<1>4. /\ SumOf(w, 1 .. c) \in Int /\ SumOf(w, 1 .. c + 1) = SumOf(w, 1 .. c) + (1 + size)
  BY <1>1, <1>2, <1>14, SumStep
<1>5. c + 1 \in 0 .. n
  BY <1>1
<1>6. SumOf(w, 1 .. c + 1) <= SumOf(w, 1 .. n)
  BY <1>1, <1>2, <1>14, <1>5, SumGrows
<1>7. SumOf(w, 1 .. n) \in Int
  <2>1. n \in 0 .. n
    OBVIOUS
  <2> QED
    BY <1>1, <1>2, <1>14, <2>1, SumGrows
<1>8. used + size + 2 >= Capacity
  <2>1. ~ HasSizeFor(store[cache[1]], size)
    BY <1>2, <1>14, OneRow DEF ResultBlock
  <2>2. used \in Int /\ Capacity \in Nat
    BY <1>3, <1>4, CopiesAssumption
  <2> QED
    BY <1>2, <1>14, <2>1, <2>2 DEF HasSizeFor
<1>9. 1 + SumOf(w, 1 .. n) >= Capacity
  <2>1. PICK a, b, d \in Int :
          a = SumOf(w, 1 .. c) /\ b = SumOf(w, 1 .. c + 1) /\ d = SumOf(w, 1 .. n)
    BY <1>4, <1>7
  <2>2. b = a + (1 + size) /\ b <= d /\ used = a /\ Capacity \in Nat
    BY <1>3, <1>4, <1>6, <2>1, CopiesAssumption
  <2> QED
    BY <1>8, <2>1, <2>2
<1>10. LargeRow
  BY <1>1, <1>2, <1>14, <1>9 DEF LargeRow
<1>11. IsFiniteSet(DOMAIN Results)
  BY <1>1, FS_Interval
<1> QED
  BY <1>10, <1>11, LargeIs

(* Where the next value goes.                                              *)
LEMMA ResultPlace ==
  ASSUME WritePremise, pc = "write", WritingResult,
         NEW mem \in Memories, mem # <<>>, NEW ends \in Seq(Positions), ResultsAhead(mem, ends)
  PROVE  /\ Memory = Ahead(mem) /\ Filed /\ Stored /\ Held
         /\ ResultBlock = cache[Len(mem)] /\ ResultBlock \in 1 .. sBlockNumber
         /\ store[ResultBlock] \in Contents
         /\ target = [target EXCEPT !.block = Len(mem)]
         /\ \E n, g \in Nat \ {0}, c \in Nat :
              /\ n = Len(Results) /\ DOMAIN Results = 1 .. n
              /\ g = target.group /\ col = c + 1 /\ col - 1 = c
         /\ \E size \in Nat : size = ResultSize /\ (Lost(size) => Excused)
<1>1. Memory = Ahead(mem) /\ Len(mem) = target.block /\ Filed /\ Stored /\ Held
  BY Writes, WriteFacts DEF ResultsAhead
<1>2. ResultBlock = cache[Len(mem)]
  BY <1>1 DEF ResultBlock
<1>3. ResultBlock \in 1 .. sBlockNumber
  BY <1>1, <1>2, AheadBlocks
<1>4. store[ResultBlock] \in Contents
  BY <1>1, <1>3 DEF Stored
<1>5. target = [target EXCEPT !.block = Len(mem)]
  BY <1>1 DEF WritePremise, GroupPremise, TypeIInv, PlaceTypes
<1>6. PICK size : size = Result(target.group, col).size
  OBVIOUS
<1>7. size \in Nat /\ (Lost(size) => Excused)
  <2>1. target.group \in DOMAIN groups /\ col \in DOMAIN Results
    BY DEF WritingResult, Writing
  <2>2. GroupsHold(Gathered) /\ InputTypes /\ InputInv /\ (Grouping \/ Aggregating)
    BY WriteFacts DEF WritePremise, GroupPremise, GatherInv, TypeIInv
  <2>3. PICK g, c : g = target.group /\ c = col
    OBVIOUS
  <2>4. Result(g, c).size \in Nat /\ (Lost(Result(g, c).size) => LostValue)
    BY <2>1, <2>2, <2>3, ResultsExplained
  <2> QED
    BY <1>6, <2>3, <2>4 DEF Excused
<1>8. size = ResultSize
  BY <1>6 DEF ResultSize
<1>9. PICK n, g \in Nat \ {0}, c \in Nat :
        /\ n = Len(Results) /\ DOMAIN Results = 1 .. n
        /\ g = target.group /\ col = c + 1 /\ col - 1 = c
  BY Writes
<1> QED
  BY <1>1, <1>2, <1>3, <1>4, <1>5, <1>7, <1>8, <1>9

LEMMA WriteValue ==
  ASSUME WritePremise, AddResult
  PROVE  WriteInv'
<1>1. /\ pc = "write" /\ pc' = pc /\ WritingResult /\ col' = col + 1
      /\ store' = [store EXCEPT ![ResultBlock] = WithResult(@)]
      /\ UNCHANGED <<managerVars, cache, statement, delivered, outcome, groups, target>>
  BY DEF AddResult, WritingResult, Writing
<1>2. PICK mem \in Memories, ends \in Seq(Positions) :
        /\ ResultRows(mem, ends) /\ ResultsAhead(mem, ends) /\ mem # <<>>
        /\ NextBegin(ends) \in Positions
  BY <1>1, Writes
<1>3. PICK n, g \in Nat \ {0}, c \in Nat :
        /\ n = Len(Results) /\ DOMAIN Results = 1 .. n
        /\ g = target.group /\ col = c + 1 /\ col - 1 = c
  BY <1>1, <1>2, ResultPlace
<1>4. PICK size \in Nat : size = ResultSize /\ (Lost(size) => Excused)
  BY <1>1, <1>2, ResultPlace
<1>5. /\ Memory = Ahead(mem) /\ Filed /\ Stored /\ Held
      /\ ResultBlock = cache[Len(mem)] /\ ResultBlock \in 1 .. sBlockNumber
      /\ store[ResultBlock] \in Contents /\ target = [target EXCEPT !.block = Len(mem)]
  BY <1>1, <1>2, ResultPlace
<1>6. PICK b \in 1 .. sBlockNumber : b = ResultBlock
  BY <1>5
<1>7. PICK cell \in Cells : cell = Value(g, c + 1)
  <2>1. Value(g, c + 1) \in Cells
    BY DEF Value, Cells
  <2> QED
    BY <2>1
<1>8. PICK content : content = Added(store[b], g, c + 1, size)
  OBVIOUS
<1>9. content.cells = Append(store[b].cells, cell) /\ content.used = store[b].used + 1 + size
  BY <1>7, <1>8 DEF Added
<1>10. store' = [store EXCEPT ![b] = content]
  BY <1>1, <1>3, <1>4, <1>6, <1>8 DEF WithResult
<1>11. PICK new \in Memories : new = Put(mem, cell) /\ new # <<>> /\ Len(new) = Len(mem) /\ Grows(mem, new)
  BY <1>2, PutCell
<1>12. Memory' = Ahead(new) /\ Held'
  BY <1>1, <1>2, <1>5, <1>6, <1>9, <1>10, <1>11, ResultWritten
<1>13. RowSoFar(new, NextBegin(ends), target.group, col)
  <2>1. PICK p \in Positions : p = NextBegin(ends)
    BY <1>2
  <2>2. RowSoFar(mem, p, g, c)
    BY <1>2, <1>3, <2>1 DEF ResultsAhead
  <2>3. RowSoFar(new, p, g, c + 1)
    BY <1>2, <1>7, <1>11, <2>2, ValueAdded
  <2> QED
    BY <1>3, <2>1, <2>3
<1>14. GroupTroubles'
  BY <1>1, GroupTroublesStay, Writes DEF managerVars, WritePremise, WriteInv
<1>15. BytesCounted'
  <2>1. /\ RowSizes' = RowSizes /\ (Excused' <=> Excused) /\ (Aggregating' <=> Aggregating)
    BY <1>1, WriteFacts, SameExcused DEF WritePremise, GroupPremise
  <2>2. SUFFICES ASSUME Aggregating, ~ Excused
                 PROVE  store'[cache'[1]].used = SumOf(RowSizes', 1 .. col' - 1)
    BY <2>1 DEF BytesCounted
  <2>3. PICK m \in Nat, d \in Nat :
          /\ DOMAIN Results = 1 .. m /\ col = d + 1 /\ col - 1 = d /\ d \in 0 .. m /\ d < m
          /\ \A x \in 1 .. m : RowSizes[x] \in Nat /\ RowSizes[x] = 1 + Result(1, x).size
          /\ ResultSize = Result(1, d + 1).size /\ ResultSize \in Nat
          /\ RowSizes[d + 1] = 1 + ResultSize
    BY <1>1, <2>2, OneRow
  <2>4. /\ target.block = 1 /\ cache[1] = b /\ store[b].used = SumOf(RowSizes, 1 .. d)
    BY <1>1, <1>6, <2>2, <2>3, OneRow DEF ResultBlock
  <2>5. PICK w : w = RowSizes
    OBVIOUS
  <2>6. SumOf(w, 1 .. d) \in Int /\ SumOf(w, 1 .. d + 1) = SumOf(w, 1 .. d) + (1 + size)
    <3>1. (\A x \in 1 .. m : w[x] \in Nat) /\ w[d + 1] = 1 + size
      BY <1>4, <2>3, <2>5
    <3>2. d \in 0 .. m /\ d < m
      BY <2>3
    <3>3. SumOf(w, 1 .. d) \in Int /\ SumOf(w, 1 .. d + 1) = SumOf(w, 1 .. d) + w[d + 1]
      BY <3>1, <3>2, SumStep
    <3> QED
      BY <3>1, <3>3
  <2>7. store'[b].used = store[b].used + 1 + size
    BY <1>5, <1>9, <1>10 DEF Stored
  <2>8. col' - 1 = d + 1
    BY <1>1, <2>3
  <2>9. store'[b].used = SumOf(w, 1 .. d + 1)
    BY <2>4, <2>5, <2>6, <2>7
  <2> QED
    BY <1>1, <2>1, <2>4, <2>5, <2>8, <2>9
<1>16. target' = [target EXCEPT !.block = Len(new)]
  BY <1>1, <1>5, <1>11
<1> QED
  BY <1>1, <1>2, <1>11, <1>12, <1>13, <1>14, <1>15, <1>16, ResultTaken

(* With a GROUP BY: into the next block.                                   *)
LEMMA WriteNextBlock ==
  ASSUME WritePremise, ResultToNextBlock
  PROVE  WriteInv'
<1>1. /\ pc = "write" /\ pc' = pc /\ WritingResult /\ col' = col + 1 /\ Grouping
      /\ AppendBlock([store EXCEPT ![ResultBlock] = Marked(@, "CC"),
                                   ![cache[target.block + 1]] =
                                     IF Lost(ResultSize) THEN @ ELSE WithResult(@)])
      /\ target' = [target EXCEPT !.block = @ + 1]
      /\ UNCHANGED <<statement, delivered, outcome, groups>>
  BY DEF ResultToNextBlock, WritingResult, Writing
<1>2. PICK mem \in Memories, ends \in Seq(Positions) :
        /\ ResultRows(mem, ends) /\ ResultsAhead(mem, ends) /\ mem # <<>>
        /\ NextBegin(ends) \in Positions
  BY <1>1, Writes
<1>3. PICK n, g \in Nat \ {0}, c \in Nat :
        /\ n = Len(Results) /\ DOMAIN Results = 1 .. n
        /\ g = target.group /\ col = c + 1 /\ col - 1 = c
  BY <1>1, <1>2, ResultPlace
<1>4. PICK size \in Nat : size = ResultSize /\ (Lost(size) => Excused)
  BY <1>1, <1>2, ResultPlace
<1>5. /\ Memory = Ahead(mem) /\ Filed /\ Stored /\ Held
      /\ ResultBlock = cache[Len(mem)] /\ ResultBlock \in 1 .. sBlockNumber
      /\ store[ResultBlock] \in Contents /\ target = [target EXCEPT !.block = Len(mem)]
  BY <1>1, <1>2, ResultPlace
<1>6. PICK m \in Nat \ {0} : m = Len(mem) /\ target.block = m
  BY <1>2, <1>5 DEF ResultsAhead, Memories
<1>7. /\ m + 1 \in DOMAIN cache /\ cache[m + 1] \in 1 .. sBlockNumber /\ cache[m + 1] # cache[m]
      /\ store[cache[m + 1]].cells = <<>>
  <2>1. m + 1 \in DOMAIN cache
    BY <1>1, <1>2, <1>5, <1>6, AheadBlocks
  <2>2. m + 1 # m
    BY <1>6
  <2> QED
    BY <1>1, <1>2, <1>5, <1>6, <2>1, <2>2, AheadBlocks
<1>8. PICK b, d \in 1 .. sBlockNumber : b = ResultBlock /\ d = cache[m + 1] /\ b # d /\ b = cache[m]
  BY <1>5, <1>6, <1>7
<1>9. store[b] \in Contents /\ store[d] \in Contents
  BY <1>5, <1>8 DEF Stored
<1>10. PICK closed \in Contents : closed = Marked(store[b], "CC")
  BY <1>9, ContentTypes
<1>11. closed.cells = Append(store[b].cells, NextBlock)
  BY <1>10 DEF Marked, MarkedAt, NextBlock
<1>12. PICK next \in Contents :
         next = (IF Lost(size) THEN store[d] ELSE Added(store[d], g, c + 1, size))
  <2>1. g \in Nat /\ c + 1 \in Nat /\ size \in Nat
    BY <1>3
  <2>2. Added(store[d], g, c + 1, size) \in Contents
    BY <1>9, <2>1, ContentTypes
  <2> QED
    BY <1>9, <2>2
<1>13. store' = Append([store EXCEPT ![b] = closed, ![d] = next], Empty)
       /\ BM!CreateBlock /\ cache' = Append(cache, sBlockNumber')
  <2>1. [store EXCEPT ![b] = Marked(@, "CC"), ![d] = IF Lost(size) THEN @ ELSE WithResult(@)]
        = [store EXCEPT ![b] = closed, ![d] = next]
    BY <1>3, <1>4, <1>8, <1>10, <1>12 DEF WithResult
  <2> QED
    BY <1>1, <1>4, <1>6, <1>8, <2>1 DEF AppendBlock
<1>14. Held' /\ Memory' = Ahead(Append(Put(mem, NextBlock), next.cells))
  BY <1>1, <1>2, <1>5, <1>6, <1>8, <1>11, <1>13, ResultMoved
<1>15. PICK old \in Memories : old = Put(mem, NextBlock) /\ old # <<>> /\ Len(old) = m /\ Grows(mem, old)
  <2>1. NextBlock \in Cells
    BY DEF NextBlock, Mark, Cells
  <2> QED
    BY <1>2, <1>6, <2>1, PutCell
<1>16. PICK p \in Positions : p = NextBegin(ends)
  BY <1>2
<1>17. RowSoFar(mem, p, g, c)
  BY <1>2, <1>3, <1>16 DEF ResultsAhead
<1>18. PICK new \in Memories :
         /\ new = Append(old, next.cells) /\ new # <<>> /\ Len(new) = m + 1 /\ Grows(mem, new)
         /\ RowSoFar(new, p, g, c + 1)
  <2>1. PICK fresh \in Memories :
          /\ fresh = Fresh(old) /\ fresh # <<>> /\ Len(fresh) = m + 1 /\ Grows(old, fresh)
    BY <1>15, FreshBlock
  <2>2. Grows(mem, fresh)
    BY <1>15, <2>1, GrowsOn
  <2>3. CASE Lost(size)
    <3>1. Append(old, next.cells) = fresh
      BY <1>7, <1>8, <1>12, <2>1, <2>3 DEF Fresh
    <3>2. RowSoFar(fresh, p, g, c + 1)
      BY <1>2, <1>4, <1>15, <1>17, <2>1, <2>3, ValueLost
    <3> QED
      BY <2>1, <2>2, <3>1, <3>2
  <2>4. CASE ~ Lost(size)
    <3>1. PICK cell \in Cells : cell = Value(g, c + 1)
      <4>1. Value(g, c + 1) \in Cells
        BY DEF Value, Cells
      <4> QED
        BY <4>1
    <3>2. next.cells = <<cell>>
      <4>1. PICK none \in Seq(Cells) : none = <<>>
        BY EmptySeq
      <4>2. next.cells = Append(none, cell)
        BY <1>7, <1>8, <1>12, <2>4, <3>1, <4>1 DEF Added
      <4> QED
        BY <4>1, <4>2
    <3>3. PICK new \in Memories :
            new = Put(fresh, cell) /\ new # <<>> /\ Len(new) = m + 1 /\ Grows(fresh, new)
      BY <2>1, <3>1, PutCell
    <3>4. Append(old, next.cells) = new
      BY <1>15, <2>1, <3>2, <3>3, PutFresh
    <3>5. RowSoFar(new, p, g, c + 1)
      BY <1>2, <1>15, <1>17, <2>1, <3>1, <3>3, ValueMoved
    <3>6. Grows(mem, new)
      BY <2>2, <3>3, GrowsOn
    <3> QED
      BY <3>3, <3>4, <3>5, <3>6
  <2> QED
    BY <2>3, <2>4
<1>19. GroupTroubles'
  <2>1. outcome' # "threw"
    BY <1>1, Writes
  <2> QED
    BY <1>13, <2>1, GroupTroublesPush DEF WritePremise, GroupPremise, WriteInv
<1>20. BytesCounted'
  BY <1>1, WriteFacts DEF BytesCounted
<1>21. target' = [target EXCEPT !.block = Len(new)]
  BY <1>1, <1>6, <1>18
<1>22. RowSoFar(new, NextBegin(ends), target.group, col)
  BY <1>3, <1>16, <1>18
<1>23. Memory' = Ahead(new)
  BY <1>14, <1>15, <1>18
<1> QED
  BY <1>1, <1>2, <1>14, <1>18, <1>19, <1>20, <1>21, <1>22, <1>23, ResultTaken

(* Without one: dropped.                                                   *)
LEMMA WriteDrops ==
  ASSUME WritePremise, ResultDropped
  PROVE  WriteInv'
<1>1. /\ pc = "write" /\ pc' = pc /\ WritingResult /\ col' = col + 1 /\ Aggregating
      /\ ~ HasSizeFor(store[ResultBlock], ResultSize)
      /\ UNCHANGED <<copyVars, statement, delivered, outcome, groups, target>>
  BY DEF ResultDropped, WritingResult, Writing
<1>2. PICK mem \in Memories, ends \in Seq(Positions) :
        /\ ResultRows(mem, ends) /\ ResultsAhead(mem, ends) /\ mem # <<>>
        /\ NextBegin(ends) \in Positions
  BY <1>1, Writes
<1>3. PICK n, g \in Nat \ {0}, c \in Nat :
        /\ n = Len(Results) /\ DOMAIN Results = 1 .. n
        /\ g = target.group /\ col = c + 1 /\ col - 1 = c
  BY <1>1, <1>2, ResultPlace
<1>4. Memory = Ahead(mem) /\ Held /\ target = [target EXCEPT !.block = Len(mem)]
  BY <1>1, <1>2, ResultPlace
<1>5. UNCHANGED <<cache, store, totalBlocks, sBlockNumber>>
  BY <1>1 DEF copyVars, managerVars
<1>6. Memory' = Ahead(mem) /\ Held'
  BY <1>4, <1>5 DEF Memory, Held, NoBlock, BM!NoBlock
<1>7. Excused
  BY <1>1, DropExcused
<1>8. RowSoFar(mem, NextBegin(ends), target.group, col)
  <2>1. PICK p \in Positions : p = NextBegin(ends)
    BY <1>2
  <2>2. RowSoFar(mem, p, g, c)
    BY <1>2, <1>3, <2>1 DEF ResultsAhead
  <2>3. RowSoFar(mem, p, g, c + 1)
    BY <1>7, <2>2, ValueDropped
  <2> QED
    BY <1>3, <2>1, <2>3
<1>9. GroupTroubles'
  BY <1>1, <1>5, GroupTroublesStay, Writes DEF WritePremise, WriteInv
<1>10. BytesCounted'
  BY <1>1, <1>7, WriteFacts, SameExcused DEF BytesCounted, WritePremise, GroupPremise
<1>11. Grows(mem, mem)
  BY DEF Grows
<1>12. target' = [target EXCEPT !.block = Len(mem)]
  BY <1>1, <1>4
<1> QED
  BY <1>1, <1>2, <1>6, <1>8, <1>9, <1>10, <1>11, <1>12, ResultTaken

(* The end of a row.                                                       *)
LEMMA RowAppended ==
  ASSUME WritePremise, UNCHANGED groups, NEW n, n = Len(Results),
         NEW mem, NEW ends \in Seq(Positions), ResultRows(mem, ends),
         NEW new \in Memories, Grows(mem, new), NEW q \in Positions,
         ResultRow(new, NextBegin(ends), q, Len(ends) + 1, n)
  PROVE  ResultRows(new, Append(ends, q))'
<1>1. ResultRows(new, ends)'
  BY RowsGrow
<1>2. PICK more \in Seq(Positions) :
        /\ more = Append(ends, q) /\ Extends(ends, more)
        /\ Len(more) = Len(ends) + 1 /\ more[Len(ends) + 1] = q
  <2>1. PICK more \in Seq(Positions) : more = Append(ends, q)
    BY AppendProperties
  <2>2. Len(more) = Len(ends) + 1 /\ more[Len(ends) + 1] = q
        /\ \A k \in 1 .. Len(ends) : more[k] = ends[k]
    BY <2>1, AppendProperties
  <2> QED
    BY <2>1, <2>2 DEF Extends
<1>3. Excused' <=> Excused
  BY WriteFacts, SameExcused DEF WritePremise, GroupPremise
<1>4. Len(Results') = n
  BY WriteFacts
<1>5. ASSUME NEW k \in 1 .. Len(more)
      PROVE  ResultRow(new, RowBegin(more, k), more[k], k, n)'
  <2>1. k \in 1 .. Len(ends) + 1
    BY <1>2
  <2>2. RowBegin(more, k) = RowBegin(ends, k)
    BY <1>2, <2>1, RowBeginStays
  <2>3. CASE k \in 1 .. Len(ends)
    <3>1. PICK p, e : p = RowBegin(ends, k) /\ e = ends[k]
      OBVIOUS
    <3>2. ResultRow(new, p, e, k, n)'
      BY <1>1, <1>4, <2>3, <3>1 DEF ResultRows
    <3>3. more[k] = e
      BY <1>2, <2>3, <3>1 DEF Extends
    <3> QED
      BY <2>2, <3>1, <3>2, <3>3
  <2>4. CASE k = Len(ends) + 1
    <3>1. PICK p : p = NextBegin(ends)
      OBVIOUS
    <3>2. ResultRow(new, p, q, k, n)
      BY <2>4, <3>1
    <3>3. ResultRow(new, p, q, k, n)'
      BY <1>3, <3>2 DEF ResultRow
    <3>4. RowBegin(more, k) = p /\ more[k] = q
      BY <1>2, <2>2, <2>4, <3>1 DEF NextBegin
    <3> QED
      BY <3>3, <3>4
  <2> QED
    BY <2>1, <2>3, <2>4
<1>6. PICK added : added = Append(ends, q)
  OBVIOUS
<1>7. ResultRows(new, added)'
  BY <1>2, <1>4, <1>5, <1>6 DEF ResultRows
<1> QED
  BY <1>6, <1>7

LEMMA WriteEndsRow ==
  ASSUME WritePremise, EndGroup
  PROVE  WriteInv'
<1>1. /\ pc = "write" /\ pc' = pc /\ Writing /\ ~ WritingResult /\ col' = 1
      /\ store' = [store EXCEPT ![ResultBlock] = Marked(@, "BB")]
      /\ target' = [target EXCEPT !.group = @ + 1]
      /\ UNCHANGED <<managerVars, cache, statement, delivered, outcome, groups>>
  BY DEF EndGroup, Writing
<1>2. PICK mem \in Memories, ends \in Seq(Positions) :
        /\ ResultRows(mem, ends) /\ ResultsAhead(mem, ends) /\ mem # <<>>
        /\ NextBegin(ends) \in Positions
  BY <1>1, Writes
<1>3. PICK n, g \in Nat \ {0}, c \in Nat :
        /\ n = Len(Results) /\ DOMAIN Results = 1 .. n
        /\ g = target.group /\ col = c + 1 /\ col - 1 = c
  BY <1>1, Writes
<1>4. c = n
  <2>1. ~ (c + 1 \in 1 .. n)
    BY <1>1, <1>3 DEF WritingResult
  <2>2. c + 1 <= n + 1
    BY <1>2, <1>3 DEF ResultsAhead
  <2> QED
    BY <2>1, <2>2
<1>5. /\ Memory = Ahead(mem) /\ Filed /\ Stored /\ Held /\ Len(mem) = target.block
      /\ Len(ends) + 1 = g
  BY <1>1, <1>2, <1>3, Writes, WriteFacts DEF ResultsAhead
<1>6. PICK cell \in Cells : cell = Mark("BB", 0, 0) /\ cell.tag = "BB"
  <2>1. Mark("BB", 0, 0) \in Cells /\ Mark("BB", 0, 0).tag = "BB"
    BY DEF Mark, Cells
  <2> QED
    BY <2>1
<1>7. PICK b, content : b = cache[Len(mem)] /\ content = Marked(store[b], "BB")
  OBVIOUS
<1>8. content.cells = Append(store[b].cells, cell)
  BY <1>6, <1>7 DEF Marked, MarkedAt
<1>9. store' = [store EXCEPT ![b] = content]
  BY <1>1, <1>5, <1>7 DEF ResultBlock
<1>10. PICK new \in Memories :
         /\ new = Put(mem, cell) /\ new # <<>> /\ Len(new) = Len(mem) /\ Grows(mem, new)
         /\ EndOf(new) = After(EndOf(mem))
  BY <1>2, PutCell
<1>11. Memory' = Ahead(new) /\ Held'
  BY <1>1, <1>2, <1>5, <1>7, <1>8, <1>9, <1>10, ResultWritten
<1>12. PICK q \in Positions : q = EndOf(mem)
  BY <1>2, EndPosition
<1>13. ResultRow(new, NextBegin(ends), q, Len(ends) + 1, n)
  <2>1. PICK p \in Positions : p = NextBegin(ends)
    BY <1>2
  <2>2. RowSoFar(mem, p, g, n)
    BY <1>2, <1>3, <1>4, <2>1 DEF ResultsAhead
  <2>3. HasSizeFor(Empty, 1)
    BY FunctionsAssumption
  <2>4. ResultRow(new, p, q, g, n)
    BY <1>2, <1>6, <1>10, <1>12, <2>2, <2>3, RowCloses
  <2> QED
    BY <1>5, <2>1, <2>4
<1>14. PICK more \in Seq(Positions) :
         more = Append(ends, q) /\ Len(more) = g /\ more[g] = q
  <2>1. PICK more \in Seq(Positions) : more = Append(ends, q)
    BY AppendProperties
  <2>2. Len(more) = Len(ends) + 1 /\ more[Len(ends) + 1] = q
    BY <2>1, AppendProperties
  <2> QED
    BY <1>5, <2>1, <2>2
<1>15. ResultRows(new, more)'
  BY <1>1, <1>2, <1>3, <1>10, <1>12, <1>13, <1>14, RowAppended
<1>16. target'.block = Len(new) /\ target'.group = g + 1
  BY <1>1, <1>3, <1>5, <1>10 DEF WritePremise, GroupPremise, TypeIInv, PlaceTypes
<1>17. g \in DOMAIN groups /\ groups \in Seq(GroupRecords)
  BY <1>1, <1>3, WriteFacts DEF Writing
<1>18. RowSoFar(new, NextBegin(more), g + 1, 0)'
  <2>1. PICK p \in Positions : p = After(q)
    BY <1>2, <1>12, EndPosition
  <2>2. NextBegin(more) = p
    BY <1>14, <2>1 DEF NextBegin, RowBegin
  <2>3. WholeSoFar(new, p, g + 1, 0)
    BY <1>10, <1>12, <2>1, RowOpens
  <2>4. RowSoFar(new, p, g + 1, 0)'
    BY <2>3 DEF RowSoFar
  <2> QED
    BY <2>2, <2>4
<1>19. ResultsAhead(new, more)'
  <2>1. (new # <<>> /\ Memory = Ahead(new) /\ Len(new) = target.block)'
    BY <1>10, <1>11, <1>16, WriteFacts DEF Ahead
  <2>2. (Len(more) = target.group - 1 /\ target.group <= Len(groups) + 1)'
    BY <1>1, <1>14, <1>16, <1>17
  <2>3. (col <= Len(Results) + 1 /\ (target.group = Len(groups) + 1 => col = 1))'
    BY <1>1, <1>3, WriteFacts
  <2>4. RowSoFar(new, NextBegin(more), target.group, col - 1)'
    <3>1. target'.group = g + 1 /\ col' - 1 = 0
      BY <1>1, <1>16
    <3> QED
      BY <1>18, <3>1
  <2>5. BytesCounted'
    BY <1>3, <1>16 DEF BytesCounted
  <2> QED
    BY <2>1, <2>2, <2>3, <2>4, <2>5 DEF ResultsAhead
<1>20. GroupTroubles'
  BY <1>1, GroupTroublesStay, Writes DEF managerVars, WritePremise, WriteInv
<1> QED
  BY <1>1, <1>11, <1>15, <1>19, <1>20, Writes, WriteGoesOn

(* The end of the results.                                                 *)
LEMMA WriteEndMark ==
  ASSUME WritePremise, EndGroups
  PROVE  WriteInv'
<1>1. /\ pc = "write" /\ pc' = "next" /\ ~ Writing /\ at' = Start
      /\ store' = [store EXCEPT ![ResultBlock] = Marked(@, "DD")]
      /\ UNCHANGED <<managerVars, cache, statement, delivered, outcome, groups, target>>
  BY DEF EndGroups, GoTo
<1>2. PICK mem \in Memories, ends \in Seq(Positions) :
        /\ ResultRows(mem, ends) /\ ResultsAhead(mem, ends) /\ mem # <<>>
        /\ NextBegin(ends) \in Positions
  BY <1>1, Writes
<1>3. PICK n, g \in Nat \ {0}, c \in Nat :
        /\ n = Len(Results) /\ DOMAIN Results = 1 .. n
        /\ g = target.group /\ col = c + 1 /\ col - 1 = c
  BY <1>1, Writes
<1>4. Len(ends) = Len(groups) /\ c = 0 /\ Len(ends) + 1 = g
  <2>1. groups \in Seq(GroupRecords) /\ g \notin DOMAIN groups
    BY <1>1, <1>3, WriteFacts DEF Writing
  <2>2. Len(ends) = g - 1 /\ g <= Len(groups) + 1 /\ (g = Len(groups) + 1 => c + 1 = 1)
    BY <1>2, <1>3 DEF ResultsAhead
  <2>3. Len(groups) \in Nat /\ ~ (g <= Len(groups))
    BY <1>3, <2>1
  <2> QED
    BY <1>2, <2>2, <2>3
<1>5. Memory = Ahead(mem) /\ Filed /\ Stored /\ Held /\ Len(mem) = target.block
  BY <1>1, <1>2, Writes, WriteFacts DEF ResultsAhead
<1>6. PICK cell \in Cells : cell = Mark("DD", 0, 0) /\ cell.tag = "DD"
  <2>1. Mark("DD", 0, 0) \in Cells /\ Mark("DD", 0, 0).tag = "DD"
    BY DEF Mark, Cells
  <2> QED
    BY <2>1
<1>7. PICK b, content : b = cache[Len(mem)] /\ content = Marked(store[b], "DD")
  OBVIOUS
<1>8. content.cells = Append(store[b].cells, cell)
  BY <1>6, <1>7 DEF Marked, MarkedAt
<1>9. store' = [store EXCEPT ![b] = content]
  BY <1>1, <1>5, <1>7 DEF ResultBlock
<1>10. PICK new \in Memories :
         /\ new = Put(mem, cell) /\ new # <<>> /\ Grows(mem, new)
         /\ IsIn(new, EndOf(mem)) /\ CellIn(new, EndOf(mem)) = cell
  BY <1>2, PutCell
<1>11. Memory' = Ahead(new) /\ Held'
  BY <1>1, <1>2, <1>5, <1>7, <1>8, <1>9, <1>10, ResultWritten
<1>12. PICK p \in Positions : p = NextBegin(ends)
  BY <1>2
<1>13. EndOf(mem) = p
  <2>1. RowSoFar(mem, p, g, 0)
    BY <1>2, <1>3, <1>4, <1>12 DEF ResultsAhead
  <2>2. ~ CutSoFar(mem, p, 0)
    BY DEF CutSoFar
  <2>3. PICK pos : Behind(pos, 0, p) = EndOf(mem)
    BY <2>1, <2>2 DEF RowSoFar, WholeSoFar
  <2> QED
    BY <2>3 DEF Behind
<1>14. PICK last \in Memories : last = Ahead(new) /\ Grows(new, last)
  <2>1. Grows(new, new)
    BY DEF Grows
  <2>2. Fresh(new) \in Memories /\ Grows(new, Fresh(new))
    BY <1>10, FreshBlock
  <2> QED
    BY <1>10, <2>1, <2>2 DEF Ahead
<1>15. Grows(mem, last)
  BY <1>10, <1>14, GrowsOn
<1>16. IsIn(last, p) /\ CellIn(last, p).tag = "DD"
  BY <1>6, <1>10, <1>13, <1>14 DEF Grows
<1>17. ResultRows(last, ends)'
  BY <1>1, <1>2, <1>15, RowsGrow
<1>18. ResultsRead'
  <2>1. Memory' = last
    BY <1>11, <1>14
  <2>2. ResultRows(Memory, ends)'
    BY <1>17, <2>1
  <2>3. Len(ends) = Len(groups')
    BY <1>1, <1>4
  <2>4. (IsIn(Memory, NextBegin(ends)) /\ CellIn(Memory, NextBegin(ends)).tag = "DD")'
    BY <1>12, <1>16, <2>1
  <2>5. (GroupStart = RowBegin(ends, Len(delivered) + 1))'
    <3>1. delivered' = <<>>
      BY <1>1, Writes
    <3>2. Len(delivered') + 1 = 1
      BY <3>1
    <3>3. GroupStart' = Start
      BY <1>1 DEF GroupStart, Start
    <3> QED
      BY <3>2, <3>3 DEF RowBegin
  <2> QED
    BY <1>11, <2>2, <2>3, <2>4, <2>5 DEF ResultsRead
<1>19. ResultsBlank' /\ ResultsWritten'
  BY <1>1 DEF ResultsBlank, Gathering, ResultsWritten
<1>20. GroupTroubles'
  BY <1>1, GroupTroublesStay, Writes DEF managerVars, WritePremise, WriteInv
<1>21. DeliveredGroups'
  BY <1>1, Writes, NothingDelivered
<1> QED
  BY <1>18, <1>19, <1>20, <1>21 DEF WriteInv
-----------------------------------------------------------------------------
(* What a step that reads finds.                                           *)
LEMMA Reads ==
  ASSUME WritePremise, pc = "next"
  PROVE  /\ outcome = "open" /\ Held
         /\ \E ends \in Seq(Positions) :
              /\ ResultRows(Memory, ends) /\ Len(ends) = Len(groups)
              /\ IsIn(Memory, NextBegin(ends)) /\ CellIn(Memory, NextBegin(ends)).tag = "DD"
              /\ GroupStart = RowBegin(ends, Len(delivered) + 1)
         /\ \E n \in Nat \ {0} : n = Len(Results) /\ DOMAIN Results = 1 .. n
         /\ \E k \in Nat \ {0} : k = Len(delivered) + 1 /\ Len(delivered) \in Nat /\ k <= Len(groups) + 1
<1>1. outcome = "open" /\ Held
  BY WriteFacts DEF WritePremise, WriteInv, ResultsRead, Ends
<1>2. PICK ends : /\ ResultRows(Memory, ends) /\ Len(ends) = Len(groups)
                  /\ IsIn(Memory, NextBegin(ends)) /\ CellIn(Memory, NextBegin(ends)).tag = "DD"
                  /\ GroupStart = RowBegin(ends, Len(delivered) + 1)
  BY DEF WritePremise, WriteInv, ResultsRead
<1>3. ends \in Seq(Positions)
  BY <1>2 DEF ResultRows
<1>4. PICK n \in Nat \ {0} : n = Len(Results) /\ DOMAIN Results = 1 .. n
  BY WriteFacts
<1>5. Len(delivered) \in Nat /\ Len(delivered) <= Len(groups) /\ Len(groups) \in Nat
  BY WriteFacts DEF WritePremise, WriteInv, DeliveredGroups
<1>6. Len(delivered) + 1 \in Nat \ {0} /\ Len(delivered) + 1 <= Len(groups) + 1
  BY <1>5
<1> QED
  BY <1>1, <1>2, <1>3, <1>4, <1>5, <1>6

(* The marker of the end is behind the last row.                           *)
LEMMA ReadsRow ==
  ASSUME WritePremise, pc = "next", NEW ends \in Seq(Positions),
         ResultRows(Memory, ends), Len(ends) = Len(groups),
         IsIn(Memory, NextBegin(ends)), CellIn(Memory, NextBegin(ends)).tag = "DD",
         NEW k \in Nat \ {0}, k <= Len(groups) + 1, NEW p, p = RowBegin(ends, k),
         NEW n \in Nat \ {0}, n = Len(Results)
  PROVE  /\ p \in Positions
         /\ TagAt(p) = "DD" <=> k = Len(groups) + 1
         /\ TagAt(p) # "DD" =>
              /\ k \in 1 .. Len(ends) /\ ends[k] \in Positions
              /\ Complete(p, n) =>
                   /\ RowAt(p, n) = [c \in 1 .. n |-> <<k, c>>]
                   /\ ends[k] = After(ValuePositions(p, n)[n]) /\ ends[k].offset # 0
              /\ ~ Complete(p, n) => Excused
<1>1. Len(groups) \in Nat
  BY WriteFacts
<1>2. k \in 1 .. Len(ends) + 1
  BY <1>1
<1>3. p \in Positions
  BY <1>2, RowBeginTypes
<1>4. CASE k = Len(groups) + 1
  <2>1. p = NextBegin(ends)
    BY <1>4 DEF NextBegin
  <2>2. TagAt(p) = "DD"
    BY <1>3, <2>1, SeesMemory DEF TagAt
  <2> QED
    BY <1>3, <1>4, <2>2
<1>5. CASE k # Len(groups) + 1
  <2>1. k \in 1 .. Len(ends)
    BY <1>1, <1>5
  <2>2. PICK q \in Positions : q = ends[k]
    BY <2>1
  <2>3. ResultRow(Memory, p, q, k, n)
    BY <2>1, <2>2 DEF ResultRows
  <2>4. /\ TagAt(p) # "DD"
        /\ Complete(p, n) =>
             /\ RowAt(p, n) = [c \in 1 .. n |-> <<k, c>>]
             /\ q = After(ValuePositions(p, n)[n]) /\ q.offset # 0
        /\ ~ Complete(p, n) => Excused
    BY <1>3, <2>3, ReadsResult
  <2> QED
    BY <1>3, <1>5, <2>1, <2>2, <2>4
<1> QED
  BY <1>4, <1>5

LEMMA ReadStays ==
  ASSUME WritePremise, pc' = "next", UNCHANGED <<cache, store, groups, totalBlocks, sBlockNumber>>,
         Held, outcome' = "open", DeliveredGroups',
         NEW ends, ResultRows(Memory, ends), Len(ends) = Len(groups),
         IsIn(Memory, NextBegin(ends)), CellIn(Memory, NextBegin(ends)).tag = "DD",
         GroupStart' = RowBegin(ends, Len(delivered') + 1)
  PROVE  WriteInv'
<1>1. PICK mem \in Memories : mem = Memory
  BY DEF ResultRows
<1>2. Memory' = mem /\ Held'
  BY <1>1 DEF Memory, Held, NoBlock, BM!NoBlock
<1>3. Grows(mem, mem)
  BY DEF Grows
<1>4. ResultRows(mem, ends)'
  BY <1>1, <1>3, RowsGrow
<1>5. (/\ ResultRows(Memory, ends) /\ Len(ends) = Len(groups)
       /\ IsIn(Memory, NextBegin(ends)) /\ CellIn(Memory, NextBegin(ends)).tag = "DD")'
  BY <1>1, <1>2, <1>4
<1>6. ResultsRead'
  BY <1>2, <1>5 DEF ResultsRead
<1>7. ResultsBlank' /\ ResultsWritten'
  BY DEF ResultsBlank, Gathering, ResultsWritten
<1>8. GroupTroubles'
  BY GroupTroublesStay DEF WritePremise, WriteInv
<1> QED
  BY <1>6, <1>7, <1>8 DEF WriteInv

LEMMA WriteDelivers ==
  ASSUME WritePremise, GroupedRow
  PROVE  WriteInv'
<1>1. /\ pc = "next" /\ pc' = pc /\ TagAt(GroupStart) # "DD" /\ Complete(GroupStart, Len(Results))
      /\ delivered' = Append(delivered, RowAt(GroupStart, Len(Results)))
      /\ at' = After(ValuePositions(GroupStart, Len(Results))[Len(Results)])
      /\ UNCHANGED <<copyVars, outcome, groups>>
  BY DEF GroupedRow, ReadingGroups
<1>2. UNCHANGED <<cache, store, totalBlocks, sBlockNumber>>
  BY <1>1 DEF copyVars, managerVars
<1>3. outcome = "open" /\ Held
  BY <1>1, Reads
<1>4. PICK ends \in Seq(Positions) :
        /\ ResultRows(Memory, ends) /\ Len(ends) = Len(groups)
        /\ IsIn(Memory, NextBegin(ends)) /\ CellIn(Memory, NextBegin(ends)).tag = "DD"
        /\ GroupStart = RowBegin(ends, Len(delivered) + 1)
  BY <1>1, Reads
<1>5. PICK n \in Nat \ {0} : n = Len(Results) /\ DOMAIN Results = 1 .. n
  BY <1>1, Reads
<1>6. PICK k \in Nat \ {0} : k = Len(delivered) + 1 /\ Len(delivered) \in Nat /\ k <= Len(groups) + 1
  BY <1>1, Reads
<1>7. PICK p : p = GroupStart
  OBVIOUS
<1>8. /\ k \in 1 .. Len(ends) /\ ends[k] \in Positions
      /\ RowAt(p, n) = [c \in 1 .. n |-> <<k, c>>]
      /\ ends[k] = After(ValuePositions(p, n)[n]) /\ ends[k].offset # 0
  <2>1. p = RowBegin(ends, k) /\ TagAt(p) # "DD" /\ Complete(p, n)
    BY <1>1, <1>4, <1>5, <1>6, <1>7
  <2>2. /\ k \in 1 .. Len(ends) /\ ends[k] \in Positions
        /\ Complete(p, n) =>
             /\ RowAt(p, n) = [c \in 1 .. n |-> <<k, c>>]
             /\ ends[k] = After(ValuePositions(p, n)[n]) /\ ends[k].offset # 0
    <3>1. pc = "next"
      BY <1>1
    <3>2. n = Len(Results)
      BY <1>5
    <3>3. k <= Len(groups) + 1
      BY <1>6
    <3> QED
      BY <1>4, <2>1, <3>1, <3>2, <3>3, ReadsRow
  <2> QED
    BY <2>1, <2>2
<1>9. PICK m \in Nat : m = Len(delivered) /\ k = m + 1
  BY <1>6
<1>10. PICK row : row = [c \in DOMAIN Results |-> <<m + 1, c>>]
  OBVIOUS
<1>11. RowAt(GroupStart, Len(Results)) = row
  BY <1>5, <1>7, <1>8, <1>9, <1>10
<1>12. delivered = [j \in 1 .. m |-> [c \in DOMAIN Results |-> <<j, c>>]]
  BY <1>9 DEF WritePremise, WriteInv, DeliveredGroups
<1>13. delivered' = [j \in 1 .. m + 1 |-> [c \in DOMAIN Results |-> <<j, c>>]] /\ Len(delivered') = m + 1
  <2>1. PICK S : S = {delivered[j] : j \in 1 .. m} \cup {row}
    OBVIOUS
  <2>2. delivered \in [1 .. m -> S] /\ row \in S
    BY <1>12, <2>1
  <2>3. delivered \in Seq(S)
    BY <2>2
  <2>4. PICK d : d = delivered' /\ d = Append(delivered, row)
    BY <1>1, <1>11
  <2>5. d \in Seq(S) /\ Len(d) = m + 1
    BY <1>9, <2>2, <2>3, <2>4
  <2>6. \A j \in 1 .. m + 1 : d[j] = IF j = m + 1 THEN row ELSE delivered[j]
    BY <1>9, <2>2, <2>3, <2>4
  <2>7. \A j \in 1 .. m + 1 : d[j] = [c \in DOMAIN Results |-> <<j, c>>]
    <3>1. \A j \in 1 .. m : delivered[j] = [c \in DOMAIN Results |-> <<j, c>>]
      BY <1>12
    <3>2. ASSUME NEW j \in 1 .. m + 1 PROVE d[j] = [c \in DOMAIN Results |-> <<j, c>>]
      <4>1. CASE j = m + 1
        BY <1>10, <2>6, <4>1
      <4>2. CASE j # m + 1
        <5>1. j \in 1 .. m /\ d[j] = delivered[j]
          BY <2>6, <4>2
        <5> QED
          BY <3>1, <5>1
      <4> QED
        BY <4>1, <4>2
    <3> QED
      BY <3>2
  <2>8. d = [j \in 1 .. m + 1 |-> d[j]]
    BY <2>5
  <2>9. d = [j \in 1 .. m + 1 |-> [c \in DOMAIN Results |-> <<j, c>>]]
    BY <2>7, <2>8
  <2> QED
    BY <2>4, <2>5, <2>9
<1>14. DeliveredGroups'
  <2>1. m + 1 <= Len(groups')
    BY <1>1, <1>4, <1>8, <1>9
  <2>2. DOMAIN Results' = DOMAIN Results
    BY WriteFacts
  <2> QED
    BY <1>1, <1>3, <1>13, <2>1, <2>2 DEF DeliveredGroups
<1>15. GroupStart' = RowBegin(ends, Len(delivered') + 1)
  <2>1. at' = ends[k]
    BY <1>1, <1>5, <1>7, <1>8
  <2>2. GroupStart' = After(ends[k])
    BY <1>8, <2>1 DEF GroupStart
  <2>3. Len(delivered') + 1 = k + 1 /\ k + 1 # 1 /\ (k + 1) - 1 = k
    BY <1>9, <1>13
  <2> QED
    BY <2>2, <2>3 DEF RowBegin
<1> QED
  BY <1>1, <1>2, <1>3, <1>4, <1>14, <1>15, ReadStays

LEMMA WriteStops ==
  ASSUME WritePremise, GroupedRowThrows \/ GroupedEnd
  PROVE  WriteInv'
<1>1. /\ pc = "next" /\ pc' \in Ends
      /\ UNCHANGED <<copyVars, statement, groups, delivered>>
  BY DEF GroupedRowThrows, GroupedEnd, ReadingGroups, Destroy, GoTo, Ends
<1>2. UNCHANGED <<totalBlocks, sBlockNumber>>
  BY <1>1 DEF copyVars, managerVars
<1>3. PICK ends \in Seq(Positions) :
        /\ ResultRows(Memory, ends) /\ Len(ends) = Len(groups)
        /\ IsIn(Memory, NextBegin(ends)) /\ CellIn(Memory, NextBegin(ends)).tag = "DD"
        /\ GroupStart = RowBegin(ends, Len(delivered) + 1)
  BY <1>1, Reads
<1>4. PICK n \in Nat \ {0} : n = Len(Results) /\ DOMAIN Results = 1 .. n
  BY <1>1, Reads
<1>5. PICK k \in Nat \ {0} : k = Len(delivered) + 1 /\ Len(delivered) \in Nat /\ k <= Len(groups) + 1
  BY <1>1, Reads
<1>6. PICK p : p = GroupStart /\ p = RowBegin(ends, k)
  BY <1>3, <1>5
<1>7. /\ TagAt(p) = "DD" <=> k = Len(groups) + 1
      /\ TagAt(p) # "DD" /\ ~ Complete(p, n) => Excused
  <2>1. pc = "next" /\ p = RowBegin(ends, k)
    BY <1>1, <1>6
  <2>2. n = Len(Results)
    BY <1>4
  <2>3. k <= Len(groups) + 1
    BY <1>5
  <2> QED
    BY <1>3, <2>1, <2>2, <2>3, ReadsRow
<1>8. Excused' <=> Excused
  BY <1>1, WriteFacts, SameExcused DEF WritePremise, GroupPremise
<1>9. CASE GroupedRowThrows
  <2>1. outcome' = "threw" /\ TagAt(p) # "DD" /\ ~ Complete(p, n)
    BY <1>4, <1>6, <1>9 DEF GroupedRowThrows, Destroy
  <2>2. GroupTroubles'
    BY <1>2, <1>7, <1>8, <2>1, GroupTroublesStay DEF WritePremise, WriteInv
  <2> QED
    BY <1>1, <2>1, <2>2, WriteEnds
<1>10. CASE GroupedEnd
  <2>1. outcome' = "eof" /\ TagAt(p) = "DD"
    BY <1>6, <1>10 DEF GroupedEnd, Destroy
  <2>2. Len(delivered) = Len(groups)
    <3>1. Len(groups) \in Nat
      BY WriteFacts
    <3> QED
      BY <1>5, <1>7, <2>1, <3>1
  <2>3. GroupTroubles'
    BY <1>2, <2>1, GroupTroublesStay DEF WritePremise, WriteInv
  <2> QED
    BY <1>1, <2>2, <2>3, WriteEnds
<1> QED
  BY <1>9, <1>10

(* No block, a crash.                                                      *)
LEMMA WriteRefused ==
  ASSUME WritePremise, GroupBlockThrows \/ GroupStepOnReleased \/ ReadReleasedResult
  PROVE  WriteInv'
<1>1. pc' \in Ends \cup {"crashed"} /\ UNCHANGED <<groups, delivered, statement>>
  BY DEF GroupBlockThrows, GroupStepOnReleased, ReadReleasedResult, Destroy, Crash, GoTo, Ends
<1>2. CASE GroupBlockThrows
  <2>1. outcome' = "threw" /\ BM!CreateBlockThrows
    BY <1>2 DEF GroupBlockThrows, Destroy
  <2>2. GroupTroubles'
    BY <2>1, GroupTroublesRefuse DEF WritePremise, GroupPremise, WriteInv
  <2> QED
    BY <1>1, <2>1, <2>2, WriteEnds
<1>3. CASE GroupStepOnReleased \/ ReadReleasedResult
  <2>1. UNCHANGED <<copyVars, outcome>>
    BY <1>3 DEF GroupStepOnReleased, ReadReleasedResult
  <2>2. Excused' <=> Excused
    BY <1>1, WriteFacts, SameExcused DEF WritePremise, GroupPremise
  <2>3. GroupTroubles'
    BY <2>1, <2>2, GroupTroublesStay DEF copyVars, managerVars, WritePremise, WriteInv
  <2> QED
    BY <1>1, <2>1, <2>3, WriteEnds
<1> QED
  BY <1>2, <1>3

(* The blocks are given back; a caller stops asking; nothing happens.      *)
LEMMA WriteCloses ==
  ASSUME WritePremise,
         \/ ReleaseFunctionBlock
         \/ (InputThrows \/ Abandon \/ ReleaseBlocks \/ Close) /\ UNCHANGED ownVars
  PROVE  WriteInv'
<1>1. /\ pc' \in Ends /\ UNCHANGED <<delivered, groups, statement>>
      /\ UNCHANGED outcome \/ outcome' \in {"failed", "abandoned"}
      /\ UNCHANGED <<totalBlocks, sBlockNumber>>
  BY DEF ReleaseFunctionBlock, InputThrows, Abandon, ReleaseBlocks, Close, ReleaseNext, BM!Release,
    BM!managerVars, Destroy, GoTo, Ends, copyVars, managerVars, commonVars, ownVars
<1>2. Excused' <=> Excused
  BY <1>1, WriteFacts, SameExcused DEF WritePremise, GroupPremise
<1>3. GroupTroubles'
  BY <1>1, <1>2, GroupTroublesStay DEF WritePremise, WriteInv
<1> QED
  BY <1>1, <1>3, WriteEnds

LEMMA WriteStays ==
  ASSUME WritePremise, UNCHANGED vars
  PROVE  WriteInv'
<1>1. UNCHANGED <<pc, outcome, statement, groups, functionBlocks, target, delivered, col, at,
                  totalBlocks, sBlockNumber, cache, store>>
  BY DEF vars, ownVars, commonVars, copyVars, managerVars
<1>2. /\ RowSizes' = RowSizes /\ (Excused' <=> Excused)
  BY <1>1, WriteFacts, SameExcused DEF WritePremise, GroupPremise
<1>3. Memory' = Memory /\ (Held' <=> Held) /\ GroupStart' = GroupStart
  BY <1>1 DEF Memory, Held, NoBlock, BM!NoBlock, GroupStart
<1>4. GroupTroubles'
  BY <1>1, <1>2, GroupTroublesStay DEF WritePremise, WriteInv
<1>5. DeliveredGroups'
  BY <1>1, WriteFacts DEF WritePremise, WriteInv, DeliveredGroups
<1>6. CASE pc = "write"
  <2>1. PICK mem \in Memories, ends \in Seq(Positions) :
          ResultRows(mem, ends) /\ ResultsAhead(mem, ends) /\ mem # <<>>
    BY <1>6, Writes
  <2>2. Grows(mem, mem)
    BY DEF Grows
  <2>3. ResultRows(mem, ends)'
    BY <1>1, <2>1, <2>2, RowsGrow
  <2>4. RowSoFar(mem, NextBegin(ends), target.group, col - 1)'
    <3>1. PICK p, g, c : p = NextBegin(ends) /\ g = target.group /\ c = col - 1
      OBVIOUS
    <3>2. RowSoFar(mem, p, g, c)'
      BY <1>2, <2>1, <3>1, SoFarStays DEF ResultsAhead
    <3> QED
      BY <1>1, <3>1, <3>2
  <2>5. BytesCounted'
    BY <1>1, <1>2, <2>1, WriteFacts DEF ResultsAhead, BytesCounted
  <2>6. (/\ mem # <<>> /\ Memory = Ahead(mem) /\ Len(mem) = target.block
         /\ Len(ends) = target.group - 1 /\ target.group <= Len(groups) + 1
         /\ col <= Len(Results) + 1 /\ (target.group = Len(groups) + 1 => col = 1))'
    BY <1>1, <1>3, <2>1, WriteFacts DEF ResultsAhead, Ahead
  <2>7. ResultsAhead(mem, ends)'
    BY <2>4, <2>5, <2>6 DEF ResultsAhead
  <2> QED
    BY <1>1, <1>3, <1>4, <1>6, <2>3, <2>7, Writes, WriteGoesOn
<1>7. CASE pc = "next"
  <2>1. Held /\ outcome = "open"
    BY <1>7, Reads
  <2>2. PICK ends \in Seq(Positions) :
          /\ ResultRows(Memory, ends) /\ Len(ends) = Len(groups)
          /\ IsIn(Memory, NextBegin(ends)) /\ CellIn(Memory, NextBegin(ends)).tag = "DD"
          /\ GroupStart = RowBegin(ends, Len(delivered) + 1)
    BY <1>7, Reads
  <2>3. GroupStart' = RowBegin(ends, Len(delivered') + 1)
    BY <1>1, <1>3, <2>2
  <2> QED
    BY <1>1, <1>5, <1>7, <2>1, <2>2, <2>3, ReadStays
<1>8. CASE pc \notin {"write", "next"}
  <2>1. ResultsBlank'
    BY <1>1, <1>3, WriteFacts DEF WritePremise, WriteInv, ResultsBlank
  <2>2. ResultsWritten' /\ ResultsRead'
    BY <1>1, <1>8 DEF ResultsWritten, ResultsRead
  <2> QED
    BY <1>4, <1>5, <2>1, <2>2 DEF WriteInv
<1> QED
  BY <1>6, <1>7, <1>8

LEMMA WriteSteps ==
  ASSUME WritePremise, [Next]_vars
  PROVE  WriteInv'
<1>1. ~ SortNext /\ ~ ProjectNext
  BY SortOnly, ProjectOnly, Kinds DEF WritePremise, GroupPremise, TypeIInv, Stages
<1>2. CASE GroupNext
  <2>1. GroupEndOfInput => Grouping \/ Aggregating
    BY DEF WritePremise, GroupPremise
  <2> QED
    BY <1>2, <2>1, WriteFirst, WriteFunctions, WriteRows, WriteAggregate, WriteSpare, WriteValue,
      WriteNextBlock, WriteDrops, WriteEndsRow, WriteEndMark, WriteDelivers, WriteStops,
      WriteRefused, WriteCloses DEF GroupNext
<1>3. CASE ~ GroupNext
  <2>1. \/ (InputThrows \/ Abandon \/ ReleaseBlocks \/ Close) /\ UNCHANGED ownVars
        \/ UNCHANGED vars
    BY <1>1, <1>3 DEF Next, Stopped
  <2> QED
    BY <2>1, WriteCloses, WriteStays
<1> QED
  BY <1>2, <1>3

LEMMA WriteBegins == Init => WriteInv
<1> SUFFICES ASSUME Init PROVE WriteInv
  OBVIOUS
<1>1. /\ statement \in Statements /\ pc = "first" /\ groups = <<>> /\ delivered = <<>>
      /\ outcome = "open" /\ target = [block |-> 1, group |-> 1]
      /\ totalBlocks = statement.held /\ sBlockNumber = statement.held
  BY DEF Init, CommonInit
<1>2. ResultsBlank /\ ResultsWritten /\ ResultsRead
  BY <1>1 DEF ResultsBlank, Gathering, ResultsWritten, ResultsRead
<1>3. DeliveredGroups
  <2>1. Len(delivered) = 0 /\ Len(groups) = 0
    BY <1>1
  <2>2. delivered = [k \in 1 .. 0 |-> [c \in DOMAIN Results |-> <<k, c>>]]
    BY <1>1
  <2> QED
    BY <1>1, <2>1, <2>2 DEF DeliveredGroups
<1>4. GroupTroubles
  BY <1>1, StatementTypes DEF GroupTroubles
<1> QED
  BY <1>2, <1>3, <1>4 DEF WriteInv

(* What was delivered are the groups and what their functions mean.        *)
LEMMA WriteGives ==
  ASSUME TypeIInv, InputInv, GatherInv, WriteInv, Grouping \/ Aggregating
  PROVE  GroupsExplained /\ (outcome = "threw" /\ BM!Refused = 0 => Excused)
<1>1. InputTypes /\ Stages /\ GroupTypes
  BY DEF TypeIInv
<1>2. PICK m \in Nat : m = Len(delivered)
  BY DEF WriteInv, DeliveredGroups
<1>3. delivered = [k \in DOMAIN delivered |-> [c \in DOMAIN Results |-> <<k, c>>]]
  <2>1. delivered = [k \in 1 .. m |-> [c \in DOMAIN Results |-> <<k, c>>]]
    BY <1>2 DEF WriteInv, DeliveredGroups
  <2>2. DOMAIN delivered = 1 .. m
    BY <2>1
  <2> QED
    BY <2>1, <2>2
<1>4. ASSUME outcome = "eof"
      PROVE  /\ AllGathered /\ Len(delivered) = Len(groups)
             /\ \A g \in DOMAIN groups : \A c \in DOMAIN Results :
                  ResultExplained(Results[c], groups[g].members, Result(g, c))
  <2>1. AllGathered /\ Len(delivered) = Len(groups)
    BY <1>4 DEF AllGathered, WriteInv, DeliveredGroups
  <2>2. GroupsHold(Gathered)
    BY DEF GatherInv
  <2>3. ASSUME NEW g \in DOMAIN groups, NEW c \in DOMAIN Results
        PROVE  ResultExplained(Results[c], groups[g].members, Result(g, c))
    BY <1>1, <2>2, ResultsExplained
  <2> QED
    BY <2>1, <2>3
<1>5. outcome = "eof" /\ Grouping =>
        /\ {groups[g].members : g \in DOMAIN groups} = {GroupMates(r) : r \in ToSet(Taken)}
        /\ Len(groups) = Cardinality({GroupMates(r) : r \in ToSet(Taken)})
  BY <1>1, <1>4, GroupsFound
<1>6. outcome = "eof" /\ Aggregating => Len(groups) = 1 /\ groups[1].members = ToSet(Taken)
  BY <1>1, <1>4, AggregateFound
<1>7. GroupsExplained
  BY <1>3, <1>4, <1>5, <1>6 DEF GroupsExplained
<1> QED
  BY <1>7 DEF WriteInv, GroupTroubles

GroupIInv ==
  /\ RowIInv /\ InputInv /\ EndKnown /\ KeptExplained
  /\ Grouping \/ Aggregating => GatherInv /\ WriteInv

LEMMA GroupIBegins == Init => GroupIInv
BY RowBegins, InputBegins, GatherBegins, WriteBegins DEF GroupIInv

LEMMA GroupIStep == GroupIInv /\ [Next]_vars => GroupIInv'
<1> SUFFICES ASSUME GroupIInv, [Next]_vars PROVE GroupIInv'
  OBVIOUS
<1>1. RowIInv' /\ InputInv' /\ EndKnown'
  BY RowStep, EndKnownStep DEF GroupIInv
<1>2. UNCHANGED statement /\ (Grouping' <=> Grouping) /\ (Aggregating' <=> Aggregating)
  BY InputSteps DEF GroupIInv, RowIInv, InputStep, Grouping, Aggregating
<1>3. TypeIInv /\ TypeIInv' /\ InputInv
  BY <1>1 DEF GroupIInv, RowIInv
<1>4. KeptExplained'
  BY <1>2, <1>3, KeptSteps DEF GroupIInv, TypeIInv
<1>5. ASSUME Grouping \/ Aggregating PROVE GatherInv' /\ WriteInv'
  <2>1. ~ Projecting
    BY <1>3, <1>5, Kinds DEF TypeIInv, Stages
  <2>2. GroupPremise
    BY <1>1, <1>2, <1>3, <1>5, <2>1 DEF GroupPremise, GroupIInv, RowIInv
  <2>3. GatherInv /\ WriteInv
    BY <1>5 DEF GroupIInv
  <2>4. GatherInv'
    BY <2>2, <2>3, GatherSteps
  <2>5. WriteInv'
    BY <2>2, <2>3, WriteSteps DEF WritePremise
  <2> QED
    BY <2>4, <2>5
<1> QED
  BY <1>1, <1>2, <1>4, <1>5 DEF GroupIInv

(* For every statement with a GROUP BY or with aggregation functions,      *)
(* every size of the blocks and any cut of the rows by them: what is       *)
(* delivered are the groups of the rows, each once, with the values that   *)
(* the functions mean, and all of them when the end is reported; an        *)
(* operator that throws with no block refused has a value that fits into   *)
(* no block, or the row of an aggregation that is too large for one; and a *)
(* value is read that is gone only by MIN or MAX of strings, over rows     *)
(* that the input has given back.                                          *)
THEOREM AggregatesExplainedHolds == Spec => []AggregatesExplained
<1>1. GroupIInv => AggregatesExplained
  BY WriteGives DEF GroupIInv, RowIInv, KeptExplained, KeptReleasedString, AggregatesExplained, Excused
<1> QED
  BY <1>1, GroupIBegins, GroupIStep, PTL DEF Spec
=============================================================================
