--------------------------- MODULE CacheStateProofs ---------------------------
(* What the critical sections of the document cache do to its entries, its    *)
(* queues, its byte count and its tombstones, in any state and for any        *)
(* limits, and the facts on queues and sums they rest on.                     *)
EXTENDS CacheState, FiniteSetTheorems, WellFoundedInduction, TLAPS

(* A set of numbers has a least member.                                      *)
LEMMA LeastMember ==
  ASSUME NEW S \in SUBSET Nat, S # {}
  PROVE  Min(S) \in S /\ \A y \in S : Min(S) <= y
<1>1. PICK x \in S : \A y \in S : <<y, x>> \notin OpToRel(<, Nat)
  BY NatLessThanWellFounded, WFMin, Zenon
<1>3. OpToRel(<, Nat) = {ss \in Nat \X Nat : ss[1] < ss[2]}
  BY Zenon DEF OpToRel
<1>2. \A y \in S : x <= y
  <2> SUFFICES ASSUME NEW y \in S, y < x PROVE FALSE
    OBVIOUS
  <2>1. <<y, x>> \in {ss \in Nat \X Nat : ss[1] < ss[2]}
    OBVIOUS
  <2> QED
    BY <1>1, <1>3, <2>1, Zenon
<1> QED
  BY <1>2 DEF Min


-----------------------------------------------------------------------------
(* Queues                                                                     *)

(* A queue of the members of S, each once.                                    *)
Enumerates(queue, S) ==
  /\ queue \in Seq(S)
  /\ \A x \in S : \E i \in 1 .. Len(queue) : queue[i] = x
  /\ \A i, j \in 1 .. Len(queue) : queue[i] = queue[j] => i = j

LEMMA EnumeratedSet ==
  ASSUME NEW queue, NEW S, Enumerates(queue, S)
  PROVE  IsFiniteSet(S) /\ ToSet(queue) = S /\ Len(queue) = Cardinality(S) /\ Len(queue) \in Nat
<1>1. Len(queue) \in Nat /\ DOMAIN queue = 1 .. Len(queue) /\ queue \in [1 .. Len(queue) -> S]
  BY DEF Enumerates
<1>2. queue \in Surjection(1 .. Len(queue), S) /\ queue \in Injection(1 .. Len(queue), S)
  BY <1>1 DEF Enumerates, Surjection, Injection, IsInjective
<1>3. IsFiniteSet(1 .. Len(queue)) /\ Cardinality(1 .. Len(queue)) = Len(queue)
  BY <1>1, FS_Interval
<1>4. IsFiniteSet(S) /\ Cardinality(S) = Len(queue)
  BY <1>2, <1>3, FS_Surjection
<1>5. ToSet(queue) = S
  BY <1>1 DEF Enumerates, ToSet
<1> QED
  BY <1>1, <1>4, <1>5

(* What is left of a queue is in its order: the last stays the last.          *)
LEMMA WithoutEffect ==
  ASSUME NEW queue, NEW S, Enumerates(queue, S), NEW K
  PROVE  LET rest == Without(queue, K) IN
           /\ Enumerates(rest, S \ K)
           /\ Len(queue) > 0 /\ queue[Len(queue)] \notin K
                => Len(rest) > 0 /\ rest[Len(rest)] = queue[Len(queue)]
<1> DEFINE kept == {i \in DOMAIN queue : queue[i] \notin K}
           Rank(i) == Cardinality({j \in kept : j <= i})
           m == Cardinality(kept)
           rest == Without(queue, K)
<1>1. Len(queue) \in Nat /\ DOMAIN queue = 1 .. Len(queue) /\ queue \in [1 .. Len(queue) -> S]
  BY DEF Enumerates
<1>2. IsFiniteSet(kept) /\ m \in Nat /\ kept \subseteq 1 .. Len(queue)
  <2>1. kept \subseteq 1 .. Len(queue)
    BY <1>1
  <2>2. IsFiniteSet(1 .. Len(queue))
    BY <1>1, FS_Interval
  <2> HIDE DEF kept
  <2>3. IsFiniteSet(kept)
    BY <2>1, <2>2, FS_Subset
  <2> QED
    BY <2>1, <2>3, FS_CardinalityType
<1>3. rest = [n \in 1 .. m |-> queue[CHOOSE i \in kept : Rank(i) = n]]
  BY DEF Without
<1>4. \A i \in kept : queue[i] \in S \ K
  BY <1>1
<1>5. \A x \in S \ K : \E i \in kept : queue[i] = x
  BY <1>1 DEF Enumerates
<1> HIDE DEF kept
<1>6. \A i \in kept : Rank(i) \in 1 .. m
  <2> SUFFICES ASSUME NEW i \in kept
               PROVE  Rank(i) \in 1 .. m
    OBVIOUS
  <2>1. {j \in kept : j <= i} \subseteq kept /\ i \in {j \in kept : j <= i}
    BY <1>2
  <2>2. /\ IsFiniteSet({j \in kept : j <= i}) /\ Rank(i) <= m
        /\ Rank(i) # 0 /\ Rank(i) \in Nat
    BY <1>2, <2>1, FS_Subset, FS_EmptySet, FS_CardinalityType
  <2> QED
    BY <1>2, <2>2
<1>7. \A i, j \in kept : i < j => Rank(i) < Rank(j)
  <2> SUFFICES ASSUME NEW i \in kept, NEW j \in kept, i < j
               PROVE  Rank(i) < Rank(j)
    OBVIOUS
  <2> DEFINE A == {n \in kept : n <= i}
             B == {n \in kept : n <= j}
  <2>1. A \subseteq B /\ j \in B /\ j \notin A /\ B \subseteq kept
    <3>1. \A n \in kept : n \in Nat
      BY <1>1, <1>2
    <3> QED
      BY <3>1
  <2>3. IsFiniteSet(B)
    BY <1>2, <2>1, FS_Subset
  <2>2. Cardinality(A) <= Cardinality(B) /\ Cardinality(A) # Cardinality(B)
    <3> HIDE DEF A, B
    <3> QED
      BY <2>1, <2>3, FS_Subset
  <2> QED
    BY <1>2, <1>6, <2>2
<1> DEFINE rank == [i \in kept |-> Rank(i)]
<1> HIDE DEF Rank, m
<1>8. rank \in Injection(kept, 1 .. m)
  BY <1>2, <1>6, <1>7 DEF Injection, IsInjective
<1>9. IsFiniteSet(1 .. m) /\ Cardinality(1 .. m) = m
  BY <1>2, FS_Interval
<1>10. rank \in Surjection(kept, 1 .. m)
  <2> HIDE DEF rank
  <2> QED
    BY <1>8, <1>9, FS_Injection DEF m
<1> DEFINE Pick(n) == CHOOSE i \in kept : Rank(i) = n
<1>11. \A n \in 1 .. m : Pick(n) \in kept /\ Rank(Pick(n)) = n
  <2>1. \A n \in 1 .. m : \E i \in kept : Rank(i) = n
    BY <1>10 DEF Surjection
  <2> QED
    BY <2>1
<1>12. \A i, j \in kept : Rank(i) = Rank(j) => i = j
  BY <1>8 DEF Injection, IsInjective
<1>13. rest = [n \in 1 .. m |-> queue[Pick(n)]]
  BY <1>3
<1> HIDE DEF Pick, rest, rank
<1>14. rest \in Seq(S \ K) /\ Len(rest) = m /\ \A n \in 1 .. m : rest[n] = queue[Pick(n)]
  <2>1. \A n \in 1 .. m : queue[Pick(n)] \in S \ K
    BY <1>4, <1>11
  <2>2. rest \in [1 .. m -> S \ K]
    BY <1>13, <2>1
  <2>3. rest \in Seq(S \ K)
    BY <1>2, <2>2
  <2>4. Len(rest) = m
    BY <1>2, <2>2, <2>3
  <2> QED
    BY <1>13, <2>3, <2>4
<1>15. Enumerates(rest, S \ K)
  <2>1. \A x \in S \ K : \E n \in 1 .. m : rest[n] = x
    BY <1>5, <1>6, <1>11, <1>12, <1>14
  <2>2. \A n, o \in 1 .. m : rest[n] = rest[o] => n = o
    <3>1. \A i, j \in kept : queue[i] = queue[j] => i = j
      BY <1>2 DEF Enumerates
    <3> QED
      BY <1>11, <1>14, <3>1
  <2> QED
    BY <1>14, <2>1, <2>2 DEF Enumerates
<1>16. ASSUME Len(queue) > 0, queue[Len(queue)] \notin K
       PROVE  Len(rest) > 0 /\ rest[Len(rest)] = queue[Len(queue)]
  <2>1. Len(queue) \in kept
    BY <1>1, <1>16 DEF kept
  <2>2. {j \in kept : j <= Len(queue)} = kept
    <3>1. \A j \in kept : j <= Len(queue)
      BY <1>1, <1>2
    <3> QED
      BY <3>1
  <2>3. Rank(Len(queue)) = m
    BY <2>2 DEF Rank, m
  <2>4. m \in 1 .. m
    BY <1>6, <2>1, <2>3
  <2>5. Pick(m) = Len(queue)
    BY <1>11, <1>12, <2>1, <2>3, <2>4
  <2> QED
    BY <1>14, <2>4, <2>5
<1> QED
  BY <1>15, <1>16 DEF rest

(* A key that is touched is the last of the queue.                            *)
LEMMA TouchEffect ==
  ASSUME NEW queue, NEW S, Enumerates(queue, S), NEW x
  PROVE  LET t == Touch(queue, x) IN
           /\ Enumerates(t, S \cup {x})
           /\ Len(t) > 0 /\ t[Len(t)] = x
<1> DEFINE rest == Without(queue, {x})
<1>1. Enumerates(rest, S \ {x})
  BY WithoutEffect
<1> HIDE DEF rest
<1>2. /\ rest \in Seq(S \cup {x}) /\ Len(rest) \in Nat
      /\ \A i \in 1 .. Len(rest) : rest[i] \in S \ {x}
  BY <1>1 DEF Enumerates
<1>3. /\ Append(rest, x) \in Seq(S \cup {x})
      /\ Len(Append(rest, x)) = Len(rest) + 1
      /\ Append(rest, x)[Len(rest) + 1] = x
      /\ \A i \in 1 .. Len(rest) : Append(rest, x)[i] = rest[i]
  BY <1>2
<1>4. Enumerates(Append(rest, x), S \cup {x})
  <2> DEFINE t == Append(rest, x)
             n == Len(rest)
  <2>1. n \in Nat /\ t \in Seq(S \cup {x}) /\ Len(t) = n + 1 /\ t[n + 1] = x
    BY <1>2, <1>3
  <2>2. \A i \in 1 .. n : t[i] = rest[i] /\ rest[i] # x
    BY <1>2, <1>3
  <2>3. /\ \A y \in S \ {x} : \E i \in 1 .. n : rest[i] = y
        /\ \A i, j \in 1 .. n : rest[i] = rest[j] => i = j
    BY <1>1 DEF Enumerates
  <2> HIDE DEF t, n
  <2>4. \A i \in 1 .. n + 1 : i \in 1 .. n \/ i = n + 1
    BY <2>1
  <2>5. \A i \in 1 .. n : i \in 1 .. n + 1
    BY <2>1
  <2>6. n + 1 \in 1 .. n + 1
    BY <2>1
  <2>7. \A y \in S \cup {x} : \E i \in 1 .. Len(t) : t[i] = y
    BY <2>1, <2>2, <2>3, <2>5, <2>6
  <2>8. \A i, j \in 1 .. Len(t) : t[i] = t[j] => i = j
    BY <2>1, <2>2, <2>3, <2>4
  <2> QED
    BY <2>1, <2>7, <2>8 DEF Enumerates, t
<1> QED
  <2>1. Len(Append(rest, x)) > 0
    BY <1>2, <1>3
  <2>2. Touch(queue, x) = Append(rest, x)
    BY DEF Touch, rest
  <2> QED
    BY <1>3, <1>4, <2>1, <2>2
-----------------------------------------------------------------------------
(* Sums                                                                       *)

Pick(s) == CHOOSE x \in s : TRUE

(* f is the sum of the weights w of every set of at most n members of S.      *)
SumsUpTo(w, S, n, f) ==
  LET T == {s \in SUBSET S : Cardinality(s) <= n} IN
    /\ f \in [T -> Nat]
    /\ \A s \in T : f[s] = IF s = {} THEN 0 ELSE w[Pick(s)] + f[s \ {Pick(s)}]

(* f is the sum of the weights w of every set of members of S.                *)
Adds(w, S, f) == \A s \in SUBSET S : f[s] = IF s = {} THEN 0 ELSE w[Pick(s)] + f[s \ {Pick(s)}]

Sums(w, S, f) == f \in [SUBSET S -> Nat] /\ Adds(w, S, f)

LEMMA PickOne ==
  ASSUME NEW S, IsFiniteSet(S), NEW s \in SUBSET S, s # {}
  PROVE  /\ Pick(s) \in s /\ s \ {Pick(s)} \in SUBSET S
         /\ Cardinality(s \ {Pick(s)}) = Cardinality(s) - 1
         /\ Cardinality(s) \in Nat \ {0}
<1>1. Pick(s) \in s
  BY DEF Pick
<1>2. IsFiniteSet(s)
  BY FS_Subset
<1> QED
  BY <1>1, <1>2, FS_RemoveElement, FS_CardinalityType, FS_EmptySet

(* Among subsets of a finite set there is a smallest one.                     *)
LEMMA SmallestSet ==
  ASSUME NEW S, IsFiniteSet(S), NEW F \in SUBSET SUBSET S, F # {}
  PROVE  \E t \in F : \A u \in F : Cardinality(t) \in Nat /\ Cardinality(t) <= Cardinality(u)
<1> DEFINE sizes == {Cardinality(t) : t \in F}
<1>1. \A t \in F : Cardinality(t) \in Nat
  <2> SUFFICES ASSUME NEW t \in F PROVE Cardinality(t) \in Nat
    OBVIOUS
  <2>1. t \in SUBSET S
    OBVIOUS
  <2> QED
    BY <2>1, FS_Subset, FS_CardinalityType
<1>2. sizes \in SUBSET Nat /\ sizes # {}
  BY <1>1
<1>3. Min(sizes) \in sizes /\ \A y \in sizes : Min(sizes) <= y
  <2> HIDE DEF sizes
  <2> QED
    BY <1>2, LeastMember
<1> QED
  BY <1>1, <1>3

(* A finite set of weights has sums.                                          *)
LEMMA SumsExist ==
  ASSUME NEW S, IsFiniteSet(S), NEW w \in [S -> Nat]
  PROVE  \E f : Sums(w, S, f)
<1> DEFINE Failing == {n \in Nat : ~ \E f : SumsUpTo(w, S, n, f)}
<1>1. Failing = {}
  <2> SUFFICES ASSUME Failing # {} PROVE FALSE
    OBVIOUS
  <2> DEFINE n == Min(Failing)
  <2>1. n \in Failing /\ \A m \in Failing : n <= m
    BY LeastMember
  <2> HIDE DEF n
  <2>2. n \in Nat /\ ~ \E f : SumsUpTo(w, S, n, f)
    BY <2>1
  <2>3. CASE n = 0
    <3> DEFINE f == [s \in {s \in SUBSET S : Cardinality(s) <= 0} |-> 0]
    <3>1. \A r \in SUBSET S : Cardinality(r) <= 0 => r = {}
      <4> SUFFICES ASSUME NEW r \in SUBSET S, r # {} PROVE ~ Cardinality(r) <= 0
        OBVIOUS
      <4>1. Cardinality(r) \in Nat \ {0}
        BY PickOne
      <4> QED
        BY <4>1
    <3>2. SumsUpTo(w, S, 0, f)
      BY <3>1 DEF SumsUpTo
    <3> QED
      BY <2>2, <2>3, <3>2
  <2>4. CASE n # 0
    <3>1. PICK g : SumsUpTo(w, S, n - 1, g)
      BY <2>1, <2>2, <2>4
    <3> DEFINE T == {s \in SUBSET S : Cardinality(s) <= n}
               U == {s \in SUBSET S : Cardinality(s) <= n - 1}
               f == [s \in T |-> IF s = {} THEN 0 ELSE w[Pick(s)] + g[s \ {Pick(s)}]]
    <3>2. \A s \in T : s # {} => s \ {Pick(s)} \in U /\ s \ {Pick(s)} \in T /\ w[Pick(s)] \in Nat
      BY PickOne, <2>2
    <3>3. g \in [U -> Nat] /\ \A s \in U : g[s] = IF s = {} THEN 0 ELSE w[Pick(s)] + g[s \ {Pick(s)}]
      BY <3>1 DEF SumsUpTo
    <3>4. U \subseteq T
      <4>1. \A s \in SUBSET S : Cardinality(s) \in Nat
        BY FS_Subset, FS_CardinalityType
      <4> QED
        BY <2>2, <4>1
    <3> HIDE DEF T, U
    <3>5. \A s \in U : f[s] = g[s]
      BY <3>3, <3>4
    <3>6. f \in [T -> Nat]
      BY <3>2, <3>3
    <3>7. \A s \in T : f[s] = IF s = {} THEN 0 ELSE w[Pick(s)] + f[s \ {Pick(s)}]
      BY <3>2, <3>5
    <3> HIDE DEF f
    <3>8. SumsUpTo(w, S, n, f)
      BY <3>6, <3>7 DEF SumsUpTo, T
    <3> QED
      BY <2>2, <3>8
  <2> QED
    BY <2>3, <2>4
<1>2. Cardinality(S) \in Nat
  BY FS_CardinalityType
<1>3. PICK f : SumsUpTo(w, S, Cardinality(S), f)
  BY <1>1, <1>2
<1>4. {s \in SUBSET S : Cardinality(s) <= Cardinality(S)} = SUBSET S
  BY FS_Subset
<1>5. Sums(w, S, f)
  BY <1>3, <1>4 DEF SumsUpTo, Sums, Adds
<1> QED
  BY <1>5

(* The order in which the members are taken does not matter.                  *)
LEMMA SumsTakeAny ==
  ASSUME NEW S, IsFiniteSet(S), NEW w \in [S -> Nat], NEW f, Sums(w, S, f),
         NEW s \in SUBSET S, NEW x \in s
  PROVE  f[s] = w[x] + f[s \ {x}]
<1> DEFINE Failing == {t \in SUBSET S : \E y \in t : f[t] # w[y] + f[t \ {y}]}
<1>1. Failing = {}
  <2> SUFFICES ASSUME Failing # {} PROVE FALSE
    OBVIOUS
  <2>1. Failing \in SUBSET SUBSET S
    OBVIOUS
  <2>2. PICK t \in Failing : \A u \in Failing : Cardinality(t) <= Cardinality(u)
    <3> HIDE DEF Failing
    <3> QED
      BY <2>1, SmallestSet
  <2>3. t \in SUBSET S
    BY <2>2
  <2>4. PICK y \in t : f[t] # w[y] + f[t \ {y}]
    BY <2>2
  <2> DEFINE p == Pick(t)
  <2>5. /\ p \in t /\ t \ {p} \in SUBSET S
        /\ Cardinality(t \ {p}) = Cardinality(t) - 1
        /\ Cardinality(t) \in Nat \ {0}
    BY <2>3, <2>4, PickOne
  <2>6. f[t] = w[p] + f[t \ {p}]
    BY <2>3, <2>5 DEF Sums, Adds
  <2> HIDE DEF p
  <2>7. p # y
    BY <2>4, <2>6
  <2>8. /\ t \ {y} \in SUBSET S /\ Cardinality(t \ {y}) = Cardinality(t) - 1
    <3>1. IsFiniteSet(t)
      BY <2>3, FS_Subset
    <3> QED
      BY <2>3, <2>4, <3>1, FS_RemoveElement
  <2>9. \A u \in SUBSET S : \A z \in u : Cardinality(u) < Cardinality(t) => f[u] = w[z] + f[u \ {z}]
    <3> SUFFICES ASSUME NEW u \in SUBSET S, NEW z \in u, Cardinality(u) < Cardinality(t),
                        f[u] # w[z] + f[u \ {z}]
                 PROVE  FALSE
      OBVIOUS
    <3>1. u \in Failing
      OBVIOUS
    <3>2. Cardinality(u) \in Nat
      BY FS_Subset, FS_CardinalityType
    <3> QED
      BY <2>2, <2>5, <3>1, <3>2
  <2>12. (t \ {p}) \ {y} = (t \ {y}) \ {p}
    OBVIOUS
  <2>10. f[t \ {p}] = w[y] + f[(t \ {p}) \ {y}]
    BY <2>4, <2>5, <2>7, <2>9
  <2> DEFINE rest == f[(t \ {y}) \ {p}]
  <2>11. f[t \ {y}] = w[p] + f[(t \ {y}) \ {p}]
    BY <2>5, <2>7, <2>8, <2>9
  <2>13. w[p] \in Nat /\ w[y] \in Nat /\ rest \in Nat
    BY <2>3, <2>4, <2>5, <2>8 DEF Sums, Adds
  <2>14. f[t] = w[p] + (w[y] + rest) /\ f[t \ {y}] = w[p] + rest
    BY <2>6, <2>10, <2>11, <2>12
  <2> HIDE DEF rest
  <2>15. w[p] + (w[y] + rest) = w[y] + (w[p] + rest)
    BY <2>13
  <2> QED
    BY <2>4, <2>14, <2>15
<1> QED
  BY <1>1

(* Sums of the same weights are the same sums.                                *)
LEMMA SumsAgree ==
  ASSUME NEW S, IsFiniteSet(S), NEW w, NEW f, Adds(w, S, f),
         NEW T, NEW v, NEW g, Adds(v, T, g),
         NEW s, s \subseteq S, s \subseteq T, \A x \in s : w[x] = v[x]
  PROVE  f[s] = g[s]
<1> DEFINE Failing == {t \in SUBSET s : f[t] # g[t]}
<1>1. Failing = {}
  <2> SUFFICES ASSUME Failing # {} PROVE FALSE
    OBVIOUS
  <2>1. Failing \in SUBSET SUBSET S
    OBVIOUS
  <2>2. PICK t \in Failing : \A u \in Failing : Cardinality(t) <= Cardinality(u)
    <3> HIDE DEF Failing
    <3> QED
      BY <2>1, SmallestSet
  <2>3. t \in SUBSET S /\ t \in SUBSET T /\ t \in SUBSET s /\ f[t] # g[t]
    BY <2>2
  <2>4. t # {}
    BY <2>3 DEF Sums, Adds
  <2> DEFINE p == Pick(t)
  <2>5. /\ p \in t
        /\ Cardinality(t \ {p}) = Cardinality(t) - 1
        /\ Cardinality(t) \in Nat \ {0}
    BY <2>3, <2>4, PickOne
  <2>6. f[t] = w[p] + f[t \ {p}] /\ g[t] = v[p] + g[t \ {p}]
    BY <2>3, <2>4 DEF Sums, Adds
  <2> HIDE DEF p
  <2>7. t \ {p} \notin Failing
    BY <2>2, <2>5
  <2> QED
    BY <2>3, <2>5, <2>6, <2>7
<1> QED
  BY <1>1

(* The sum of two sets apart is the sum of their sums.                        *)
LEMMA SumsOfUnion ==
  ASSUME NEW S, IsFiniteSet(S), NEW w \in [S -> Nat], NEW f, Sums(w, S, f),
         NEW s \in SUBSET S, NEW r \in SUBSET S, s \cap r = {}
  PROVE  f[s \cup r] = f[s] + f[r]
<1> DEFINE Failing == {t \in SUBSET s : f[t \cup r] # f[t] + f[r]}
<1>1. Failing = {}
  <2> SUFFICES ASSUME Failing # {} PROVE FALSE
    OBVIOUS
  <2>1. Failing \in SUBSET SUBSET S
    OBVIOUS
  <2>2. PICK t \in Failing : \A u \in Failing : Cardinality(t) <= Cardinality(u)
    <3> HIDE DEF Failing
    <3> QED
      BY <2>1, SmallestSet
  <2>3. t \in SUBSET S /\ t \in SUBSET s /\ f[t \cup r] # f[t] + f[r]
    BY <2>2
  <2>4. t # {}
    <3> SUFFICES ASSUME t = {} PROVE FALSE
      OBVIOUS
    <3>1. t \cup r = r /\ f[t] = 0 /\ f[r] \in Nat
      BY <2>3 DEF Sums, Adds
    <3> QED
      BY <2>3, <3>1
  <2> DEFINE p == Pick(t)
  <2>5. /\ p \in t /\ p \notin r
        /\ Cardinality(t \ {p}) = Cardinality(t) - 1
        /\ Cardinality(t) \in Nat \ {0}
    BY <2>3, <2>4, PickOne
  <2> HIDE DEF p
  <2>6. f[t] = w[p] + f[t \ {p}]
    BY <2>3, <2>5, SumsTakeAny
  <2>7. f[t \cup r] = w[p] + f[(t \cup r) \ {p}]
    BY <2>3, <2>5, SumsTakeAny
  <2>8. (t \cup r) \ {p} = (t \ {p}) \cup r
    BY <2>5
  <2>9. f[(t \ {p}) \cup r] = f[t \ {p}] + f[r]
    BY <2>2, <2>3, <2>5
  <2>10. w[p] \in Nat /\ f[t \ {p}] \in Nat /\ f[r] \in Nat
    BY <2>3, <2>5 DEF Sums, Adds
  <2> DEFINE a == w[p]
             b == f[t \ {p}]
             c == f[r]
  <2>11. f[t \cup r] = a + (b + c) /\ f[t] = a + b
    BY <2>6, <2>7, <2>8, <2>9
  <2>12. a \in Nat /\ b \in Nat /\ c \in Nat
    BY <2>10
  <2>13. f[t \cup r] # f[t] + c
    BY <2>3
  <2> HIDE DEF a, b, c
  <2>14. a + (b + c) = (a + b) + c
    BY <2>12
  <2> QED
    BY <2>11, <2>13, <2>14
<1> QED
  BY <1>1

(* SizeOf, for the sets of keys of a map, is such a sum.                      *)
LEMMA SizeIsSum ==
  ASSUME NEW e, NEW K, IsFiniteSet(DOMAIN e), \A k \in DOMAIN e : e[k].size \in Nat,
         NEW w, \A k \in DOMAIN e : w[k] = e[k].size,
         NEW f, Adds(w, DOMAIN e, f)
  PROVE  SizeOf(e, K) = f[K \cap DOMAIN e]
<1> DEFINE T == K \cap DOMAIN e
           Recursion(h) ==
             h = [s \in SUBSET T |-> IF s = {} THEN 0
                                     ELSE e[CHOOSE x \in s : TRUE].size
                                          + h[s \ {CHOOSE x \in s : TRUE}]]
           iter == CHOOSE h : Recursion(h)
           v == [k \in T |-> e[k].size]
<1>1. SizeOf(e, K) = iter[T]
  <2>1. SizeOf(e, K) = MapThenFoldSet(+, 0, LAMBDA k : e[k].size,
                                      LAMBDA s : CHOOSE x \in s : TRUE, T)
    BY Zenon DEF SizeOf, MapThenSumSet
  <2> QED
    BY <2>1, Zenon DEF MapThenFoldSet
<1>2. IsFiniteSet(T) /\ T \subseteq DOMAIN e
  BY FS_Subset
<1>3. v \in [T -> Nat]
  OBVIOUS
<1>4. PICK g : Sums(v, T, g)
  <2> HIDE DEF T, v
  <2> QED
    BY <1>2, <1>3, SumsExist
<1>5. \A s \in SUBSET T : s # {} => Pick(s) \in T
  BY DEF Pick
<1>6. \A s \in SUBSET T : s # {} => v[Pick(s)] = e[Pick(s)].size
  BY <1>5
<1>7. Recursion(g)
  <2>1. g \in [SUBSET T -> Nat]
    BY <1>4 DEF Sums
  <2>2. \A s \in SUBSET T : g[s] = IF s = {} THEN 0 ELSE e[Pick(s)].size + g[s \ {Pick(s)}]
    BY <1>4, <1>6 DEF Sums, Adds
  <2> HIDE DEF T
  <2>3. g = [s \in SUBSET T |-> IF s = {} THEN 0 ELSE e[Pick(s)].size + g[s \ {Pick(s)}]]
    BY <2>1, <2>2
  <2> QED
    BY <2>3, Zenon DEF Pick
<1>8. Recursion(iter)
  <2> HIDE DEF Recursion
  <2> QED
    BY <1>7, Zenon
<1>9. iter = [s \in SUBSET T |-> IF s = {} THEN 0 ELSE e[Pick(s)].size + iter[s \ {Pick(s)}]]
  <2> HIDE DEF iter
  <2> QED
    BY <1>8, Zenon DEF Pick
<1> HIDE DEF iter
<1>10. Adds(v, T, iter)
  <2>1. \A s \in SUBSET T : iter[s] = IF s = {} THEN 0 ELSE e[Pick(s)].size + iter[s \ {Pick(s)}]
    <3> HIDE DEF T
    <3> QED
      BY <1>9
  <2> QED
    BY <1>6, <2>1 DEF Adds
<1>11. \A k \in T : v[k] = w[k]
  OBVIOUS
<1>12. iter[T] = f[T]
  <2> HIDE DEF T, v
  <2> QED
    BY <1>2, <1>10, <1>11, SumsAgree
<1> QED
  BY <1>1, <1>12

(* The sizes of a map add up over sets of keys apart.                         *)
LEMMA SizesAdd ==
  ASSUME NEW e, IsFiniteSet(DOMAIN e), \A k \in DOMAIN e : e[k].size \in Nat,
         NEW K, NEW L, K \cap L \cap DOMAIN e = {}
  PROVE  /\ SizeOf(e, K) \in Nat /\ SizeOf(e, L) \in Nat
         /\ SizeOf(e, K \cup L) = SizeOf(e, K) + SizeOf(e, L)
<1> DEFINE w == [k \in DOMAIN e |-> e[k].size]
<1>1. w \in [DOMAIN e -> Nat] /\ \A k \in DOMAIN e : w[k] = e[k].size
  OBVIOUS
<1> HIDE DEF w
<1>2. PICK f : Sums(w, DOMAIN e, f)
  BY <1>1, SumsExist
<1>3. \A M : SizeOf(e, M) = f[M \cap DOMAIN e]
  BY <1>1, <1>2, SizeIsSum DEF Sums
<1> DEFINE k == K \cap DOMAIN e
           l == L \cap DOMAIN e
<1>4. (K \cup L) \cap DOMAIN e = k \cup l /\ k \cap l = {} /\ k \in SUBSET DOMAIN e /\ l \in SUBSET DOMAIN e
  OBVIOUS
<1>5. f[k \cup l] = f[k] + f[l] /\ f[k] \in Nat /\ f[l] \in Nat
  <2> HIDE DEF k, l
  <2>1. f[k \cup l] = f[k] + f[l]
    BY <1>1, <1>2, <1>4, SumsOfUnion
  <2> QED
    BY <1>2, <1>4, <2>1 DEF Sums
<1> QED
  BY <1>3, <1>4, <1>5

(* One key weighs its size, none nothing.                                     *)
LEMMA SizeOfFew ==
  ASSUME NEW e, IsFiniteSet(DOMAIN e), \A k \in DOMAIN e : e[k].size \in Nat,
         NEW K
  PROVE  /\ K \cap DOMAIN e = {} => SizeOf(e, K) = 0
         /\ \A k \in DOMAIN e : K \cap DOMAIN e = {k} => SizeOf(e, K) = e[k].size
<1> DEFINE w == [k \in DOMAIN e |-> e[k].size]
<1>1. w \in [DOMAIN e -> Nat] /\ \A k \in DOMAIN e : w[k] = e[k].size
  OBVIOUS
<1> HIDE DEF w
<1>2. PICK f : Sums(w, DOMAIN e, f)
  BY <1>1, SumsExist
<1>3. SizeOf(e, K) = f[K \cap DOMAIN e]
  BY <1>1, <1>2, SizeIsSum DEF Sums
<1>4. f[{}] = 0
  BY <1>2 DEF Sums, Adds
<1>5. ASSUME NEW k \in DOMAIN e PROVE f[{k}] = e[k].size
  <2>1. f[{k}] = w[k] + f[{k} \ {k}]
    BY <1>1, <1>2, SumsTakeAny
  <2>2. {k} \ {k} = {}
    OBVIOUS
  <2>3. f[{k}] = e[k].size + 0
    BY <1>1, <1>4, <2>1, <2>2
  <2> QED
    BY <2>3
<1> QED
  BY <1>3, <1>4, <1>5

(* Only the sizes count.                                                      *)
LEMMA SameSizes ==
  ASSUME NEW e, IsFiniteSet(DOMAIN e), \A k \in DOMAIN e : e[k].size \in Nat,
         NEW d, IsFiniteSet(DOMAIN d), \A k \in DOMAIN d : d[k].size \in Nat,
         NEW K, K \cap DOMAIN e = K \cap DOMAIN d,
         \A k \in K \cap DOMAIN e : e[k].size = d[k].size
  PROVE  SizeOf(e, K) = SizeOf(d, K)
<1> DEFINE w == [k \in DOMAIN e |-> e[k].size]
           v == [k \in DOMAIN d |-> d[k].size]
           T == K \cap DOMAIN e
<1>1. w \in [DOMAIN e -> Nat] /\ \A k \in DOMAIN e : w[k] = e[k].size
  OBVIOUS
<1>2. v \in [DOMAIN d -> Nat] /\ \A k \in DOMAIN d : v[k] = d[k].size
  OBVIOUS
<1>3. \A k \in T : w[k] = v[k]
  OBVIOUS
<1> HIDE DEF w, v
<1>4. PICK f : Sums(w, DOMAIN e, f)
  BY <1>1, SumsExist
<1>5. PICK g : Sums(v, DOMAIN d, g)
  BY <1>2, SumsExist
<1>6. SizeOf(e, K) = f[T]
  BY <1>1, <1>4, SizeIsSum DEF Sums
<1>7. SizeOf(d, K) = g[T]
  BY <1>2, <1>5, SizeIsSum DEF Sums
<1>8. T \subseteq DOMAIN e /\ T \subseteq DOMAIN d
  OBVIOUS
<1> HIDE DEF T
<1>9. f[T] = g[T]
  BY <1>3, <1>4, <1>5, <1>8, SumsAgree DEF Sums
<1> QED
  BY <1>6, <1>7, <1>9

-----------------------------------------------------------------------------
(* Entries and tombstones                                                     *)

IsCache(s) == DOMAIN s = {"entries", "order", "latest", "observations", "bytes"}

(* The entries of t are some of those of s.                                   *)
Thins(t, s) ==
  /\ IsCache(t)
  /\ DOMAIN t.entries \subseteq DOMAIN s.entries
  /\ \A k \in DOMAIN t.entries : t.entries[k] = s.entries[k]

(* Removing entries leaves the others and the tombstones.                     *)
LEMMA RemoveThins ==
  ASSUME NEW s, NEW K, IsCache(s)
  PROVE  /\ Thins(RemoveEntries(s, K), s)
         /\ RemoveEntries(s, K).latest = s.latest
         /\ DOMAIN RemoveEntries(s, K).entries = DOMAIN s.entries \ K
<1> DEFINE bytes == SaturatingSub(s.bytes, SizeOf(s.entries, K))
           order == Without(s.order, K)
           entries == [k \in DOMAIN s.entries \ K |-> s.entries[k]]
<1>1. RemoveEntries(s, K) = [s EXCEPT !.entries = entries, !.bytes = bytes, !.order = order]
  BY DEF RemoveEntries, Restrict
<1>2. /\ IsCache(RemoveEntries(s, K))
      /\ RemoveEntries(s, K).entries = entries
      /\ RemoveEntries(s, K).latest = s.latest
  <2> HIDE DEF bytes, order, entries
  <2> QED
    BY <1>1 DEF IsCache
<1> QED
  BY <1>2 DEF Thins

LEMMA ThinsTransitive ==
  ASSUME NEW r, NEW s, NEW t, Thins(r, s), Thins(s, t)
  PROVE  Thins(r, t)
BY DEF Thins

(* Whatever it decides to pop, eviction removes entries and nothing else.     *)
LEMMA EvictThins ==
  ASSUME NEW s, IsCache(s)
  PROVE  Thins(Evict(s), s) /\ Evict(s).latest = s.latest
<1> DEFINE Pop(n) == RemoveEntries(s, ToSet(SubSeq(s.order, 1, n)))
<1>1. PICK n : Evict(s) = Pop(n)
  BY DEF Evict
<1> QED
  BY <1>1, RemoveThins

(* insert_entry adds that entry, unless it is at once evicted or expired, and *)
(* leaves nothing that has expired.                                           *)
LEMMA InsertEffect ==
  ASSUME NEW s, NEW k, NEW entry, NEW time, IsCache(s)
  PROVE  LET t == InsertEntry(s, k, entry, time) IN
           /\ IsCache(t)
           /\ t.latest = s.latest
           /\ DOMAIN t.entries \subseteq DOMAIN s.entries \cup {k}
           /\ \A j \in DOMAIN t.entries : t.entries[j] = IF j = k THEN entry ELSE s.entries[j]
           /\ \A j \in DOMAIN t.entries : ~ time > t.entries[j].expires
<1> DEFINE bytes == SaturatingSub(s.bytes, SizeOf(s.entries, {k})) + entry.size
           order == Touch(s.order, k)
           entries == Put(s.entries, k, entry)
           added == [s EXCEPT !.entries = entries, !.bytes = bytes, !.order = order]
           swept == RemoveEntries(added, Expired(added, time))
<1>1. InsertEntry(s, k, entry, time) = Evict(swept)
  BY DEF InsertEntry
<1>2. IsCache(added) /\ added.latest = s.latest /\ added.entries = entries
  <2> HIDE DEF bytes, order, entries
  <2> QED
    BY DEF IsCache
<1> HIDE DEF added
<1>3. /\ Thins(swept, added) /\ swept.latest = s.latest
      /\ \A j \in DOMAIN swept.entries : ~ time > swept.entries[j].expires
  <2>1. /\ Thins(swept, added) /\ swept.latest = s.latest
        /\ DOMAIN swept.entries = DOMAIN added.entries \ Expired(added, time)
    BY <1>2, RemoveThins
  <2> QED
    BY <2>1 DEF Thins, Expired
<1> HIDE DEF swept
<1>4. /\ Thins(Evict(swept), added) /\ Evict(swept).latest = s.latest
      /\ \A j \in DOMAIN Evict(swept).entries : ~ time > Evict(swept).entries[j].expires
  BY <1>3, EvictThins, ThinsTransitive DEF Thins
<1> QED
  BY <1>1, <1>2, <1>4 DEF Thins, Put

(* begin_observation records the observation and forgets one hash at most,    *)
(* with every entry that has it.                                              *)
LEMMA RegisterEffect ==
  ASSUME NEW s, NEW k, NEW g, IsCache(s)
  PROVE  LET t == RegisterObservation(s, k, g) IN
           /\ Thins(t, s)
           /\ DOMAIN t.latest \subseteq DOMAIN s.latest \cup {HashOf[k]}
           /\ \A h \in DOMAIN t.latest : t.latest[h] = IF h = HashOf[k] THEN g ELSE s.latest[h]
           /\ (\A j \in DOMAIN s.entries : HashOf[j] \in DOMAIN s.latest)
                => \A j \in DOMAIN t.entries : HashOf[j] \in DOMAIN t.latest
<1> DEFINE latest == Put(s.latest, HashOf[k], g)
           observations == Touch(s.observations, HashOf[k])
           recorded == [s EXCEPT !.latest = latest, !.observations = observations]
           oldest == Head(recorded.observations)
           forgotten == [recorded EXCEPT !.latest = Restrict(@, DOMAIN @ \ {oldest}),
                                         !.observations = Tail(@)]
           entries == {j \in DOMAIN s.entries : HashOf[j] = oldest}
<1>1. /\ IsCache(recorded) /\ recorded.latest = latest /\ recorded.entries = s.entries
  <2> HIDE DEF latest, observations
  <2> QED
    BY DEF IsCache
<1>2. \/ RegisterObservation(s, k, g) = recorded
      \/ RegisterObservation(s, k, g) = RemoveEntries(forgotten, entries)
  BY DEF RegisterObservation
<1> HIDE DEF recorded, oldest
<1>3. /\ IsCache(forgotten) /\ forgotten.entries = s.entries
      /\ forgotten.latest = [h \in DOMAIN latest \ {oldest} |-> latest[h]]
  <2>1. Restrict(latest, DOMAIN latest \ {oldest}) = [h \in DOMAIN latest \ {oldest} |-> latest[h]]
    BY DEF Restrict
  <2> HIDE DEF latest
  <2> QED
    BY <1>1, <2>1 DEF IsCache
<1>4. CASE RegisterObservation(s, k, g) = recorded
  BY <1>1, <1>4 DEF Thins, Put
<1>5. CASE RegisterObservation(s, k, g) = RemoveEntries(forgotten, entries)
  <2> DEFINE t == RemoveEntries(forgotten, entries)
  <2>1. Thins(t, forgotten) /\ t.latest = forgotten.latest /\ DOMAIN t.entries = DOMAIN s.entries \ entries
    <3> HIDE DEF forgotten, entries
    <3> QED
      BY <1>3, RemoveThins
  <2>2. Thins(t, s)
    BY <1>3, <2>1 DEF Thins
  <2>3. t.latest = [h \in DOMAIN latest \ {oldest} |-> latest[h]]
    BY <1>3, <2>1
  <2>4. RegisterObservation(s, k, g) = t
    BY <1>5
  <2>5. /\ DOMAIN t.entries \subseteq DOMAIN s.entries
        /\ \A j \in DOMAIN t.entries : HashOf[j] # oldest
    BY <2>1
  <2> HIDE DEF t, forgotten, entries
  <2>6. /\ DOMAIN t.latest = (DOMAIN s.latest \cup {HashOf[k]}) \ {oldest}
        /\ \A h \in DOMAIN t.latest : t.latest[h] = IF h = HashOf[k] THEN g ELSE s.latest[h]
    BY <2>3 DEF Put
  <2> QED
    BY <2>2, <2>4, <2>5, <2>6
<1> QED
  BY <1>2, <1>4, <1>5

(* Invalidation removes the key's entry, if the observation is the latest.    *)
LEMMA InvalidateThins ==
  ASSUME NEW s, NEW k, NEW g, IsCache(s)
  PROVE  LET t == InvalidateObservation(s, k, g) IN
           /\ Thins(t, s) /\ t.latest = s.latest
           /\ IsLatest(s, k, g) => k \notin DOMAIN t.entries
BY RemoveThins DEF InvalidateObservation, Thins

(* A lookup removes an entry at most.                                         *)
LEMMA GetThins ==
  ASSUME NEW s, NEW k, NEW requested, NEW maxAge, NEW time, IsCache(s),
         NEW t, t = AfterGet(s, k, requested, maxAge, time)
  PROVE  Thins(t, s) /\ t.latest = s.latest
<1>1. t = [s EXCEPT !.order = Touch(s.order, k)] \/ t = RemoveEntries(s, {k}) \/ t = s
  BY DEF AfterGet
<1>2. CASE t = [s EXCEPT !.order = Touch(s.order, k)]
  BY <1>2 DEF Thins, IsCache
<1>3. CASE t = RemoveEntries(s, {k})
  BY <1>3, RemoveThins
<1>4. CASE t = s
  BY <1>4 DEF Thins
<1> QED
  BY <1>1, <1>2, <1>3, <1>4

-----------------------------------------------------------------------------
(* Queues and byte count                                                      *)

(* The LRU queue lists the entries, the queue of observations the tombstones, *)
(* and the byte count is the size of what is cached.                          *)
WellKept(s) ==
  /\ IsCache(s)
  /\ Enumerates(s.order, DOMAIN s.entries)
  /\ Enumerates(s.observations, DOMAIN s.latest)
  /\ \A k \in DOMAIN s.entries : s.entries[k].size \in Nat
  /\ s.bytes = SizeOf(s.entries, DOMAIN s.entries)

LEMMA WellKeptSizes ==
  ASSUME NEW s, WellKept(s)
  PROVE  /\ IsFiniteSet(DOMAIN s.entries) /\ Cardinality(DOMAIN s.entries) \in Nat
         /\ IsFiniteSet(DOMAIN s.latest) /\ Cardinality(DOMAIN s.latest) \in Nat
         /\ s.bytes \in Nat
<1>1. IsFiniteSet(DOMAIN s.entries) /\ IsFiniteSet(DOMAIN s.latest)
  BY EnumeratedSet DEF WellKept
<1>2. SizeOf(s.entries, DOMAIN s.entries) \in Nat
  <2>1. DOMAIN s.entries \cap {} \cap DOMAIN s.entries = {}
    OBVIOUS
  <2>2. \A k \in DOMAIN s.entries : s.entries[k].size \in Nat
    BY DEF WellKept
  <2> QED
    BY <1>1, <2>1, <2>2, SizesAdd
<1> QED
  BY <1>1, <1>2, FS_CardinalityType DEF WellKept

(* Removing entries takes their size off the count and leaves less.           *)
LEMMA RemoveKeeps ==
  ASSUME NEW s, WellKept(s), NEW K, NEW t, t = RemoveEntries(s, K)
  PROVE  /\ WellKept(t) /\ t.order = Without(s.order, K)
         /\ t.bytes = SizeOf(s.entries, DOMAIN s.entries \ K)
         /\ t.bytes <= s.bytes
         /\ Fits(s) => Fits(t)
<1> DEFINE D == DOMAIN s.entries
           kept == D \ K
           bytes == SaturatingSub(s.bytes, SizeOf(s.entries, K))
           order == Without(s.order, K)
           entries == [k \in kept |-> s.entries[k]]
<1>1. RemoveEntries(s, K) = [s EXCEPT !.entries = entries, !.bytes = bytes, !.order = order]
  BY DEF RemoveEntries, Restrict
<1>2. /\ IsCache(t) /\ t.entries = entries /\ t.latest = s.latest
      /\ t.observations = s.observations /\ t.order = order /\ t.bytes = bytes
  <2> HIDE DEF bytes, order, entries
  <2> QED
    BY <1>1 DEF IsCache, WellKept
<1>3. DOMAIN entries = kept /\ \A k \in kept : entries[k] = s.entries[k] /\ k \in D
  OBVIOUS
<1>4. IsFiniteSet(D) /\ \A k \in D : s.entries[k].size \in Nat
  BY WellKeptSizes DEF WellKept
<1>5. IsFiniteSet(kept) /\ \A k \in kept : entries[k].size \in Nat
  BY <1>3, <1>4, FS_Subset
<1>6. /\ SizeOf(s.entries, K) \in Nat /\ SizeOf(s.entries, kept) \in Nat
      /\ SizeOf(s.entries, K \cup kept) = SizeOf(s.entries, K) + SizeOf(s.entries, kept)
  <2>1. K \cap kept \cap DOMAIN s.entries = {}
    OBVIOUS
  <2> HIDE DEF kept
  <2> QED
    BY <1>4, <2>1, SizesAdd
<1>7. SizeOf(s.entries, K \cup kept) = s.bytes
  <2>1. (K \cup kept) \cap DOMAIN s.entries = D \cap DOMAIN s.entries
    OBVIOUS
  <2> HIDE DEF kept
  <2>2. SizeOf(s.entries, K \cup kept) = SizeOf(s.entries, D)
    BY <1>4, <2>1, Zenon DEF SizeOf
  <2> QED
    BY <2>2 DEF WellKept
<1>8. SizeOf(entries, kept) = SizeOf(s.entries, kept)
  <2>1. kept \cap DOMAIN entries = kept \cap DOMAIN s.entries
    OBVIOUS
  <2>2. \A k \in kept \cap DOMAIN entries : entries[k].size = s.entries[k].size
    OBVIOUS
  <2>3. IsFiniteSet(DOMAIN entries) /\ \A k \in DOMAIN entries : entries[k].size \in Nat
    BY <1>3, <1>5
  <2> HIDE DEF kept, entries
  <2> QED
    BY <1>4, <2>1, <2>2, <2>3, SameSizes
<1>9. bytes = SizeOf(s.entries, kept)
  <2> HIDE DEF kept
  <2> QED
    BY <1>6, <1>7 DEF SaturatingSub
<1>10. Enumerates(order, kept)
  BY WithoutEffect DEF WellKept
<1> HIDE DEF bytes, order, entries, D
<1>11. WellKept(t)
  BY <1>2, <1>3, <1>5, <1>8, <1>9, <1>10 DEF WellKept
<1>12. t.bytes <= s.bytes
  BY <1>2, <1>6, <1>7, <1>9
<1>13. Cardinality(kept) <= Cardinality(D) /\ Cardinality(kept) \in Nat /\ Cardinality(D) \in Nat
  BY <1>4, FS_Subset, FS_CardinalityType
<1>14. Fits(s) => Fits(t)
  <2>1. s.bytes \in Nat /\ t.bytes \in Nat /\ MaxBytes \in Nat /\ MaxEntries \in Nat
    BY <1>11, WellKeptSizes, BoundsAssumption
  <2>2. DOMAIN t.entries = kept
    BY <1>2, <1>3
  <2> HIDE DEF kept
  <2> QED
    BY <1>12, <1>13, <2>1, <2>2 DEF Fits, D
<1> QED
  BY <1>2, <1>9, <1>11, <1>12, <1>14 DEF order, D

(* The first keys of the queue are all but those that come after them.        *)
LEMMA QueueFront ==
  ASSUME NEW queue, NEW S, Enumerates(queue, S), NEW n \in 0 .. Len(queue)
  PROVE  ToSet(SubSeq(queue, 1, n)) = {queue[i] : i \in 1 .. n}
<1>1. Len(queue) \in Nat /\ DOMAIN queue = 1 .. Len(queue) /\ queue \in Seq(S)
  BY DEF Enumerates
<1>2. DOMAIN SubSeq(queue, 1, n) = 1 .. n /\ \A i \in 1 .. n : SubSeq(queue, 1, n)[i] = queue[i]
  BY <1>1
<1> QED
  BY <1>2 DEF ToSet

(* Eviction keeps the books, makes room, and spares the last key of the queue *)
(* if it is small enough to be cached at all.                                 *)
THEOREM EvictKeeps ==
  ASSUME NEW s, WellKept(s), NEW t, t = Evict(s)
  PROVE  /\ WellKept(t) /\ Fits(t)
         /\ \A k \in DOMAIN s.entries :
              Len(s.order) > 0 /\ s.order[Len(s.order)] = k /\ s.entries[k].size <= MaxBytes
                => k \in DOMAIN t.entries
<1> DEFINE Pop(n) == RemoveEntries(s, ToSet(SubSeq(s.order, 1, n)))
           enough == {n \in 0 .. Len(s.order) : n = Len(s.order) \/ Fits(Pop(n))}
           n == Min(enough)
<1>1. t = Pop(n)
  BY DEF Evict
<1>2. Enumerates(s.order, DOMAIN s.entries) /\ Len(s.order) \in Nat /\ ToSet(s.order) = DOMAIN s.entries
  BY EnumeratedSet DEF WellKept
<1>3. enough \in SUBSET Nat /\ Len(s.order) \in enough
  BY <1>2
<1>4. n \in enough /\ \A m \in enough : n <= m
  <2> HIDE DEF enough
  <2> QED
    BY <1>3, LeastMember
<1> HIDE DEF n
<1>5. n \in 0 .. Len(s.order) /\ (n = Len(s.order) \/ Fits(Pop(n)))
  BY <1>4
<1>6. \A m : WellKept(Pop(m)) /\ Pop(m).bytes = SizeOf(s.entries, DOMAIN s.entries \ ToSet(SubSeq(s.order, 1, m)))
             /\ DOMAIN Pop(m).entries = DOMAIN s.entries \ ToSet(SubSeq(s.order, 1, m))
  <2> SUFFICES ASSUME NEW m
               PROVE  /\ WellKept(Pop(m))
                      /\ Pop(m).bytes = SizeOf(s.entries, DOMAIN s.entries \ ToSet(SubSeq(s.order, 1, m)))
                      /\ DOMAIN Pop(m).entries = DOMAIN s.entries \ ToSet(SubSeq(s.order, 1, m))
    OBVIOUS
  <2> DEFINE K == ToSet(SubSeq(s.order, 1, m))
             p == Pop(m)
  <2>1. p = RemoveEntries(s, K) /\ IsCache(s)
    BY DEF WellKept
  <2> HIDE DEF K, p
  <2>2. WellKept(p) /\ p.bytes = SizeOf(s.entries, DOMAIN s.entries \ K)
    BY <2>1, RemoveKeeps
  <2>3. DOMAIN p.entries = DOMAIN s.entries \ K
    BY <2>1, RemoveThins
  <2> QED
    BY <2>2, <2>3 DEF p, K
<1>7. IsFiniteSet(DOMAIN s.entries) /\ \A k \in DOMAIN s.entries : s.entries[k].size \in Nat
  BY WellKeptSizes DEF WellKept
<1>8. {MaxBytes, MaxEntries} \subseteq Nat \ {0}
  BY BoundsAssumption
<1>9. Fits(Pop(Len(s.order)))
  <2>1. ToSet(SubSeq(s.order, 1, Len(s.order))) = DOMAIN s.entries
    <3>1. Len(s.order) \in 0 .. Len(s.order)
      BY <1>2
    <3>2. ToSet(SubSeq(s.order, 1, Len(s.order))) = {s.order[i] : i \in 1 .. Len(s.order)}
      BY <1>2, <3>1, QueueFront
    <3>3. ToSet(s.order) = {s.order[i] : i \in 1 .. Len(s.order)}
      <4>1. DOMAIN s.order = 1 .. Len(s.order)
        BY <1>2 DEF Enumerates
      <4> QED
        BY <4>1 DEF ToSet
    <3> HIDE DEF Pop, enough
    <3> QED
      BY <1>2, <3>2, <3>3
  <2>2. DOMAIN s.entries \ ToSet(SubSeq(s.order, 1, Len(s.order))) = {}
    BY <2>1
  <2>3. SizeOf(s.entries, {}) = 0
    BY <1>7, SizeOfFew
  <2>4. DOMAIN Pop(Len(s.order)).entries = {} /\ Pop(Len(s.order)).bytes = 0
    BY <1>6, <2>2, <2>3
  <2> HIDE DEF Pop, enough
  <2>5. Cardinality({}) = 0
    BY FS_EmptySet
  <2> QED
    BY <1>8, <2>4, <2>5 DEF Fits
<1>10. Fits(t)
  BY <1>1, <1>5, <1>9
<1>11. ASSUME NEW k \in DOMAIN s.entries, Len(s.order) > 0, s.order[Len(s.order)] = k,
              s.entries[k].size <= MaxBytes
       PROVE  k \in DOMAIN t.entries
  <2> DEFINE m == Len(s.order) - 1
  <2>1. m \in 0 .. Len(s.order) /\ m + 1 = Len(s.order) /\ m \in Nat
    BY <1>2, <1>11
  <2>2. \A j \in 0 .. m : k \notin ToSet(SubSeq(s.order, 1, j))
    <3> SUFFICES ASSUME NEW j \in 0 .. m, k \in ToSet(SubSeq(s.order, 1, j))
                 PROVE  FALSE
      OBVIOUS
    <3>1. j \in 0 .. Len(s.order)
      BY <2>1
    <3>2. PICK i \in 1 .. j : s.order[i] = k
      BY <1>2, <3>1, QueueFront
    <3>3. i \in 1 .. Len(s.order) /\ Len(s.order) \in 1 .. Len(s.order) /\ i # Len(s.order)
      BY <1>2, <2>1
    <3> QED
      BY <1>2, <1>11, <3>2, <3>3 DEF Enumerates
  <2>3. DOMAIN s.entries \ ToSet(SubSeq(s.order, 1, m)) = {k}
    <3>1. ToSet(SubSeq(s.order, 1, m)) = {s.order[i] : i \in 1 .. m}
      BY <1>2, <2>1, QueueFront
    <3>2. \A x \in DOMAIN s.entries : x # k => \E i \in 1 .. m : s.order[i] = x
      <4>1. \A i \in 1 .. Len(s.order) : i = Len(s.order) \/ i \in 1 .. m
        BY <1>2, <2>1
      <4> QED
        BY <1>2, <1>11, <4>1 DEF Enumerates
    <3>3. k \notin ToSet(SubSeq(s.order, 1, m))
      BY <2>1, <2>2
    <3> QED
      BY <3>1, <3>2, <3>3
  <2>4. SizeOf(s.entries, {k}) = s.entries[k].size
    <3>1. {k} \cap DOMAIN s.entries = {k}
      OBVIOUS
    <3> QED
      BY <1>7, <3>1, SizeOfFew
  <2>5. DOMAIN Pop(m).entries = {k} /\ Pop(m).bytes = s.entries[k].size
    BY <1>6, <2>3, <2>4
  <2>6. Cardinality({k}) = 1
    BY FS_Singleton
  <2>7. Fits(Pop(m))
    <3> HIDE DEF Pop, enough, m
    <3>1. 1 <= MaxEntries
      BY <1>8
    <3>2. Cardinality(DOMAIN Pop(m).entries) = 1 /\ Pop(m).bytes <= MaxBytes
      BY <1>11, <2>5, <2>6
    <3> QED
      BY <3>1, <3>2 DEF Fits
  <2>8. m \in enough
    BY <2>1, <2>7
  <2>9. n \in 0 .. m
    BY <1>4, <1>5, <2>1, <2>8
  <2>10. k \notin ToSet(SubSeq(s.order, 1, n))
    BY <2>2, <2>9
  <2> QED
    BY <1>1, <1>6, <2>10
<1> HIDE DEF Pop, enough
<1> QED
  BY <1>1, <1>6, <1>10, <1>11

(* insert_entry keeps the books and both limits, and what it inserts is       *)
(* cached, unless it is too large or has expired.                             *)
LEMMA InsertKeeps ==
  ASSUME NEW s, WellKept(s), NEW k, NEW entry, entry.size \in Nat, NEW time,
         NEW t, t = InsertEntry(s, k, entry, time)
  PROVE  /\ WellKept(t) /\ Fits(t)
         /\ entry.size <= MaxBytes /\ ~ time > entry.expires => k \in DOMAIN t.entries
<1> DEFINE D == DOMAIN s.entries
           others == D \ {k}
           bytes == SaturatingSub(s.bytes, SizeOf(s.entries, {k})) + entry.size
           order == Touch(s.order, k)
           entries == [x \in D \cup {k} |-> IF x = k THEN entry ELSE s.entries[x]]
           added == [s EXCEPT !.entries = entries, !.bytes = bytes, !.order = order]
           swept == RemoveEntries(added, Expired(added, time))
<1>1. t = Evict(swept)
  BY DEF InsertEntry, Put
<1>2. /\ IsCache(added) /\ added.entries = entries /\ added.order = order /\ added.bytes = bytes
      /\ added.latest = s.latest /\ added.observations = s.observations
  <2> HIDE DEF bytes, order, entries
  <2> QED
    BY DEF IsCache, WellKept
<1>3. IsFiniteSet(D) /\ \A x \in D : s.entries[x].size \in Nat
  BY WellKeptSizes DEF WellKept
<1>4. /\ DOMAIN entries = D \cup {k} /\ entries[k] = entry
      /\ \A x \in others : entries[x] = s.entries[x] /\ x \in D
  OBVIOUS
<1>5. IsFiniteSet(DOMAIN entries) /\ \A x \in DOMAIN entries : entries[x].size \in Nat
  <2>1. IsFiniteSet(DOMAIN entries)
    BY <1>3, <1>4, FS_AddElement
  <2> QED
    BY <1>3, <2>1
<1>6. SizeOf(entries, DOMAIN entries) = entry.size + SizeOf(s.entries, others)
  <2>1. {k} \cap others \cap DOMAIN entries = {} /\ {k} \cap DOMAIN entries = {k} /\ k \in DOMAIN entries
    OBVIOUS
  <2>2. {k} \cup others = DOMAIN entries
    OBVIOUS
  <2>3. others \cap DOMAIN entries = others \cap D
    OBVIOUS
  <2>4. \A x \in others \cap DOMAIN entries : entries[x].size = s.entries[x].size
    BY <1>4
  <2> HIDE DEF others, entries, D
  <2>5. SizeOf(entries, {k} \cup others) = SizeOf(entries, {k}) + SizeOf(entries, others)
    BY <1>5, <2>1, SizesAdd
  <2>6. SizeOf(entries, {k}) = entry.size
    BY <1>4, <1>5, <2>1, SizeOfFew
  <2>7. SizeOf(entries, others) = SizeOf(s.entries, others)
    BY <1>3, <1>5, <2>3, <2>4, SameSizes DEF D
  <2> QED
    BY <2>2, <2>5, <2>6, <2>7
<1>7. SaturatingSub(s.bytes, SizeOf(s.entries, {k})) = SizeOf(s.entries, others) /\ SizeOf(s.entries, others) \in Nat
  <2>1. {k} \cap others \cap DOMAIN s.entries = {}
    OBVIOUS
  <2>2. ({k} \cup others) \cap DOMAIN s.entries = D \cap DOMAIN s.entries
    OBVIOUS
  <2> HIDE DEF others
  <2>3. /\ SizeOf(s.entries, {k}) \in Nat /\ SizeOf(s.entries, others) \in Nat
        /\ SizeOf(s.entries, {k} \cup others) = SizeOf(s.entries, {k}) + SizeOf(s.entries, others)
    BY <1>3, <2>1, SizesAdd
  <2>4. SizeOf(s.entries, {k} \cup others) = s.bytes
    <3>1. SizeOf(s.entries, {k} \cup others) = SizeOf(s.entries, D)
      BY <2>2, Zenon DEF SizeOf
    <3> QED
      BY <3>1 DEF WellKept
  <2> QED
    BY <2>3, <2>4 DEF SaturatingSub
<1>8. bytes = SizeOf(entries, DOMAIN entries)
  <2> HIDE DEF others, entries
  <2> QED
    BY <1>6, <1>7
<1>9. Enumerates(order, DOMAIN entries) /\ Len(order) > 0 /\ order[Len(order)] = k
  <2>1. Enumerates(order, D \cup {k}) /\ Len(order) > 0 /\ order[Len(order)] = k
    BY TouchEffect DEF WellKept
  <2> HIDE DEF order
  <2> QED
    BY <1>4, <2>1
<1> HIDE DEF others, bytes, order, entries, added
<1>10. WellKept(added)
  BY <1>2, <1>5, <1>8, <1>9 DEF WellKept
<1>11. WellKept(swept) /\ swept.order = Without(order, Expired(added, time))
  <2> HIDE DEF swept
  <2>1. swept = RemoveEntries(added, Expired(added, time))
    BY DEF swept
  <2> QED
    BY <1>2, <1>10, <2>1, RemoveKeeps
<1>12. DOMAIN swept.entries = DOMAIN entries \ Expired(added, time)
       /\ \A x \in DOMAIN swept.entries : swept.entries[x] = entries[x]
  BY <1>2, RemoveThins DEF Thins
<1> HIDE DEF swept
<1>13. ASSUME entry.size <= MaxBytes, ~ time > entry.expires
       PROVE  k \in DOMAIN t.entries
  <2>1. k \notin Expired(added, time)
    BY <1>2, <1>4, <1>13 DEF Expired
  <2>2. k \in DOMAIN swept.entries /\ swept.entries[k] = entry
    BY <1>4, <1>12, <2>1
  <2>3. Len(swept.order) > 0 /\ swept.order[Len(swept.order)] = k
    BY <1>9, <1>11, <2>1, WithoutEffect
  <2> QED
    BY <1>1, <1>11, <1>13, <2>2, <2>3, EvictKeeps
<1> QED
  BY <1>1, <1>11, <1>13, EvictKeeps

(* Without its head a queue lists the others.                                 *)
LEMMA TailEffect ==
  ASSUME NEW queue, NEW S, Enumerates(queue, S), Len(queue) > 0
  PROVE  Enumerates(Tail(queue), S \ {Head(queue)}) /\ Head(queue) \in S
<1> DEFINE t == Tail(queue)
           n == Len(queue)
           h == Head(queue)
<1>1. queue \in Seq(S) /\ n \in Nat /\ n > 0
  BY DEF Enumerates
<1>2. /\ h = queue[1] /\ t \in Seq(S) /\ Len(t) = n - 1
      /\ \A i \in 1 .. n - 1 : t[i] = queue[i + 1]
  BY <1>1
<1>3. /\ \A x \in S : \E i \in 1 .. n : queue[i] = x
      /\ \A i, j \in 1 .. n : queue[i] = queue[j] => i = j
      /\ \A i \in 1 .. n : queue[i] \in S
  BY <1>1 DEF Enumerates
<1> HIDE DEF t, n, h
<1>4. 1 \in 1 .. n /\ \A i \in 1 .. n - 1 : i + 1 \in 1 .. n /\ i + 1 # 1 /\ i \in Nat
  BY <1>1
<1>5. \A i \in 1 .. n : i = 1 \/ (i - 1 \in 1 .. n - 1 /\ (i - 1) + 1 = i)
  BY <1>1
<1>6. \A i \in 1 .. n - 1 : t[i] \in S \ {h}
  BY <1>2, <1>3, <1>4
<1>7. \A x \in S \ {h} : \E i \in 1 .. n - 1 : t[i] = x
  <2> SUFFICES ASSUME NEW x \in S \ {h} PROVE \E i \in 1 .. n - 1 : t[i] = x
    OBVIOUS
  <2>1. PICK i \in 1 .. n : queue[i] = x
    BY <1>3
  <2>2. i - 1 \in 1 .. n - 1 /\ (i - 1) + 1 = i
    BY <1>2, <1>5, <2>1
  <2>3. t[i - 1] = x
    BY <1>2, <2>1, <2>2
  <2> QED
    BY <2>2, <2>3
<1>8. \A i, j \in 1 .. n - 1 : t[i] = t[j] => i = j
  <2> SUFFICES ASSUME NEW i \in 1 .. n - 1, NEW j \in 1 .. n - 1, t[i] = t[j] PROVE i = j
    OBVIOUS
  <2>1. i + 1 = j + 1
    BY <1>2, <1>3, <1>4
  <2> QED
    BY <1>4, <2>1
<1>9. t \in Seq(S \ {h})
  <2>1. t = [i \in 1 .. n - 1 |-> t[i]]
    BY <1>1, <1>2
  <2>2. t \in [1 .. n - 1 -> S \ {h}]
    BY <1>6, <2>1
  <2>3. n - 1 \in Nat
    BY <1>1
  <2> QED
    BY <2>2, <2>3
<1> QED
  BY <1>2, <1>3, <1>4, <1>7, <1>8, <1>9 DEF Enumerates, t, h

(* begin_observation keeps the books and the limit on tombstones, does not    *)
(* forget the hash it records, and removes the entries of a hash it forgets   *)
(* and no other.                                                              *)
LEMMA RegisterKeeps ==
  ASSUME NEW s, WellKept(s), Cardinality(DOMAIN s.latest) <= MaxTombstones,
         NEW k, NEW g, NEW t, t = RegisterObservation(s, k, g)
  PROVE  /\ WellKept(t) /\ Cardinality(DOMAIN t.latest) <= MaxTombstones
         /\ Fits(s) => Fits(t)
         /\ HashOf[k] \in DOMAIN t.latest
         /\ \A j \in DOMAIN s.entries : HashOf[j] \in DOMAIN t.latest => j \in DOMAIN t.entries
<1> DEFINE h == HashOf[k]
           latest == [x \in DOMAIN s.latest \cup {h} |-> IF x = h THEN g ELSE s.latest[x]]
           observations == Touch(s.observations, h)
           recorded == [s EXCEPT !.latest = latest, !.observations = observations]
           oldest == Head(observations)
           left == [x \in DOMAIN latest \ {oldest} |-> latest[x]]
           forgotten == [s EXCEPT !.latest = left, !.observations = Tail(observations)]
           K == {j \in DOMAIN s.entries : HashOf[j] = oldest}
<1>1. IsCache(s)
  BY DEF WellKept
<1>2. /\ IsCache(recorded) /\ recorded.latest = latest /\ recorded.observations = observations
      /\ recorded.entries = s.entries /\ recorded.order = s.order /\ recorded.bytes = s.bytes
  <2> HIDE DEF latest, observations
  <2> QED
    BY <1>1 DEF IsCache
<1>3. /\ IsCache(forgotten) /\ forgotten.latest = left /\ forgotten.observations = Tail(observations)
      /\ forgotten.entries = s.entries /\ forgotten.order = s.order /\ forgotten.bytes = s.bytes
  <2> HIDE DEF left, observations
  <2> QED
    BY <1>1 DEF IsCache
<1>4. /\ Enumerates(observations, DOMAIN latest) /\ Len(observations) > 0
      /\ observations[Len(observations)] = h /\ h \in DOMAIN latest
  <2>1. /\ Enumerates(observations, DOMAIN s.latest \cup {h}) /\ Len(observations) > 0
        /\ observations[Len(observations)] = h
    <3> HIDE DEF h
    <3> QED
      BY TouchEffect DEF WellKept
  <2>2. DOMAIN latest = DOMAIN s.latest \cup {h}
    OBVIOUS
  <2> HIDE DEF latest, observations, h
  <2> QED
    BY <2>1, <2>2
<1>5. /\ IsFiniteSet(DOMAIN latest) /\ Cardinality(DOMAIN latest) <= MaxTombstones + 1
      /\ Cardinality(DOMAIN latest) \in Nat /\ MaxTombstones \in Nat
  <2>1. IsFiniteSet(DOMAIN s.latest) /\ Cardinality(DOMAIN s.latest) \in Nat
    BY WellKeptSizes
  <2>2. DOMAIN latest = DOMAIN s.latest \cup {h}
    OBVIOUS
  <2>3. MaxTombstones \in Nat
    BY BoundsAssumption
  <2> HIDE DEF latest, h
  <2> QED
    BY <2>1, <2>2, <2>3, FS_AddElement
<1>6. recorded = [s EXCEPT !.latest = Put(s.latest, h, g), !.observations = observations]
  BY DEF Put
<1>7. forgotten = [recorded EXCEPT !.latest = Restrict(recorded.latest, DOMAIN recorded.latest \ {oldest}),
                                   !.observations = Tail(recorded.observations)]
  <2>1. Restrict(latest, DOMAIN latest \ {oldest}) = left
    BY DEF Restrict
  <2> HIDE DEF left, latest, observations, oldest
  <2> QED
    BY <1>1, <1>2, <2>1 DEF IsCache
<1>8. t = IF Cardinality(DOMAIN recorded.latest) <= MaxTombstones THEN recorded
          ELSE RemoveEntries(forgotten, K)
  <2> DEFINE added == [s EXCEPT !.latest = Put(@, HashOf[k], g),
                                !.observations = Touch(@, HashOf[k])]
             fewer == [added EXCEPT !.latest = Restrict(@, DOMAIN @ \ {Head(added.observations)}),
                                    !.observations = Tail(@)]
  <2>1. t = IF Cardinality(DOMAIN added.latest) <= MaxTombstones THEN added
            ELSE RemoveEntries(fewer, {j \in DOMAIN s.entries : HashOf[j] = Head(added.observations)})
    BY DEF RegisterObservation
  <2>2. added = recorded
    BY <1>6
  <2>3. Head(added.observations) = oldest
    BY <1>2, <2>2
  <2> HIDE DEF added, recorded, forgotten
  <2>4. fewer = forgotten
    <3>1. fewer = [recorded EXCEPT !.latest = Restrict(recorded.latest, DOMAIN recorded.latest \ {oldest}),
                                   !.observations = Tail(recorded.observations)]
      BY <2>2, <2>3
    <3> QED
      BY <1>7, <3>1
  <2> HIDE DEF fewer
  <2> QED
    BY <2>1, <2>2, <2>3, <2>4
<1> HIDE DEF latest, observations, recorded, forgotten, oldest
<1>9. CASE Cardinality(DOMAIN latest) <= MaxTombstones
  <2>1. t = recorded
    BY <1>2, <1>8, <1>9
  <2>2. WellKept(recorded)
    BY <1>2, <1>4 DEF WellKept
  <2>3. Fits(s) => Fits(recorded)
    BY <1>2 DEF Fits
  <2> QED
    BY <1>2, <1>4, <1>9, <2>1, <2>2, <2>3
<1>10. CASE ~ Cardinality(DOMAIN latest) <= MaxTombstones
  <2>1. t = RemoveEntries(forgotten, K)
    BY <1>2, <1>8, <1>10
  <2>2. Enumerates(Tail(observations), DOMAIN left) /\ oldest \in DOMAIN latest
    <3>1. DOMAIN left = DOMAIN latest \ {oldest}
      OBVIOUS
    <3> HIDE DEF left
    <3> QED
      BY <1>4, <3>1, TailEffect DEF oldest
  <2>3. Cardinality(DOMAIN left) <= MaxTombstones
    <3>1. DOMAIN left = DOMAIN latest \ {oldest}
      OBVIOUS
    <3>2. Cardinality(DOMAIN latest \ {oldest}) = Cardinality(DOMAIN latest) - 1
      BY <1>5, <2>2, FS_RemoveElement
    <3> HIDE DEF left
    <3> QED
      BY <1>5, <3>1, <3>2
  <2>7. oldest # h
    <3>1. Len(observations) = Cardinality(DOMAIN latest) /\ Len(observations) > 1
      BY <1>4, <1>5, <1>10, BoundsAssumption, EnumeratedSet
    <3>2. /\ Len(observations) \in Nat /\ oldest = observations[1]
          /\ \A i, j \in 1 .. Len(observations) : observations[i] = observations[j] => i = j
      BY <1>4 DEF Enumerates, oldest
    <3> QED
      BY <1>4, <3>1, <3>2
  <2>8. DOMAIN left = DOMAIN latest \ {oldest}
    OBVIOUS
  <2> HIDE DEF left
  <2>4. WellKept(forgotten)
    BY <1>3, <2>2 DEF WellKept
  <2>5. Fits(s) => Fits(forgotten)
    BY <1>3 DEF Fits
  <2>6. WellKept(t) /\ t.latest = forgotten.latest /\ (Fits(forgotten) => Fits(t))
    <3>1. t.latest = forgotten.latest
      BY <1>3, <2>1, RemoveThins
    <3>2. WellKept(t) /\ (Fits(forgotten) => Fits(t))
      BY <2>1, <2>4, RemoveKeeps
    <3> QED
      BY <3>1, <3>2
  <2>9. \A j \in DOMAIN s.entries : HashOf[j] # oldest => j \in DOMAIN t.entries
    <3>1. DOMAIN t.entries = DOMAIN s.entries \ K
      <4> HIDE DEF K
      <4> QED
        BY <1>3, <2>1, RemoveThins
    <3> QED
      BY <3>1
  <2> QED
    BY <1>3, <1>4, <2>3, <2>5, <2>6, <2>7, <2>8, <2>9
<1> QED
  BY <1>9, <1>10

(* A lookup moves its key to the end of the queue, or removes it.             *)
LEMMA GetKeeps ==
  ASSUME NEW s, WellKept(s), NEW k, NEW requested, NEW maxAge, NEW time,
         NEW t, t = AfterGet(s, k, requested, maxAge, time)
  PROVE  WellKept(t) /\ t.latest = s.latest /\ (Fits(s) => Fits(t))
<1> DEFINE order == Touch(s.order, k)
<1>1. CASE t = [s EXCEPT !.order = order] /\ k \in DOMAIN s.entries
  <2>1. /\ IsCache(t) /\ t.entries = s.entries /\ t.order = order /\ t.bytes = s.bytes
        /\ t.latest = s.latest /\ t.observations = s.observations
    <3> HIDE DEF order
    <3> QED
      BY <1>1 DEF IsCache, WellKept
  <2>2. Enumerates(order, DOMAIN s.entries \cup {k})
    BY TouchEffect DEF WellKept
  <2>3. DOMAIN s.entries \cup {k} = DOMAIN s.entries
    BY <1>1
  <2> HIDE DEF order
  <2>4. WellKept(t)
    BY <2>1, <2>2, <2>3 DEF WellKept
  <2> QED
    BY <2>1, <2>4 DEF Fits
<1>2. CASE t = RemoveEntries(s, {k})
  <2>1. t.latest = s.latest
    BY <1>2, RemoveThins DEF WellKept
  <2>2. WellKept(t) /\ (Fits(s) => Fits(t))
    BY <1>2, RemoveKeeps
  <2> QED
    BY <2>1, <2>2
<1>3. CASE t = s
  BY <1>3
<1> HIDE DEF order
<1>4. \/ t = [s EXCEPT !.order = order] /\ k \in DOMAIN s.entries
      \/ t = RemoveEntries(s, {k})
      \/ t = s
  BY DEF AfterGet, Usable, order
<1> QED
  BY <1>1, <1>2, <1>3, <1>4

LEMMA InvalidateKeeps ==
  ASSUME NEW s, WellKept(s), NEW k, NEW g, NEW t, t = InvalidateObservation(s, k, g)
  PROVE  WellKept(t) /\ t.latest = s.latest /\ (Fits(s) => Fits(t))
<1>1. t = RemoveEntries(s, {k}) \/ t = s
  BY DEF InvalidateObservation
<1>2. CASE t = RemoveEntries(s, {k})
  <2>1. t.latest = s.latest
    BY <1>2, RemoveThins DEF WellKept
  <2>2. WellKept(t) /\ (Fits(s) => Fits(t))
    BY <1>2, RemoveKeeps
  <2> QED
    BY <2>1, <2>2
<1> QED
  BY <1>1, <1>2
=============================================================================
