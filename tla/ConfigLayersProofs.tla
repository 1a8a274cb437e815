----------------------- MODULE ConfigLayersProofs -----------------------
(***************************************************************************)
(* What merging and resolving guarantee for any two files, any request and *)
(* any client.  Lists are folded: a fold over a sequence is first shown to *)
(* be a recursion along its places, whatever the sequence.                 *)
(***************************************************************************)
EXTENDS ConfigLayers, RetryPolicyProofs, SequenceTheorems, FiniteSetTheorems

-----------------------------------------------------------------------------
(* Folds *)

LEMMA MaxFacts ==
    ASSUME NEW n \in Nat, NEW s \in SUBSET (1 .. n), s # {}
    PROVE  Max(s) \in s /\ \A x \in s : x <= Max(s)
<1> DEFINE S == {m \in Nat : \A t \in SUBSET (1 .. m) :
                    t # {} => \E x \in t : \A y \in t : x >= y}
<1>1. 0 \in S
  <2>1. 1 .. 0 = {}
    OBVIOUS
  <2> QED
    BY <2>1
<1>2. ASSUME NEW m \in Nat, m \in S PROVE m + 1 \in S
  <2> SUFFICES ASSUME NEW t \in SUBSET (1 .. m + 1), t # {}
               PROVE  \E x \in t : \A y \in t : x >= y
    OBVIOUS
  <2>1. CASE m + 1 \in t
    BY <2>1
  <2>2. CASE m + 1 \notin t
    <3>1. t \in SUBSET (1 .. m)
      BY <2>2
    <3> QED
      BY <1>2, <3>1
  <2> QED
    BY <2>1, <2>2
<1> HIDE DEF S
<1>3. \A m \in Nat : m \in S
  BY <1>1, <1>2, SetInduction
<1>4. \E x \in s : \A y \in s : x >= y
  BY <1>3 DEF S
<1>5. Max(s) \in s /\ \A y \in s : Max(s) >= y
  BY <1>4 DEF Max
<1> QED
  BY <1>5

\* The greatest of the first numbers, and what is left without it.
LEMMA MaxOfFirst ==
    ASSUME NEW k \in Nat
    PROVE  /\ 1 .. k + 1 # {}
           /\ Max(1 .. k + 1) = k + 1
           /\ (1 .. k + 1) \ {k + 1} = 1 .. k
<1>1. Max(1 .. k + 1) \in 1 .. k + 1 /\ \A x \in 1 .. k + 1 : x <= Max(1 .. k + 1)
  <2>1. k + 1 \in Nat /\ 1 .. k + 1 \in SUBSET (1 .. k + 1) /\ 1 .. k + 1 # {}
    OBVIOUS
  <2> QED
    BY <2>1, MaxFacts
<1>2. k + 1 \in 1 .. k + 1
  OBVIOUS
<1>3. Max(1 .. k + 1) = k + 1
  BY <1>1, <1>2
<1>4. ASSUME NEW x PROVE x \in (1 .. k + 1) \ {k + 1} <=> x \in 1 .. k
  OBVIOUS
<1> QED
  BY <1>2, <1>3, <1>4

\* A fold of the steps g over the sets of numbers up to n, from their least
\* number to their greatest.
Folds(v, b, g, n) ==
    \A s \in SUBSET (1 .. n) :
        v[s] = IF s = {} THEN b ELSE g[Max(s)][v[s \ {Max(s)}]]

LEMMA FoldExists ==
    ASSUME NEW A, NEW b \in A, NEW n \in Nat, NEW g \in [1 .. n -> [A -> A]]
    PROVE  \E v \in [SUBSET (1 .. n) -> A] : Folds(v, b, g, n)
<1> DEFINE D == SUBSET (1 .. n)
           V == [D -> A]
           first == [s \in D |-> b]
           with(k, h) == [s \in D |-> IF k + 1 \in s THEN g[k + 1][h[s]] ELSE h[s]]
           step == [k \in Nat |-> [h \in V |-> with(k, h)]]
<1>1. first \in V
  OBVIOUS
<1>2. ASSUME NEW k \in Nat, NEW h \in V PROVE with(k, h) \in V
  <2> SUFFICES ASSUME NEW s \in D PROVE (IF k + 1 \in s THEN g[k + 1][h[s]] ELSE h[s]) \in A
    OBVIOUS
  <2>1. h[s] \in A
    OBVIOUS
  <2>2. CASE k + 1 \in s
    <3>1. k + 1 \in 1 .. n
      BY <2>2
    <3>2. g[k + 1] \in [A -> A]
      BY <3>1
    <3>3. g[k + 1][h[s]] \in A
      BY <2>1, <3>2
    <3> QED
      BY <2>2, <3>3
  <2>3. CASE k + 1 \notin s
    BY <2>1, <2>3
  <2> QED
    BY <2>2, <2>3
<1>3. step \in StepsOn(V)
  <2> HIDE DEF with, V
  <2> QED
    BY <1>2 DEF StepsOn
<1>4. PICK f \in [Nat -> V] : Follows(f, first, step)
  <2> HIDE DEF V, first, step
  <2> QED
    BY <1>1, <1>3, Recursion
<1>5. /\ \A s \in D : f[0][s] = b
      /\ \A k \in Nat : \A s \in D :
             f[k + 1][s] = IF k + 1 \in s THEN g[k + 1][f[k][s]] ELSE f[k][s]
  <2>1. f[0] = first /\ \A k \in Nat : f[k + 1] = step[k][f[k]]
    BY <1>4 DEF Follows
  <2>2. \A k \in Nat : f[k] \in V
    OBVIOUS
  <2>3. ASSUME NEW k \in Nat PROVE f[k + 1] = with(k, f[k])
    <3> HIDE DEF V, with
    <3> QED
      BY <2>1, <2>2
  <2>4. ASSUME NEW k \in Nat, NEW s \in D
        PROVE  f[k + 1][s] = IF k + 1 \in s THEN g[k + 1][f[k][s]] ELSE f[k][s]
    <3>1. f[k + 1] = with(k, f[k])
      BY <2>3
    <3> HIDE DEF D, V, step
    <3> QED
      BY <3>1
  <2>5. ASSUME NEW s \in D PROVE f[0][s] = b
    <3>1. f[0] = first
      BY <2>1
    <3> HIDE DEF D, V, step
    <3> QED
      BY <3>1
  <2> QED
    BY <2>4, <2>5
\* Numbers beyond a set change nothing, and it is all that counts.
<1>6. \A k \in Nat : \A s \in D : \A m \in 0 .. k : s \subseteq 1 .. m => f[k][s] = f[m][s]
  <2> DEFINE S == {k \in Nat : \A s \in D : \A m \in 0 .. k : s \subseteq 1 .. m => f[k][s] = f[m][s]}
  <2>1. 0 \in S
    OBVIOUS
  <2>2. ASSUME NEW k \in Nat, k \in S PROVE k + 1 \in S
    <3> SUFFICES ASSUME NEW s \in D, NEW m \in 0 .. k + 1, s \subseteq 1 .. m
                 PROVE  f[k + 1][s] = f[m][s]
      OBVIOUS
    <3>1. CASE m = k + 1
      BY <3>1
    <3>2. CASE m # k + 1
      <4>1. m \in 0 .. k /\ k + 1 \notin s
        BY <3>2
      <4> QED
        BY <1>5, <2>2, <4>1
    <3> QED
      BY <3>1, <3>2
  <2> HIDE DEF S
  <2>3. \A k \in Nat : k \in S
    BY <2>1, <2>2, SetInduction
  <2> QED
    BY <2>3 DEF S
<1>7. \A k \in Nat : \A s \in D : f[k][s] = f[k][s \cap (1 .. k)]
  <2> DEFINE S == {k \in Nat : \A s \in D : \A t \in D :
                      s \cap (1 .. k) = t \cap (1 .. k) => f[k][s] = f[k][t]}
  <2>1. 0 \in S
    BY <1>5
  <2>2. ASSUME NEW k \in Nat, k \in S PROVE k + 1 \in S
    <3> SUFFICES ASSUME NEW s \in D, NEW t \in D, s \cap (1 .. k + 1) = t \cap (1 .. k + 1)
                 PROVE  f[k + 1][s] = f[k + 1][t]
      OBVIOUS
    <3>1. s \cap (1 .. k) = t \cap (1 .. k)
      <4>1. \A x \in 1 .. k : x \in 1 .. k + 1
        OBVIOUS
      <4> QED
        BY <4>1
    <3>2. k + 1 \in s <=> k + 1 \in t
      <4>1. k + 1 \in 1 .. k + 1
        OBVIOUS
      <4> QED
        BY <4>1
    <3>3. f[k][s] = f[k][t]
      BY <2>2, <3>1
    <3> QED
      BY <1>5, <3>2, <3>3
  <2> HIDE DEF S
  <2>3. \A k \in Nat : k \in S
    BY <2>1, <2>2, SetInduction
  <2> SUFFICES ASSUME NEW k \in Nat, NEW s \in D PROVE f[k][s] = f[k][s \cap (1 .. k)]
    OBVIOUS
  <2>4. s \cap (1 .. k) \in D /\ (s \cap (1 .. k)) \cap (1 .. k) = s \cap (1 .. k)
    OBVIOUS
  <2> QED
    BY <2>3, <2>4 DEF S
<1>8. Folds(f[n], b, g, n)
  <2> SUFFICES ASSUME NEW s \in D
               PROVE  f[n][s] = IF s = {} THEN b ELSE g[Max(s)][f[n][s \ {Max(s)}]]
    BY DEF Folds
  <2>1. CASE s = {}
    <3>1. 0 \in 0 .. n /\ s \subseteq 1 .. 0
      BY <2>1
    <3>2. f[n][s] = f[0][s]
      BY <1>6, <3>1
    <3> QED
      BY <1>5, <2>1, <3>2
  <2>2. CASE s # {}
    <3> DEFINE m == Max(s)
               t == s \ {m}
    <3>1. m \in s /\ (\A x \in s : x <= m) /\ m \in 1 .. n
      BY <2>2, MaxFacts
    <3>2. m - 1 \in Nat /\ (m - 1) + 1 = m /\ m - 1 \in 0 .. n /\ m \in 0 .. n
      BY <3>1
    <3>3. t \in D /\ t \subseteq 1 .. m - 1 /\ s \subseteq 1 .. m /\ s \cap (1 .. m - 1) = t
      <4>1. m \in Nat /\ \A x \in s : x \in 1 .. n /\ x \in 1 .. m
        BY <3>1
      <4>2. \A x \in t : x \in s /\ x # m
        OBVIOUS
      <4> HIDE DEF m, t
      <4>3. ASSUME NEW x \in t PROVE x \in 1 .. m - 1
        <5>1. x \in 1 .. m /\ x # m
          BY <4>1, <4>2
        <5> QED
          BY <4>1, <5>1
      <4>4. \A x \in 1 .. m - 1 : x # m
        BY <4>1
      <4>5. t = s \ {m}
        BY DEF t
      <4> QED
        BY <4>1, <4>2, <4>3, <4>4, <4>5
    <3> HIDE DEF m, t
    <3>4. f[n][s] = f[m][s]
      BY <1>6, <3>2, <3>3
    <3>5. f[m][s] = g[m][f[m - 1][s]]
      BY <1>5, <3>1, <3>2
    <3>6. f[m - 1][s] = f[m - 1][t]
      BY <1>7, <3>2, <3>3
    <3>7. f[n][t] = f[m - 1][t]
      BY <1>6, <3>2, <3>3
    <3>8. f[n][s] = g[m][f[n][t]]
      BY <3>4, <3>5, <3>6, <3>7
    <3> QED
      BY <2>2, <3>8 DEF m, t
  <2> QED
    BY <2>1, <2>2
<1> QED
  BY <1>8

\* A function of sets that folds the values of A, wherever it has one.
FoldsOver(w, A, b, g, n) ==
    /\ w[{}] = b
    /\ \A s \in SUBSET (1 .. n) :
           s # {} /\ w[s \ {Max(s)}] \in A => w[s] = g[Max(s)][w[s \ {Max(s)}]]

\* What it gives along the places.
Along(f, b, g, n) == f[0] = b /\ \A k \in 0 .. n - 1 : f[k + 1] = g[k + 1][f[k]]

LEMMA FoldAlong ==
    ASSUME NEW A, NEW b \in A, NEW n \in Nat, NEW g \in [1 .. n -> [A -> A]],
           NEW w, FoldsOver(w, A, b, g, n)
    PROVE  \E f \in [0 .. n -> A] : Along(f, b, g, n) /\ f[n] = w[1 .. n]
<1> DEFINE f == [k \in 0 .. n |-> w[1 .. k]]
<1>1. f[0] = b
  <2>1. 1 .. 0 = {} /\ 0 \in 0 .. n
    OBVIOUS
  <2> QED
    BY <2>1 DEF FoldsOver
<1>2. ASSUME NEW k \in 0 .. n - 1, f[k] \in A
      PROVE  f[k + 1] = g[k + 1][f[k]] /\ f[k + 1] \in A
  <2>1. /\ k \in Nat /\ 1 .. k + 1 \in SUBSET (1 .. n)
        /\ k \in 0 .. n /\ k + 1 \in 0 .. n /\ k + 1 \in 1 .. n
    OBVIOUS
  <2>2. /\ 1 .. k + 1 # {} /\ Max(1 .. k + 1) = k + 1 /\ (1 .. k + 1) \ {k + 1} = 1 .. k
    BY <2>1, MaxOfFirst
  <2>3. w[1 .. k] \in A
    BY <1>2, <2>1
  <2>4. w[1 .. k + 1] = g[k + 1][w[1 .. k]]
    BY <2>1, <2>2, <2>3 DEF FoldsOver
  <2>5. g[k + 1] \in [A -> A]
    BY <2>1
  <2> QED
    BY <2>1, <2>3, <2>4, <2>5
<1>3. \A k \in 0 .. n : f[k] \in A
  <2> DEFINE S == {k \in Nat : k <= n => f[k] \in A}
  <2>1. 0 \in S
    BY <1>1
  <2>2. ASSUME NEW k \in Nat, k \in S PROVE k + 1 \in S
    <3> HIDE DEF f
    <3> QED
      BY <1>2, <2>2
  <2> HIDE DEF S
  <2>3. \A k \in Nat : k \in S
    BY <2>1, <2>2, SetInduction
  <2> HIDE DEF f
  <2> QED
    BY <2>3 DEF S
<1>4. f \in [0 .. n -> A]
  BY <1>3
<1>5. f[n] = w[1 .. n]
  OBVIOUS
<1>6. \A k \in 0 .. n - 1 : f[k + 1] = g[k + 1][f[k]]
  <2>1. \A k \in 0 .. n - 1 : k \in 0 .. n
    OBVIOUS
  <2> HIDE DEF f
  <2> QED
    BY <1>2, <1>3, <2>1
<1>7. Along(f, b, g, n)
  BY <1>1, <1>6 DEF Along
<1> HIDE DEF f
<1> QED
  BY <1>4, <1>5, <1>7

-----------------------------------------------------------------------------
(* Merging *)

LEMMA TakeFacts ==
    ASSUME NEW X, NEW taken \in Seq(X), NEW item \in X
    PROVE  /\ Take(taken, item) \in Seq(X)
           /\ ToSet(Take(taken, item)) \subseteq ToSet(taken) \cup {item}
           /\ NamesUnique(taken) => NamesUnique(Take(taken, item))
<1>1. CASE item.name # Blank /\ \E i \in DOMAIN taken : taken[i].name = item.name
  BY <1>1 DEF Take
<1>2. CASE ~(item.name # Blank /\ \E i \in DOMAIN taken : taken[i].name = item.name)
  <2> DEFINE n == Len(taken)
             t == Append(taken, item)
  <2>1. Take(taken, item) = t
    BY <1>2 DEF Take
  <2>2. /\ n \in Nat /\ DOMAIN taken = 1 .. n
        /\ t \in Seq(X) /\ DOMAIN t = 1 .. n + 1
        /\ \A i \in 1 .. n : t[i] = taken[i]
        /\ t[n + 1] = item
    BY AppendProperties, LenProperties
  <2> HIDE DEF n, t
  <2>3. \A i \in 1 .. n + 1 : i \in 1 .. n \/ i = n + 1
    BY <2>2
  <2>4. ToSet(t) \subseteq ToSet(taken) \cup {item}
    BY <2>2, <2>3 DEF ToSet
  <2>5. ASSUME NamesUnique(taken) PROVE NamesUnique(t)
    <3> SUFFICES ASSUME NEW i \in 1 .. n + 1, NEW j \in 1 .. n + 1, i # j, t[i].name # Blank
                 PROVE  t[i].name # t[j].name
      BY <2>2 DEF NamesUnique
    <3>1. CASE i \in 1 .. n /\ j \in 1 .. n
      BY <2>2, <2>5, <3>1 DEF NamesUnique
    <3>2. CASE i = n + 1 /\ j \in 1 .. n
      BY <1>2, <2>2, <3>2
    <3>3. CASE i \in 1 .. n /\ j = n + 1
      BY <1>2, <2>2, <3>3
    <3> QED
      BY <2>3, <3>1, <3>2, <3>3
  <2> QED
    BY <2>1, <2>2, <2>4, <2>5
<1> QED
  BY <1>1, <1>2

\* What is taken of the first places of a list.
TakenAlong(f, X, list) ==
    /\ f[0] = <<>>
    /\ \A k \in 0 .. Len(list) : f[k] \in Seq(X)
    /\ \A k \in 0 .. Len(list) - 1 : f[k + 1] = Take(f[k], list[k + 1])
    /\ FoldLeft(Take, <<>>, list) = f[Len(list)]

LEMMA TakeFold ==
    ASSUME NEW X, NEW list \in Seq(X)
    PROVE  \E f : TakenAlong(f, X, list)
<1> DEFINE n == Len(list)
           A == Seq(X)
           g == [i \in 1 .. n |-> [a \in A |-> Take(a, list[i])]]
           IsFold(v) == v = [s \in SUBSET (1 .. n) |->
                                IF s = {} THEN <<>> ELSE Take(v[s \ {Max(s)}], list[Max(s)])]
           w == CHOOSE v : IsFold(v)
<1>1. n \in Nat /\ DOMAIN list = 1 .. n
  BY LenProperties
<1>2. <<>> \in A
  BY EmptySeq
<1>3. ASSUME NEW i \in 1 .. n, NEW a \in A PROVE Take(a, list[i]) \in A
  BY TakeFacts
<1>4. g \in [1 .. n -> [A -> A]]
  <2> HIDE DEF A
  <2> QED
    BY <1>3
<1>5. PICK v \in [SUBSET (1 .. n) -> A] : Folds(v, <<>>, g, n)
  <2> HIDE DEF n, A, g
  <2> QED
    BY <1>1, <1>2, <1>4, FoldExists
<1>6. IsFold(v)
  <2> SUFFICES ASSUME NEW s \in SUBSET (1 .. n)
               PROVE  v[s] = IF s = {} THEN <<>> ELSE Take(v[s \ {Max(s)}], list[Max(s)])
    OBVIOUS
  <2>1. s # {} => Max(s) \in 1 .. n
    BY <1>1, MaxFacts
  <2>2. v[s \ {Max(s)}] \in A
    OBVIOUS
  <2>3. v[s] = IF s = {} THEN <<>> ELSE g[Max(s)][v[s \ {Max(s)}]]
    BY <1>5 DEF Folds
  <2> HIDE DEF A, n
  <2> QED
    BY <2>1, <2>2, <2>3
<1>7. IsFold(w)
  <2> HIDE DEF IsFold
  <2> QED
    BY <1>6
<1>8. FoldLeft(Take, <<>>, list) = w[1 .. n]
  BY <1>1 DEF FoldLeft, MapThenFoldSet
<1> HIDE DEF w
<1>9. FoldsOver(w, A, <<>>, g, n)
  <2> SUFFICES ASSUME NEW s \in SUBSET (1 .. n), s # {}, w[s \ {Max(s)}] \in A
               PROVE  w[s] = g[Max(s)][w[s \ {Max(s)}]]
    BY <1>7 DEF FoldsOver
  <2>1. w[s] = Take(w[s \ {Max(s)}], list[Max(s)])
    BY <1>7
  <2>2. Max(s) \in 1 .. n
    BY <1>1, MaxFacts
  <2> HIDE DEF A, n
  <2> QED
    BY <2>1, <2>2
<1>10. PICK f \in [0 .. n -> A] : Along(f, <<>>, g, n) /\ f[n] = w[1 .. n]
  <2> HIDE DEF A, n, g
  <2> QED
    BY <1>1, <1>2, <1>4, <1>9, FoldAlong
<1>11. \A k \in 0 .. n - 1 : f[k + 1] = Take(f[k], list[k + 1])
  <2>1. \A k \in 0 .. n - 1 : k + 1 \in 1 .. n /\ k \in 0 .. n
    BY <1>1
  <2>2. \A k \in 0 .. n : f[k] \in A
    BY <1>10
  <2> HIDE DEF A, n
  <2> QED
    BY <1>10, <2>1, <2>2 DEF Along
<1>12. TakenAlong(f, X, list)
  BY <1>8, <1>10, <1>11 DEF TakenAlong, Along
<1> HIDE DEF A, n
<1> QED
  BY <1>12

\* A merged list names nothing twice, and all it has is in one of the layers.
LEMMA MergedNames ==
    ASSUME NEW base, NEW override, base \in Seq(ToSet(base)), override \in Seq(ToSet(override))
    PROVE  LET all == mergeNamedItems(base, override)
           IN  /\ all \in Seq(ToSet(base) \cup ToSet(override))
               /\ NamesUnique(all)
               /\ \A i \in DOMAIN all : all[i] \in ToSet(base) \cup ToSet(override)
<1> DEFINE X == ToSet(base) \cup ToSet(override)
           list == override \o base
<1>1. list \in Seq(X)
  <2>1. base \in Seq(X) /\ override \in Seq(X)
    <3> HIDE DEF X
    <3>1. ToSet(base) \subseteq X /\ ToSet(override) \subseteq X
      BY DEF X
    <3> QED
      BY <3>1
  <2> HIDE DEF X
  <2> QED
    BY <2>1, ConcatProperties
<1> DEFINE n == Len(list)
<1>2. n \in Nat
  BY <1>1, LenProperties
<1>3. PICK f : TakenAlong(f, X, list)
  <2> HIDE DEF X, list
  <2> QED
    BY <1>1, TakeFold
<1>4. ASSUME NEW k \in 0 .. n - 1, NamesUnique(f[k]) PROVE NamesUnique(f[k + 1])
  <2>1. k \in 0 .. n /\ k + 1 \in 1 .. n
    BY <1>2
  <2> HIDE DEF X, list
  <2>2. f[k] \in Seq(X) /\ list[k + 1] \in X
    BY <1>1, <1>3, <2>1, ElementOfSeq DEF TakenAlong, n
  <2> QED
    BY <1>3, <1>4, <2>2, TakeFacts DEF TakenAlong, n
<1>5. \A k \in 0 .. n : NamesUnique(f[k])
  <2> DEFINE S == {k \in Nat : k <= n => NamesUnique(f[k])}
  <2>1. 0 \in S
    <3>1. f[0] = <<>> /\ DOMAIN <<>> = {}
      BY <1>3 DEF TakenAlong
    <3> QED
      BY <3>1 DEF NamesUnique
  <2>2. ASSUME NEW k \in Nat, k \in S PROVE k + 1 \in S
    <3> HIDE DEF n
    <3> QED
      BY <1>2, <1>4, <2>2
  <2> HIDE DEF S
  <2>3. \A k \in Nat : k \in S
    BY <2>1, <2>2, SetInduction
  <2> QED
    BY <1>2, <2>3 DEF S
<1>6. mergeNamedItems(base, override) = f[n]
  BY <1>3 DEF mergeNamedItems, TakenAlong
<1>7. f[n] \in Seq(X) /\ NamesUnique(f[n])
  BY <1>2, <1>3, <1>5 DEF TakenAlong
<1>8. \A i \in DOMAIN f[n] : f[n][i] \in X
  <2> HIDE DEF X, n
  <2> QED
    BY <1>7, LenProperties, ElementOfSeq
<1> QED
  BY <1>6, <1>7, <1>8

\* Two valid patches make a valid one: whatever lifts a disable_retry drops the
\* max_retries beside it, and the other way round.
LEMMA MergedPatch ==
    ASSUME NEW base, NEW override, toPatch(base), toPatch(override)
    PROVE  toPatch(mergeRetryPolicyPatchFiles(base, override))
<1> DEFINE p == mergeRetryPolicyPatchFiles(base, override)
<1>1. /\ p.disable = mergeDisable(base, override)
      /\ p.retries = mergeRetries(base, override)
      /\ p.timeout = Over(base.timeout, override.timeout)
      /\ p.elapsed = Over(base.elapsed, override.elapsed)
      /\ p.initial = Over(base.initial, override.initial)
      /\ p.maxBackoff = Over(base.maxBackoff, override.maxBackoff)
      /\ p.statuses = Over(base.statuses, override.statuses)
  BY DEF mergeRetryPolicyPatchFiles
<1> HIDE DEF p
<1>2. \A x, y : Over(x, y) = x \/ Over(x, y) = y
  BY DEF Over
<1>3. p.retries \subseteq base.retries \cup override.retries
  BY <1>1 DEF mergeRetries, Over
<1>4. ~(p.disable = {TRUE} /\ p.retries # {})
  BY <1>1 DEF mergeDisable, mergeRetries, Over, toPatch
<1>5. /\ p.timeout \subseteq base.timeout \cup override.timeout
      /\ p.elapsed \subseteq base.elapsed \cup override.elapsed
      /\ p.initial \subseteq base.initial \cup override.initial
      /\ p.maxBackoff \subseteq base.maxBackoff \cup override.maxBackoff
      /\ p.statuses \subseteq base.statuses \cup override.statuses
  BY <1>1 DEF Over
<1>6. \A n \in p.retries : n >= 0
  BY <1>3 DEF toPatch
<1>7. \A d \in p.timeout \cup p.elapsed \cup p.initial \cup p.maxBackoff : d > 0
  BY <1>5 DEF toPatch
<1>8. \A s \in UNION p.statuses : s \in 100 .. 599
  BY <1>5 DEF toPatch
<1>9. toPatch(p)
  BY <1>4, <1>6, <1>7, <1>8 DEF toPatch
<1> QED
  BY <1>9 DEF p

LEMMA MergedCompiles ==
    ASSUME NEW base \in Files, NEW override \in Files,
           compileRetryConfigFile(base), compileRetryConfigFile(override)
    PROVE  compileRetryConfigFile(mergeRetryConfigFiles(base, override))
<1> DEFINE file == mergeRetryConfigFiles(base, override)
<1>1. /\ file.downstreams = mergeNamedItems(base.downstreams, override.downstreams)
      /\ file.operations = mergeNamedItems(base.operations, override.operations)
      /\ file.policies = [c \in Classes |->
             mergeRetryPolicyPatchFiles(base.policies[c], override.policies[c])]
      /\ file.rules = mergeNamedItems(base.rules, override.rules)
  BY DEF mergeRetryConfigFiles
<1> HIDE DEF file
<1>2. /\ base.downstreams \in Seq(ToSet(base.downstreams))
      /\ override.downstreams \in Seq(ToSet(override.downstreams))
      /\ base.operations \in Seq(ToSet(base.operations))
      /\ override.operations \in Seq(ToSet(override.operations))
      /\ base.rules \in Seq(ToSet(base.rules))
      /\ override.rules \in Seq(ToSet(override.rules))
  BY LayersAssumption
<1>3. /\ NamesUnique(file.downstreams)
      /\ \A i \in DOMAIN file.downstreams :
             file.downstreams[i] \in ToSet(base.downstreams) \cup ToSet(override.downstreams)
  <2> DEFINE all == mergeNamedItems(base.downstreams, override.downstreams)
  <2>1. /\ NamesUnique(all)
        /\ \A i \in DOMAIN all : all[i] \in ToSet(base.downstreams) \cup ToSet(override.downstreams)
    BY <1>2, MergedNames
  <2>2. file.downstreams = all
    BY <1>1
  <2> HIDE DEF all
  <2> QED
    BY <2>1, <2>2
<1>4. /\ NamesUnique(file.operations)
      /\ \A i \in DOMAIN file.operations :
             file.operations[i] \in ToSet(base.operations) \cup ToSet(override.operations)
  <2> DEFINE all == mergeNamedItems(base.operations, override.operations)
  <2>1. /\ NamesUnique(all)
        /\ \A i \in DOMAIN all : all[i] \in ToSet(base.operations) \cup ToSet(override.operations)
    BY <1>2, MergedNames
  <2>2. file.operations = all
    BY <1>1
  <2> HIDE DEF all
  <2> QED
    BY <2>1, <2>2
<1>5. /\ NamesUnique(file.rules)
      /\ \A i \in DOMAIN file.rules :
             file.rules[i] \in ToSet(base.rules) \cup ToSet(override.rules)
  <2> DEFINE all == mergeNamedItems(base.rules, override.rules)
  <2>1. /\ NamesUnique(all)
        /\ \A i \in DOMAIN all : all[i] \in ToSet(base.rules) \cup ToSet(override.rules)
    BY <1>2, MergedNames
  <2>2. file.rules = all
    BY <1>1
  <2> HIDE DEF all
  <2> QED
    BY <2>1, <2>2
<1>6. \A x \in ToSet(base.downstreams) \cup ToSet(override.downstreams) :
          x.name # Blank /\ x.hosts # <<>>
  BY DEF compileRetryConfigFile, ToSet
<1>7. \A x \in ToSet(base.operations) \cup ToSet(override.operations) : x.name # Blank
  BY DEF compileRetryConfigFile, ToSet
<1>8. \A x \in ToSet(base.rules) \cup ToSet(override.rules) : RuleCompiles(x)
  BY DEF compileRetryConfigFile, ToSet
<1>9. \A c \in Classes : toPatch(file.policies[c])
  BY <1>1, MergedPatch DEF compileRetryConfigFile
<1>10. compileRetryConfigFile(file)
  BY <1>3, <1>4, <1>5, <1>6, <1>7, <1>8, <1>9 DEF compileRetryConfigFile
<1> QED
  BY <1>10 DEF file

\* For any two files: layers that are valid alone are never rejected together
\* (mergeRetryConfigFiles against compileRetryConfigFile).
THEOREM MergeAcceptedAlways == Spec => []MergeAccepted
<1> DEFINE Stored == application \in Files /\ service \in Files
<1>1. Init => Stored /\ MergeAccepted
  BY DEF Init, MergeAccepted
<1>2. Stored /\ MergeAccepted /\ [Next]_vars => Stored' /\ MergeAccepted'
  <2> SUFFICES ASSUME Stored, MergeAccepted, [Next]_vars PROVE Stored' /\ MergeAccepted'
    OBVIOUS
  <2>1. CASE Load
    <3>1. Stored' /\ application' = application /\ service' = service
      BY <2>1 DEF Load
    <3>2. \/ status' = "loaded"
          \/ ~(/\ compileRetryConfigFile(application)
               /\ compileRetryConfigFile(service)
               /\ compileRetryConfigFile(mergeRetryConfigFiles(application, service)))
      BY <2>1 DEF Load
    <3>3. \/ status' = "loaded"
          \/ ~compileRetryConfigFile(application) \/ ~compileRetryConfigFile(service)
      BY <3>2, MergedCompiles
    <3>4. compileRetryConfigFile(application)' = compileRetryConfigFile(application)
      BY <3>1 DEF compileRetryConfigFile, NamesUnique, RuleCompiles, toPatch, specificity
    <3> QED
      BY <3>1, <3>3 DEF MergeAccepted
  <2>2. ASSUME NEW client \in Clients, Resolve(client) \/ ResolveCustom(client)
        PROVE  Stored' /\ MergeAccepted'
    BY <2>2 DEF Resolve, ResolveCustom, Resolved, MergeAccepted
  <2>3. CASE UNCHANGED vars
    BY <2>3 DEF vars, MergeAccepted
  <2> QED
    BY <2>1, <2>2, <2>3 DEF Next
<1> QED
  BY <1>1, <1>2, PTL DEF Spec

-----------------------------------------------------------------------------
(* One class for a request *)

\* No resolver of classes is registered beside the files' own.
FilesClassify == \A client \in Clients : client.managed => client.registered \in {"none", "managed"}

LEMMA GivenFacts ==
    /\ \A d : Given({}, d) = d
    /\ \A v, d : Given({v}, d) = v
  BY DEF Given

\* What the context says of the class, once it names one at most.
LEMMA ContextClass ==
    ASSUME NEW r, IsFiniteSet(r.class), NamesOneClass(r), "class" \in DOMAIN r.scope
    PROVE  ExplicitClass(r) = {r.scope["class"]}
<1> DEFINE k == r.scope["class"]
           both == r.class \cup {k}
<1>1. IsFiniteSet(both) /\ k \in both /\ Cardinality(both) <= 1
  <2>1. IsFiniteSet(both)
    BY FS_AddElement
  <2> QED
    BY <2>1 DEF NamesOneClass
<1>2. ASSUME NEW x \in both PROVE x = k
  <2> SUFFICES ASSUME x # k PROVE FALSE
    OBVIOUS
  <2> HIDE DEF both
  <2>1. IsFiniteSet({x}) /\ Cardinality({x}) = 1
    BY FS_Singleton
  <2>2. IsFiniteSet({x} \cup {k}) /\ Cardinality({x} \cup {k}) = 2
    <3>1. k \notin {x}
      OBVIOUS
    <3>2. IsFiniteSet({x} \cup {k}) /\ Cardinality({x} \cup {k}) = Cardinality({x}) + 1
      BY <2>1, <3>1, FS_AddElement
    <3> QED
      BY <2>1, <3>2
  <2>3. {x} \cup {k} \subseteq both
    BY <1>1
  <2>4. Cardinality({x} \cup {k}) <= Cardinality(both)
    BY <1>1, <2>3, FS_Subset
  <2>5. Cardinality(both) \in Nat
    BY <1>1, FS_CardinalityType
  <2> QED
    BY <1>1, <2>2, <2>4, <2>5
<1>3. r.class = {} \/ r.class = {k}
  BY <1>2
<1> QED
  BY <1>3 DEF ExplicitClass, Over

LEMMA ScopeClass ==
    ASSUME NEW r, NEW class, NEW downstreams, NEW operations
    PROVE  resolveRetryConfigScope(r, class, downstreams, operations).class
               = IF "class" \in DOMAIN r.scope THEN r.scope["class"] ELSE class
  BY DEF resolveRetryConfigScope

\* The resolver of the files and the method agree on reads and writes.
LEMMA ReadsAndWrites ==
    ASSUME NEW r, NEW file
    PROVE  resolveRequestClass(r, file) \in Writes <=> r.method \notin ReadMethods
  BY DEF resolveRequestClass, Writes

\* One class governs every request whose context names one at most, for any
\* files and clients, as long as no class resolver is registered beside the
\* files' (transport.go:89-109, dynamic_config.go:127).
THEOREM ClassAgreedAlways == FilesClassify => (Spec => []ClassAgreed)
<1> SUFFICES ASSUME FilesClassify PROVE Spec => []ClassAgreed
  OBVIOUS
<1> DEFINE Seen == request \in RequestsSeen
<1>1. Init => Seen /\ ClassAgreed
  BY DEF Init, ClassAgreed
<1>2. Seen /\ ClassAgreed /\ [Next]_vars => Seen' /\ ClassAgreed'
  <2> SUFFICES ASSUME Seen, ClassAgreed, [Next]_vars PROVE Seen' /\ ClassAgreed'
    OBVIOUS
  <2>1. CASE UNCHANGED <<request, scope, classes>>
    BY <2>1 DEF ClassAgreed, NamesOneClass
  <2>2. ASSUME NEW class, NEW default, NEW event, NEW downstreams, NEW operations, NEW p,
               Resolved(resolveRetryConfigScope(request, class, downstreams, operations),
                        p, default, event),
               ExplicitClass(request) # {} =>
                   /\ class = Given(ExplicitClass(request), Blank)
                   /\ default = class,
               default \in Writes <=> class \in Writes,
               event = class \/ event = (IF "class" \in DOMAIN request.scope
                                         THEN request.scope["class"] ELSE class)
        PROVE  Seen' /\ ClassAgreed'
    <3> DEFINE s == resolveRetryConfigScope(request, class, downstreams, operations)
    <3>1. /\ scope' = {s} /\ request' = request
          /\ classes' = {[default |-> default, event |-> event]}
      BY <2>2 DEF Resolved
    <3>2. s.class = IF "class" \in DOMAIN request.scope THEN request.scope["class"] ELSE class
      BY ScopeClass
    <3> HIDE DEF s
    <3>3. ASSUME NamesOneClass(request) PROVE s.class = class
      <4>1. CASE "class" \in DOMAIN request.scope
        <5>1. ExplicitClass(request) = {request.scope["class"]}
          BY <3>3, <4>1, ContextClass, LayersAssumption
        <5> QED
          BY <2>2, <3>2, <4>1, <5>1, GivenFacts
      <4>2. CASE "class" \notin DOMAIN request.scope
        BY <3>2, <4>2
      <4> QED
        BY <4>1, <4>2
    <3>4. NamesOneClass(request)' = NamesOneClass(request)
      BY <3>1 DEF NamesOneClass
    <3> QED
      BY <2>2, <3>1, <3>2, <3>3, <3>4 DEF ClassAgreed
  <2>3. CASE Load
    BY <2>1, <2>3 DEF Load
  <2>4. ASSUME NEW client \in Clients, Resolve(client) PROVE Seen' /\ ClassAgreed'
    <3> DEFINE class == Given(ExplicitClass(request), resolveRequestClass(request, merged))
               default == requestClassFromContextOrResolver(request, {}, client, merged)
               s == resolveRetryConfigScope(request, class, merged.downstreams, merged.operations)
               p == resolveRetryPolicy(s, merged, BasePolicy(request, default))
    <3>1. client.managed /\ Resolved(s, p, default, s.class)
      BY <2>4 DEF Resolve
    <3>2. client.registered \in {"none", "managed"}
      BY <3>1 DEF FilesClassify
    <3>3. CASE ExplicitClass(request) = {}
      <4>1. class = resolveRequestClass(request, merged)
        BY <3>3, GivenFacts
      <4> DEFINE extension == resolveRequestClassByExtension(request, client, merged)
                 byMethod == IF request.method \in ReadMethods
                             THEN "internal_read" ELSE "internal_write"
      <4>2. default = Given(extension, byMethod)
        BY <3>3, GivenFacts DEF requestClassFromContextOrResolver
      <4>3. ASSUME client.registered = "none" PROVE default \in Writes <=> class \in Writes
        <5>1. extension = {}
          BY <4>3 DEF resolveRequestClassByExtension
        <5>2. default = byMethod
          BY <4>2, <5>1, GivenFacts
        <5>3. byMethod \in Writes <=> request.method \notin ReadMethods
          BY DEF Writes
        <5> HIDE DEF class, default, byMethod
        <5> QED
          BY <4>1, <5>2, <5>3, ReadsAndWrites
      <4>4. ASSUME client.registered = "managed" PROVE default \in Writes <=> class \in Writes
        <5>1. extension = {resolveRequestClass(request, merged)}
          BY <4>4 DEF resolveRequestClassByExtension
        <5> HIDE DEF class, default, byMethod
        <5> QED
          BY <4>1, <4>2, <5>1, GivenFacts
      <4>5. default \in Writes <=> class \in Writes
        <5> HIDE DEF class, default
        <5> QED
          BY <3>2, <4>3, <4>4
      <4> HIDE DEF class, default, p
      <4> QED
        BY <2>2, <3>1, <3>3, <4>5, ScopeClass
    <3>4. CASE ExplicitClass(request) # {}
      <4>1. class = Given(ExplicitClass(request), Blank) /\ default = class
        BY <3>4 DEF Given, requestClassFromContextOrResolver
      <4> HIDE DEF class, default, p
      <4> QED
        BY <2>2, <3>1, <3>4, <4>1, ScopeClass
    <3> QED
      BY <3>3, <3>4
  <2>5. ASSUME NEW client \in Clients, ResolveCustom(client) PROVE Seen' /\ ClassAgreed'
    <3> DEFINE class == requestClassFromContextOrResolver(request, client.own, client, merged)
               s == resolveRetryConfigScope(request, class, <<>>, <<>>)
    <3>1. Resolved(s, BasePolicy(request, class), class, class)
      BY <2>5 DEF ResolveCustom
    <3>2. ExplicitClass(request) # {} => class = Given(ExplicitClass(request), Blank)
      BY DEF Given, requestClassFromContextOrResolver
    <3> HIDE DEF class
    <3> QED
      BY <2>2, <3>1, <3>2
  <2>6. CASE UNCHANGED vars
    BY <2>1, <2>6 DEF vars
  <2> QED
    BY <2>3, <2>4, <2>5, <2>6 DEF Next
<1> QED
  BY <1>1, <1>2, PTL DEF Spec

-----------------------------------------------------------------------------
(* The downstream inferred from a host *)

Score(pattern, r) == downstreamPatternMatchSpecificity(pattern, r.host)
Candidate(item, j, r) == [name |-> item.name, score |-> Score(item.hosts[j], r)]
CandidatesOf(item, r) == [j \in DOMAIN item.hosts |-> Candidate(item, j, r)]
AllCandidates(list, r) ==
    UNION {{Candidate(list[i], j, r) : j \in DOMAIN list[i].hosts} : i \in DOMAIN list}

\* The patterns of a downstream are not so long that their length outweighs a
\* path segment.
WellFormed(item) ==
    /\ item.hosts \in Seq(ToSet(item.hosts))
    /\ \A p \in ToSet(item.hosts) :
           p.exact \in BOOLEAN /\ p.segment \in BOOLEAN /\ p.literal \in 0 .. 199

LEMMA ScoreFacts ==
    ASSUME NEW p, NEW r, p.exact \in BOOLEAN, p.segment \in BOOLEAN, p.literal \in Nat
    PROVE  /\ Score(p, r) \in Nat
           /\ Score(p, r) = 0 <=> r.host \notin p.matches
<1>1. CASE r.host \notin p.matches
  BY <1>1 DEF Score, downstreamPatternMatchSpecificity
<1>2. CASE r.host \in p.matches
  <2> DEFINE kind == IF p.exact THEN 1000 ELSE 100
             part == IF p.segment THEN 200 ELSE 0
  <2>1. Score(p, r) = kind + p.literal + part
    BY <1>2 DEF Score, downstreamPatternMatchSpecificity
  <2>2. kind \in Nat /\ kind > 0 /\ part \in Nat
    OBVIOUS
  <2> HIDE DEF kind, part
  <2> QED
    BY <1>2, <2>1, <2>2
<1> QED
  BY <1>1, <1>2

\* A higher score is a more specific pattern.
LEMMA ScoreOrder ==
    ASSUME NEW p, p.exact \in BOOLEAN, p.segment \in BOOLEAN, p.literal \in 0 .. 199,
           NEW q, q.exact \in BOOLEAN, q.segment \in BOOLEAN, q.literal \in 0 .. 199,
           NEW r, r.host \in p.matches, r.host \in q.matches
    PROVE  MoreSpecific(p, q) <=> Score(p, r) > Score(q, r)
<1> DEFINE kind(x) == IF x.exact THEN 1000 ELSE 100
           part(x) == IF x.segment THEN 200 ELSE 0
<1>1. /\ Score(p, r) = kind(p) + p.literal + part(p)
      /\ Score(q, r) = kind(q) + q.literal + part(q)
  BY DEF Score, downstreamPatternMatchSpecificity
<1>2. MoreSpecific(p, q) <=>
          \/ p.exact /\ ~q.exact
          \/ (p.exact <=> q.exact) /\ p.segment /\ ~q.segment
          \/ (p.exact <=> q.exact) /\ (p.segment <=> q.segment) /\ p.literal > q.literal
  BY Zenon DEF MoreSpecific
<1>3. /\ p.exact => kind(p) = 1000
      /\ ~p.exact => kind(p) = 100
      /\ q.exact => kind(q) = 1000
      /\ ~q.exact => kind(q) = 100
      /\ p.segment => part(p) = 200
      /\ ~p.segment => part(p) = 0
      /\ q.segment => part(q) = 200
      /\ ~q.segment => part(q) = 0
  OBVIOUS
<1> DEFINE P == Score(p, r)
           Q == Score(q, r)
           pk == kind(p)
           qk == kind(q)
           pp == part(p)
           qp == part(q)
           pl == p.literal
           ql == q.literal
<1>4. /\ pk \in {100, 1000} /\ qk \in {100, 1000} /\ pp \in {0, 200} /\ qp \in {0, 200}
      /\ pl \in 0 .. 199 /\ ql \in 0 .. 199
      /\ P = pk + pl + pp /\ Q = qk + ql + qp
  <2>1. pl \in 0 .. 199 /\ ql \in 0 .. 199 /\ P = pk + pl + pp /\ Q = qk + ql + qp
    BY <1>1
  <2>2. pk \in {100, 1000} /\ qk \in {100, 1000} /\ pp \in {0, 200} /\ qp \in {0, 200}
    OBVIOUS
  <2> QED
    BY <2>1, <2>2
<1>5. /\ p.exact /\ ~q.exact => pk = 1000 /\ qk = 100
      /\ ~p.exact /\ q.exact => pk = 100 /\ qk = 1000
      /\ (p.exact <=> q.exact) => pk = qk
      /\ p.segment /\ ~q.segment => pp = 200 /\ qp = 0
      /\ ~p.segment /\ q.segment => pp = 0 /\ qp = 200
      /\ (p.segment <=> q.segment) => pp = qp
  BY <1>3
<1> HIDE DEF P, Q, pk, qk, pp, qp, pl, ql
\* The kind outweighs the segment and the length, the segment the length.
<1>6. /\ pk = 1000 /\ qk = 100 => P > Q
      /\ pk = 100 /\ qk = 1000 => ~(P > Q)
      /\ pk = qk /\ pp = 200 /\ qp = 0 => P > Q
      /\ pk = qk /\ pp = 0 /\ qp = 200 => ~(P > Q)
      /\ pk = qk /\ pp = qp => (P > Q <=> pl > ql)
  <2>1. /\ P \in Int /\ Q \in Int /\ pk \in Int /\ qk \in Int /\ pp \in Int /\ qp \in Int
        /\ pl \in Int /\ ql \in Int
    BY <1>4
  <2>2. pk = 1000 /\ qk = 100 => P > Q
    BY <1>4, <2>1, SMT
  <2>3. pk = 100 /\ qk = 1000 => ~(P > Q)
    BY <1>4, <2>1, SMT
  <2>4. pk = qk /\ pp = 200 /\ qp = 0 => P > Q
    BY <1>4, <2>1, SMT
  <2>5. pk = qk /\ pp = 0 /\ qp = 200 => ~(P > Q)
    BY <1>4, <2>1, SMT
  <2>6. pk = qk /\ pp = qp => (P > Q <=> pl > ql)
    BY <1>4, <2>1, SMT
  <2> QED
    BY <2>2, <2>3, <2>4, <2>5, <2>6
<1>7. CASE p.exact /\ ~q.exact
  BY <1>2, <1>5, <1>6, <1>7 DEF P, Q
<1>8. CASE ~p.exact /\ q.exact
  BY <1>2, <1>5, <1>6, <1>8 DEF P, Q
<1>9. CASE p.exact <=> q.exact
  <2>1. MoreSpecific(p, q) <=>
            (p.segment /\ ~q.segment) \/ ((p.segment <=> q.segment) /\ pl > ql)
    BY <1>2, <1>9 DEF pl, ql
  <2>2. CASE p.segment /\ ~q.segment
    BY <1>5, <1>6, <1>9, <2>1, <2>2 DEF P, Q
  <2>3. CASE ~p.segment /\ q.segment
    BY <1>5, <1>6, <1>9, <2>1, <2>3 DEF P, Q
  <2>4. CASE p.segment <=> q.segment
    BY <1>5, <1>6, <1>9, <2>1, <2>4 DEF P, Q
  <2> QED
    BY <2>2, <2>3, <2>4
<1> QED
  BY <1>7, <1>8, <1>9

LEMMA CandidatesFacts ==
    ASSUME NEW r, NEW list, NEW i \in DOMAIN list, WellFormed(list[i])
    PROVE  LET hosts == list[i].hosts
               c == CandidatesOf(list[i], r)
           IN  /\ Len(hosts) \in Nat /\ DOMAIN hosts = 1 .. Len(hosts)
               /\ c \in Seq(AllCandidates(list, r)) /\ Len(c) = Len(hosts)
               /\ \A j \in DOMAIN hosts : c[j] = Candidate(list[i], j, r)
<1> DEFINE hosts == list[i].hosts
           c == CandidatesOf(list[i], r)
           C == AllCandidates(list, r)
<1>1. Len(hosts) \in Nat /\ DOMAIN hosts = 1 .. Len(hosts)
  BY LenProperties DEF WellFormed
<1>2. \A j \in DOMAIN hosts : Candidate(list[i], j, r) \in C
  BY DEF AllCandidates
<1>3. \A j \in DOMAIN hosts : c[j] = Candidate(list[i], j, r)
  BY DEF CandidatesOf
<1>4. c \in [1 .. Len(hosts) -> C]
  <2>1. c = [j \in DOMAIN hosts |-> Candidate(list[i], j, r)]
    BY DEF CandidatesOf
  <2> HIDE DEF hosts, c, C
  <2> QED
    BY <1>1, <1>2, <2>1
<1>5. c \in Seq(C) /\ Len(c) = Len(hosts)
  <2> HIDE DEF hosts, c, C
  <2> QED
    BY <1>1, <1>4
<1> QED
  BY <1>1, <1>3, <1>5

\* The candidates of the first downstreams, in order.  A fold is what its
\* definition says, whatever it is called with.
IsGathering(w, list, r) ==
    w = [s \in SUBSET (1 .. Len(list)) |->
            IF s = {} THEN <<>> ELSE w[s \ {Max(s)}] \o CandidatesOf(list[Max(s)], r)]
Gathering(list, r) == CHOOSE w : IsGathering(w, list, r)
Gathered(list, r) == Gathering(list, r)[1 .. Len(list)]

GatheredAlong(f, list, r) ==
    /\ f[0] = <<>>
    /\ \A k \in 0 .. Len(list) : f[k] \in Seq(AllCandidates(list, r))
    /\ \A k \in 0 .. Len(list) - 1 : f[k + 1] = f[k] \o CandidatesOf(list[k + 1], r)

Downstreams(list) ==
    \E X : list \in Seq(X) /\ \A item \in X : WellFormed(item)

LEMMA DownstreamsFacts ==
    ASSUME NEW list, Downstreams(list)
    PROVE  /\ Len(list) \in Nat /\ DOMAIN list = 1 .. Len(list)
           /\ \A i \in DOMAIN list : WellFormed(list[i])
<1>1. PICK X : list \in Seq(X) /\ \A item \in X : WellFormed(item)
  BY DEF Downstreams
<1> QED
  BY <1>1, LenProperties, ElementOfSeq

LEMMA GatheredFold ==
    ASSUME NEW r, NEW list, Downstreams(list)
    PROVE  \E f : GatheredAlong(f, list, r) /\ Gathered(list, r) = f[Len(list)]
<1> DEFINE n == Len(list)
           A == Seq(AllCandidates(list, r))
           w == Gathering(list, r)
           g == [i \in 1 .. n |-> [a \in A |-> a \o CandidatesOf(list[i], r)]]
<1>1. n \in Nat /\ DOMAIN list = 1 .. n /\ \A i \in 1 .. n : WellFormed(list[i])
  BY DownstreamsFacts
<1>2. <<>> \in A
  BY EmptySeq
<1>3. ASSUME NEW i \in 1 .. n, NEW a \in A PROVE a \o CandidatesOf(list[i], r) \in A
  <2>1. CandidatesOf(list[i], r) \in A
    BY <1>1, CandidatesFacts
  <2> QED
    BY <2>1, ConcatProperties
<1>4. g \in [1 .. n -> [A -> A]]
  <2> HIDE DEF A
  <2> QED
    BY <1>3
<1>5. PICK v \in [SUBSET (1 .. n) -> A] : Folds(v, <<>>, g, n)
  <2> HIDE DEF n, A, g
  <2> QED
    BY <1>1, <1>2, <1>4, FoldExists
<1>6. IsGathering(v, list, r)
  <2> SUFFICES ASSUME NEW s \in SUBSET (1 .. n)
               PROVE  v[s] = IF s = {} THEN <<>>
                             ELSE v[s \ {Max(s)}] \o CandidatesOf(list[Max(s)], r)
    BY DEF IsGathering
  <2>1. s # {} => Max(s) \in 1 .. n
    BY <1>1, MaxFacts
  <2>2. v[s \ {Max(s)}] \in A
    OBVIOUS
  <2>3. v[s] = IF s = {} THEN <<>> ELSE g[Max(s)][v[s \ {Max(s)}]]
    BY <1>5 DEF Folds
  <2> HIDE DEF A, n
  <2> QED
    BY <2>1, <2>2, <2>3
<1>7. IsGathering(w, list, r)
  BY <1>6 DEF Gathering
<1> HIDE DEF w
<1>8. w[{}] = <<>>
  BY <1>7 DEF IsGathering
<1>9. \A s \in SUBSET (1 .. n) :
          s # {} /\ w[s \ {Max(s)}] \in A => w[s] = g[Max(s)][w[s \ {Max(s)}]]
  <2> SUFFICES ASSUME NEW s \in SUBSET (1 .. n), s # {}, w[s \ {Max(s)}] \in A
               PROVE  w[s] = g[Max(s)][w[s \ {Max(s)}]]
    OBVIOUS
  <2>1. w[s] = w[s \ {Max(s)}] \o CandidatesOf(list[Max(s)], r)
    BY <1>7 DEF IsGathering
  <2>2. Max(s) \in 1 .. n
    BY <1>1, MaxFacts
  <2> HIDE DEF A, n
  <2> QED
    BY <2>1, <2>2
<1>10. FoldsOver(w, A, <<>>, g, n)
  <2> HIDE DEF A, n, g
  <2> QED
    BY <1>8, <1>9 DEF FoldsOver
<1>11. PICK f \in [0 .. n -> A] : Along(f, <<>>, g, n) /\ f[n] = w[1 .. n]
  <2> HIDE DEF A, n, g
  <2> QED
    BY <1>1, <1>2, <1>4, <1>10, FoldAlong
<1>12. \A k \in 0 .. n - 1 : f[k + 1] = f[k] \o CandidatesOf(list[k + 1], r)
  <2>1. \A k \in 0 .. n - 1 : k + 1 \in 1 .. n /\ k \in 0 .. n
    BY <1>1
  <2>2. \A k \in 0 .. n : f[k] \in A
    BY <1>11
  <2> HIDE DEF A, n
  <2> QED
    BY <1>11, <2>1, <2>2 DEF Along
<1>13. GatheredAlong(f, list, r)
  BY <1>11, <1>12 DEF GatheredAlong, Along
<1>14. Gathered(list, r) = f[n]
  BY <1>11 DEF Gathered, w
<1> HIDE DEF n, A
<1>15. \E h : GatheredAlong(h, list, r) /\ Gathered(list, r) = h[n]
  BY <1>13, <1>14
<1> QED
  BY <1>15 DEF n

Prefer(b, c) == IF c.score > 0 /\ Better(c.score, b.score) THEN c ELSE b
IsChoosing(w, base, all) ==
    w = [s \in SUBSET (1 .. Len(all)) |->
            IF s = {} THEN base ELSE Prefer(w[s \ {Max(s)}], all[Max(s)])]
Choosing(base, all) == CHOOSE w : IsChoosing(w, base, all)
Chosen(base, all) == Choosing(base, all)[1 .. Len(all)]

LEMMA ChosenFold ==
    ASSUME NEW C, NEW all \in Seq(C), NEW base
    PROVE  \E f : /\ f[0] = base
                  /\ \A k \in 0 .. Len(all) - 1 : f[k + 1] = Prefer(f[k], all[k + 1])
                  /\ Chosen(base, all) = f[Len(all)]
<1> DEFINE n == Len(all)
           A == C \cup {base}
           w == Choosing(base, all)
           g == [i \in 1 .. n |-> [a \in A |-> Prefer(a, all[i])]]
<1>1. n \in Nat /\ DOMAIN all = 1 .. n /\ \A i \in 1 .. n : all[i] \in C
  BY LenProperties, ElementOfSeq
<1>2. base \in A
  OBVIOUS
<1>3. ASSUME NEW i \in 1 .. n, NEW a \in A PROVE Prefer(a, all[i]) \in A
  BY <1>1 DEF Prefer
<1>4. g \in [1 .. n -> [A -> A]]
  <2> HIDE DEF A
  <2> QED
    BY <1>3
<1>5. PICK v \in [SUBSET (1 .. n) -> A] : Folds(v, base, g, n)
  <2> HIDE DEF n, A, g
  <2> QED
    BY <1>1, <1>2, <1>4, FoldExists
<1>6. IsChoosing(v, base, all)
  <2> SUFFICES ASSUME NEW s \in SUBSET (1 .. n)
               PROVE  v[s] = IF s = {} THEN base ELSE Prefer(v[s \ {Max(s)}], all[Max(s)])
    BY DEF IsChoosing
  <2>1. s # {} => Max(s) \in 1 .. n
    BY <1>1, MaxFacts
  <2>2. v[s \ {Max(s)}] \in A
    OBVIOUS
  <2>3. v[s] = IF s = {} THEN base ELSE g[Max(s)][v[s \ {Max(s)}]]
    BY <1>5 DEF Folds
  <2> HIDE DEF A, n
  <2> QED
    BY <2>1, <2>2, <2>3
<1>7. IsChoosing(w, base, all)
  BY <1>6 DEF Choosing
<1> HIDE DEF w
<1>8. w[{}] = base
  BY <1>7 DEF IsChoosing
<1>9. \A s \in SUBSET (1 .. n) :
          s # {} /\ w[s \ {Max(s)}] \in A => w[s] = g[Max(s)][w[s \ {Max(s)}]]
  <2> SUFFICES ASSUME NEW s \in SUBSET (1 .. n), s # {}, w[s \ {Max(s)}] \in A
               PROVE  w[s] = g[Max(s)][w[s \ {Max(s)}]]
    OBVIOUS
  <2>1. w[s] = Prefer(w[s \ {Max(s)}], all[Max(s)])
    BY <1>7 DEF IsChoosing
  <2>2. Max(s) \in 1 .. n
    BY <1>1, MaxFacts
  <2> HIDE DEF A, n
  <2> QED
    BY <2>1, <2>2
<1>10. FoldsOver(w, A, base, g, n)
  <2> HIDE DEF A, n, g
  <2> QED
    BY <1>8, <1>9 DEF FoldsOver
<1>11. PICK f \in [0 .. n -> A] : Along(f, base, g, n) /\ f[n] = w[1 .. n]
  <2> HIDE DEF A, n, g
  <2> QED
    BY <1>1, <1>2, <1>4, <1>10, FoldAlong
<1>12. \A k \in 0 .. n - 1 : f[k + 1] = Prefer(f[k], all[k + 1])
  <2>1. \A k \in 0 .. n - 1 : k + 1 \in 1 .. n /\ k \in 0 .. n
    BY <1>1
  <2>2. \A k \in 0 .. n : f[k] \in A
    BY <1>11
  <2> HIDE DEF A, n
  <2> QED
    BY <1>11, <2>1, <2>2 DEF Along
<1>13. Chosen(base, all) = f[n]
  BY <1>11 DEF Chosen, w
<1>14. f[0] = base /\ \A k \in 0 .. n - 1 : f[k + 1] = Prefer(f[k], all[k + 1])
  BY <1>11, <1>12 DEF Along
<1> HIDE DEF n, A
<1>15. \E h : /\ h[0] = base
              /\ \A k \in 0 .. n - 1 : h[k + 1] = Prefer(h[k], all[k + 1])
              /\ Chosen(base, all) = h[n]
  BY <1>13, <1>14
<1> QED
  BY <1>15 DEF n

LEMMA InferFold ==
    ASSUME NEW r, NEW list, DOMAIN list = 1 .. Len(list),
           NEW all, all = Gathered(list, r), DOMAIN all = 1 .. Len(all)
    PROVE  inferDownstream(r, list) = Chosen([name |-> r.label, score |-> 0], all).name
<1> DEFINE Host(item) == [i \in DOMAIN item.hosts |-> [name |-> item.name,
                             score |-> downstreamPatternMatchSpecificity(item.hosts[i], r.host)]]
<1>1. FoldLeft(LAMBDA a, item : a \o Host(item), <<>>, list) = all
  BY DEF FoldLeft, MapThenFoldSet, Gathered, Gathering, IsGathering, CandidatesOf,
         Candidate, Score
<1>2. FoldLeft(LAMBDA b, c : IF c.score > 0 /\ Better(c.score, b.score) THEN c ELSE b,
               [name |-> r.label, score |-> 0], all)
      = Chosen([name |-> r.label, score |-> 0], all)
  BY DEF FoldLeft, MapThenFoldSet, Chosen, Choosing, IsChoosing, Prefer
<1> QED
  BY <1>1, <1>2 DEF inferDownstream

\* Where the candidates of the first downstreams come from: place gives the
\* downstream of each, and no pattern is left out.
Placed(place, k, all, list, r) ==
    /\ place \in [1 .. Len(all) -> 1 .. k]
    /\ \A p, q \in 1 .. Len(all) : p <= q => place[p] <= place[q]
    /\ \A p \in 1 .. Len(all) : \E j \in DOMAIN list[place[p]].hosts :
           all[p] = Candidate(list[place[p]], j, r)
    /\ \A i \in 1 .. k : \A j \in DOMAIN list[i].hosts : \E p \in 1 .. Len(all) :
           place[p] = i /\ all[p] = Candidate(list[i], j, r)

LEMMA PlacedNext ==
    ASSUME NEW r, NEW list, Downstreams(list), NEW k \in 0 .. Len(list) - 1,
           NEW all \in Seq(AllCandidates(list, r)), NEW place, Placed(place, k, all, list, r)
    PROVE  \E next : Placed(next, k + 1, all \o CandidatesOf(list[k + 1], r), list, r)
<1> DEFINE c == CandidatesOf(list[k + 1], r)
           both == all \o c
           a == Len(all)
           b == Len(c)
           next == [p \in 1 .. a + b |-> IF p <= a THEN place[p] ELSE k + 1]
<1>1. Len(list) \in Nat /\ k \in Nat /\ k + 1 \in DOMAIN list /\ WellFormed(list[k + 1])
  BY DownstreamsFacts
<1>2. /\ b \in Nat /\ DOMAIN list[k + 1].hosts = 1 .. b
      /\ c \in Seq(AllCandidates(list, r))
      /\ \A j \in 1 .. b : c[j] = Candidate(list[k + 1], j, r)
  BY <1>1, CandidatesFacts
<1>3. /\ a \in Nat /\ Len(both) = a + b
      /\ \A i \in 1 .. a + b : both[i] = IF i <= a THEN all[i] ELSE c[i - a]
  BY <1>2, ConcatProperties, LenProperties
<1> HIDE DEF a, b, c, both
<1>4. /\ place \in [1 .. a -> 1 .. k]
      /\ \A p, q \in 1 .. a : p <= q => place[p] <= place[q]
      /\ \A p \in 1 .. a : \E j \in DOMAIN list[place[p]].hosts :
             all[p] = Candidate(list[place[p]], j, r)
      /\ \A i \in 1 .. k : \A j \in DOMAIN list[i].hosts : \E p \in 1 .. a :
             place[p] = i /\ all[p] = Candidate(list[i], j, r)
  BY DEF Placed, a
<1>5. \A p \in 1 .. a : p \in 1 .. a + b /\ next[p] = place[p] /\ both[p] = all[p]
  BY <1>2, <1>3
<1>6. ASSUME NEW p \in 1 .. a + b, p \notin 1 .. a
      PROVE  next[p] = k + 1 /\ p - a \in 1 .. b /\ both[p] = Candidate(list[k + 1], p - a, r)
  BY <1>2, <1>3, <1>6
<1>7. next \in [1 .. a + b -> 1 .. k + 1]
  <2> SUFFICES ASSUME NEW p \in 1 .. a + b PROVE next[p] \in 1 .. k + 1
    OBVIOUS
  <2>1. CASE p \in 1 .. a
    BY <1>1, <1>4, <1>5, <2>1
  <2>2. CASE p \notin 1 .. a
    BY <1>1, <1>6, <2>2
  <2> QED
    BY <2>1, <2>2
<1> HIDE DEF next
<1>8. ASSUME NEW p \in 1 .. a + b, NEW q \in 1 .. a + b, p <= q PROVE next[p] <= next[q]
  <2>1. CASE q \in 1 .. a
    <3>1. p \in 1 .. a
      BY <1>3, <1>8, <2>1
    <3> QED
      BY <1>4, <1>5, <1>8, <2>1, <3>1
  <2>2. CASE q \notin 1 .. a
    <3>1. next[q] = k + 1 /\ next[p] \in 1 .. k + 1
      BY <1>6, <1>7, <2>2
    <3> QED
      BY <1>1, <3>1
  <2> QED
    BY <2>1, <2>2
<1>9. ASSUME NEW p \in 1 .. a + b
      PROVE  \E j \in DOMAIN list[next[p]].hosts : both[p] = Candidate(list[next[p]], j, r)
  <2>1. CASE p \in 1 .. a
    BY <1>4, <1>5, <2>1
  <2>2. CASE p \notin 1 .. a
    BY <1>2, <1>6, <2>2
  <2> QED
    BY <2>1, <2>2
<1>10. ASSUME NEW i \in 1 .. k + 1, NEW j \in DOMAIN list[i].hosts
       PROVE  \E p \in 1 .. a + b : next[p] = i /\ both[p] = Candidate(list[i], j, r)
  <2>1. CASE i \in 1 .. k
    BY <1>4, <1>5, <2>1
  <2>2. CASE i \notin 1 .. k
    <3>1. i = k + 1
      BY <1>1, <2>2
    <3>2. j \in 1 .. b
      BY <1>2, <3>1
    <3>3. a + j \in 1 .. a + b /\ a + j \notin 1 .. a /\ (a + j) - a = j
      BY <1>2, <1>3, <3>2
    <3>4. next[a + j] = k + 1 /\ both[a + j] = Candidate(list[k + 1], j, r)
      BY <1>6, <3>3
    <3> QED
      BY <3>1, <3>3, <3>4
  <2> QED
    BY <2>1, <2>2
<1>11. Placed(next, k + 1, both, list, r)
  BY <1>3, <1>7, <1>8, <1>9, <1>10 DEF Placed
<1> QED
  BY <1>11 DEF both, c

LEMMA GatheredPlaced ==
    ASSUME NEW r, NEW list, Downstreams(list)
    PROVE  LET all == Gathered(list, r)
           IN  /\ all \in Seq(AllCandidates(list, r))
               /\ \E place : Placed(place, Len(list), all, list, r)
<1> DEFINE n == Len(list)
           A == Seq(AllCandidates(list, r))
<1>1. n \in Nat
  BY DownstreamsFacts
<1>2. PICK f : GatheredAlong(f, list, r) /\ Gathered(list, r) = f[n]
  BY GatheredFold
<1>3. /\ f[0] = <<>>
      /\ \A k \in 0 .. n : f[k] \in A
      /\ \A k \in 0 .. n - 1 : f[k + 1] = f[k] \o CandidatesOf(list[k + 1], r)
  BY <1>2 DEF GatheredAlong
<1> DEFINE S == {k \in Nat : k <= n => \E place : Placed(place, k, f[k], list, r)}
<1>4. 0 \in S
  <2>1. Len(f[0]) = 0 /\ 1 .. 0 = {}
    BY <1>3
  <2>2. Placed(<<>>, 0, f[0], list, r)
    BY <2>1 DEF Placed
  <2> QED
    BY <2>2
<1>5. ASSUME NEW k \in Nat, k \in S PROVE k + 1 \in S
  <2> SUFFICES ASSUME k + 1 <= n PROVE \E next : Placed(next, k + 1, f[k + 1], list, r)
    OBVIOUS
  <2>1. k \in 0 .. n - 1 /\ k \in 0 .. n /\ k <= n
    BY <1>1
  <2>2. PICK place : Placed(place, k, f[k], list, r)
    BY <1>5, <2>1
  <2>3. f[k] \in A
    BY <1>3, <2>1
  <2>4. \E next : Placed(next, k + 1, f[k] \o CandidatesOf(list[k + 1], r), list, r)
    BY <2>1, <2>2, <2>3, PlacedNext
  <2> QED
    BY <1>3, <2>1, <2>4
<1> HIDE DEF S
<1>6. \A k \in Nat : k \in S
  BY <1>4, <1>5, SetInduction
<1>7. \E place : Placed(place, n, f[n], list, r)
  BY <1>1, <1>6 DEF S
<1>8. f[n] \in A
  BY <1>1, <1>3
<1> QED
  BY <1>2, <1>7, <1>8

\* The best of the first m candidates: the base if none has a score, else the
\* first of the greatest score.
Best(b, base, m, all) ==
    \/ b = base /\ \A q \in 1 .. m : all[q].score = 0
    \/ \E p \in 1 .. m :
           /\ b = all[p] /\ all[p].score > 0
           /\ \A q \in 1 .. m : /\ all[q].score <= all[p].score
                                /\ all[q].score = all[p].score => p <= q

LEMMA ChosenBest ==
    ASSUME NEW C, NEW all \in Seq(C), \A c \in C : c.score \in Nat,
           NEW base, base.score = 0
    PROVE  Best(Chosen(base, all), base, Len(all), all)
<1> DEFINE n == Len(all)
<1>1. n \in Nat /\ \A i \in 1 .. n : all[i].score \in Nat
  BY LenProperties, ElementOfSeq
<1>2. PICK f : /\ f[0] = base
               /\ \A k \in 0 .. n - 1 : f[k + 1] = Prefer(f[k], all[k + 1])
               /\ Chosen(base, all) = f[n]
  BY ChosenFold
<1> HIDE DEF n
<1> DEFINE S == {k \in Nat : k <= n => Best(f[k], base, k, all)}
<1>3. 0 \in S
  BY <1>2 DEF Best
<1>4. ASSUME NEW k \in Nat, k \in S PROVE k + 1 \in S
  <2> SUFFICES ASSUME k + 1 <= n PROVE Best(f[k + 1], base, k + 1, all)
    OBVIOUS
  <2> DEFINE c == all[k + 1]
  <2>1. k \in 0 .. n - 1 /\ k <= n /\ k + 1 \in 1 .. n /\ \A q \in 1 .. k : q \in 1 .. n
    BY <1>1
  <2>2. /\ \A q \in 1 .. k + 1 : q \in 1 .. k \/ q = k + 1
        /\ \A q \in 1 .. k : q \in 1 .. k + 1 /\ q <= k + 1 /\ q # k + 1
        /\ k + 1 \in 1 .. k + 1
    OBVIOUS
  <2>3. f[k + 1] = Prefer(f[k], c) /\ Best(f[k], base, k, all)
    BY <1>2, <1>4, <2>1
  <2>4. c.score \in Nat /\ \A q \in 1 .. k : all[q].score \in Nat
    BY <1>1, <2>1
  <2>5. CASE f[k] = base /\ \A q \in 1 .. k : all[q].score = 0
    <3>1. CASE c.score = 0
      <4>1. f[k + 1] = base
        BY <2>3, <2>5, <3>1 DEF Prefer
      <4> QED
        BY <2>2, <2>5, <3>1, <4>1 DEF Best
    <3>2. CASE c.score # 0
      <4>1. c.score > 0
        BY <2>4, <3>2
      <4>2. f[k + 1] = c
        BY <2>3, <2>5, <4>1 DEF Prefer, Better
      <4>3. \A q \in 1 .. k + 1 : all[q].score <= c.score /\ (all[q].score = c.score => k + 1 <= q)
        BY <2>2, <2>4, <2>5, <4>1
      <4> QED
        BY <2>2, <4>1, <4>2, <4>3 DEF Best
    <3> QED
      BY <3>1, <3>2
  <2>6. ASSUME NEW p \in 1 .. k, f[k] = all[p], all[p].score > 0,
               \A q \in 1 .. k : /\ all[q].score <= all[p].score
                                 /\ all[q].score = all[p].score => p <= q
        PROVE  Best(f[k + 1], base, k + 1, all)
    <3>1. CASE c.score > all[p].score
      <4>1. c.score > 0
        BY <2>4, <2>6, <3>1
      <4>2. f[k + 1] = c
        BY <2>3, <2>6, <3>1, <4>1 DEF Prefer, Better
      <4>3. ASSUME NEW q \in 1 .. k + 1
            PROVE  all[q].score <= c.score /\ (all[q].score = c.score => k + 1 <= q)
        <5>1. CASE q = k + 1
          BY <2>4, <5>1
        <5>2. CASE q \in 1 .. k
          <6>1. all[q].score <= all[p].score /\ all[q].score \in Nat /\ all[p].score \in Nat
            BY <2>4, <2>6, <5>2
          <6> QED
            BY <2>4, <3>1, <6>1
        <5> QED
          BY <2>2, <5>1, <5>2
      <4> QED
        BY <2>2, <4>1, <4>2, <4>3 DEF Best
    <3>2. CASE ~(c.score > all[p].score)
      <4>1. f[k + 1] = all[p]
        BY <2>3, <2>6, <3>2 DEF Prefer, Better
      <4>2. p \in 1 .. k + 1 /\ p <= k + 1
        BY <2>2
      <4>3. c.score <= all[p].score
        BY <2>4, <3>2
      <4>4. \A q \in 1 .. k + 1 : /\ all[q].score <= all[p].score
                                  /\ all[q].score = all[p].score => p <= q
        BY <2>2, <2>6, <4>2, <4>3
      <4> QED
        BY <2>6, <4>1, <4>2, <4>4 DEF Best
    <3> QED
      BY <3>1, <3>2
  <2> QED
    BY <2>3, <2>5, <2>6 DEF Best
<1> HIDE DEF S
<1>5. \A k \in Nat : k \in S
  BY <1>3, <1>4, SetInduction
<1>6. Best(f[n], base, n, all)
  BY <1>1, <1>5 DEF S
<1> QED
  BY <1>2, <1>6 DEF n

\* What inferDownstream gives is what DownstreamMostSpecific asks for, of any list.
HitsOf(r, list) ==
    {h \in UNION {{i} \X DOMAIN list[i].hosts : i \in DOMAIN list} :
        r.host \in list[h[1]].hosts[h[2]].matches}

Outranks(g, h, list) == MoreSpecific(list[g[1]].hosts[g[2]], list[h[1]].hosts[h[2]])

MostSpecificIn(h, r, list) ==
    /\ h \in HitsOf(r, list)
    /\ \A g \in HitsOf(r, list) :
           ~Outranks(g, h, list) /\ (~Outranks(h, g, list) => h[1] <= g[1])

Inferred(name, r, list) ==
    IF HitsOf(r, list) = {} THEN name = r.label
    ELSE \E h : MostSpecificIn(h, r, list) /\ name = list[h[1]].name

LEMMA HitFacts ==
    ASSUME NEW r, NEW list, NEW i \in DOMAIN list, NEW j \in DOMAIN list[i].hosts,
           WellFormed(list[i])
    PROVE  /\ <<i, j>>[1] = i /\ <<i, j>>[2] = j
           /\ Score(list[i].hosts[j], r) \in Nat
           /\ <<i, j>> \in HitsOf(r, list) <=> Score(list[i].hosts[j], r) # 0
           /\ list[i].hosts[j].exact \in BOOLEAN /\ list[i].hosts[j].segment \in BOOLEAN
           /\ list[i].hosts[j].literal \in 0 .. 199
<1> DEFINE p == list[i].hosts[j]
<1>1. p \in ToSet(list[i].hosts)
  BY DEF ToSet
<1>2. p.exact \in BOOLEAN /\ p.segment \in BOOLEAN /\ p.literal \in 0 .. 199
  BY <1>1 DEF WellFormed
<1>3. Score(p, r) \in Nat /\ (Score(p, r) = 0 <=> r.host \notin p.matches)
  BY <1>2, ScoreFacts
<1>4. <<i, j>> \in HitsOf(r, list) <=> r.host \in p.matches
  BY DEF HitsOf
<1> QED
  BY <1>2, <1>3, <1>4

LEMMA InferFacts ==
    ASSUME NEW r, NEW list, Downstreams(list)
    PROVE  Inferred(inferDownstream(r, list), r, list)
<1> DEFINE n == Len(list)
           C == AllCandidates(list, r)
           all == Gathered(list, r)
           m == Len(all)
           base == [name |-> r.label, score |-> 0]
           best == Chosen(base, all)
           Hosts(i) == DOMAIN list[i].hosts
           Rank(i, j) == Score(list[i].hosts[j], r)
<1>1. n \in Nat /\ DOMAIN list = 1 .. n /\ \A i \in 1 .. n : WellFormed(list[i])
  BY DownstreamsFacts
<1>2. all \in Seq(C)
  BY GatheredPlaced
<1>3. PICK place : Placed(place, n, all, list, r)
  BY GatheredPlaced
<1>4. \A i \in 1 .. n : \A j \in Hosts(i) :
          Candidate(list[i], j, r).score = Rank(i, j)
          /\ Candidate(list[i], j, r).name = list[i].name
  BY DEF Candidate
<1>5. \A c \in C : c.score \in Nat
  <2> SUFFICES ASSUME NEW i \in 1 .. n, NEW j \in Hosts(i)
               PROVE  Candidate(list[i], j, r).score \in Nat
    BY <1>1 DEF AllCandidates
  <2>1. Rank(i, j) \in Nat
    BY <1>1, HitFacts
  <2> QED
    BY <1>4, <2>1
<1>6. Best(best, base, m, all)
  <2>1. base.score = 0
    OBVIOUS
  <2> HIDE DEF C, all, base
  <2> QED
    BY <1>2, <1>5, <2>1, ChosenBest
<1>7. inferDownstream(r, list) = best.name
  <2>1. DOMAIN all = 1 .. m
    BY <1>2, LenProperties
  <2> QED
    BY <1>1, <2>1, InferFold
<1>8. /\ place \in [1 .. m -> 1 .. n]
      /\ \A p, q \in 1 .. m : p <= q => place[p] <= place[q]
      /\ \A p \in 1 .. m : \E j \in Hosts(place[p]) : all[p] = Candidate(list[place[p]], j, r)
      /\ \A i \in 1 .. n : \A j \in Hosts(i) : \E p \in 1 .. m :
             place[p] = i /\ all[p] = Candidate(list[i], j, r)
  BY <1>3 DEF Placed
<1>9. ASSUME NEW g \in HitsOf(r, list)
      PROVE  /\ g[1] \in 1 .. n /\ g[2] \in Hosts(g[1]) /\ g = <<g[1], g[2]>>
             /\ r.host \in list[g[1]].hosts[g[2]].matches
             /\ Rank(g[1], g[2]) \in Nat /\ Rank(g[1], g[2]) # 0
  <2>1. PICK i \in 1 .. n : g \in {i} \X Hosts(i)
    BY <1>1 DEF HitsOf
  <2>2. g[1] = i /\ g[2] \in Hosts(i) /\ g = <<g[1], g[2]>>
    BY <2>1
  <2>3. r.host \in list[g[1]].hosts[g[2]].matches
    BY DEF HitsOf
  <2>4. Rank(g[1], g[2]) \in Nat /\ Rank(g[1], g[2]) # 0
    BY <1>1, <2>2, HitFacts
  <2> QED
    BY <2>2, <2>3, <2>4
<1>10. ASSUME NEW g \in HitsOf(r, list), NEW h \in HitsOf(r, list)
       PROVE  Outranks(g, h, list) <=> Rank(g[1], g[2]) > Rank(h[1], h[2])
  <2> DEFINE p == list[g[1]].hosts[g[2]]
             q == list[h[1]].hosts[h[2]]
  <2>1. /\ p.exact \in BOOLEAN /\ p.segment \in BOOLEAN /\ p.literal \in 0 .. 199
        /\ r.host \in p.matches
    BY <1>1, <1>9, HitFacts
  <2>2. /\ q.exact \in BOOLEAN /\ q.segment \in BOOLEAN /\ q.literal \in 0 .. 199
        /\ r.host \in q.matches
    BY <1>1, <1>9, HitFacts
  <2> HIDE DEF p, q
  <2>3. MoreSpecific(p, q) <=> Score(p, r) > Score(q, r)
    BY <2>1, <2>2, ScoreOrder
  <2> QED
    BY <2>3 DEF Outranks, p, q
<1> HIDE DEF C, all, m, best, n
<1>11. CASE best = base /\ \A q \in 1 .. m : all[q].score = 0
  <2>1. ASSUME NEW g \in HitsOf(r, list) PROVE FALSE
    <3>1. PICK p \in 1 .. m : all[p] = Candidate(list[g[1]], g[2], r)
      BY <1>8, <1>9
    <3> QED
      BY <1>4, <1>9, <1>11, <3>1
  <2> QED
    BY <1>7, <1>11, <2>1 DEF Inferred
<1>12. ASSUME NEW p \in 1 .. m, best = all[p], all[p].score > 0,
              \A q \in 1 .. m : /\ all[q].score <= all[p].score
                                /\ all[q].score = all[p].score => p <= q
       PROVE  Inferred(inferDownstream(r, list), r, list)
  <2> DEFINE i == place[p]
  <2>1. i \in 1 .. n
    BY <1>8
  <2>2. PICK j \in Hosts(i) : all[p] = Candidate(list[i], j, r)
    BY <1>8
  <2> DEFINE h == <<i, j>>
  <2>3. all[p].score = Rank(i, j) /\ all[p].name = list[i].name
    BY <1>4, <2>1, <2>2
  <2>4. h[1] = i /\ h[2] = j /\ h \in HitsOf(r, list)
    <3>1. Rank(i, j) # 0
      BY <1>12, <2>3
    <3> QED
      BY <1>1, <2>1, <3>1, HitFacts
  <2> HIDE DEF h, i
  <2>5. ASSUME NEW g \in HitsOf(r, list)
        PROVE  ~Outranks(g, h, list) /\ (~Outranks(h, g, list) => h[1] <= g[1])
    <3>1. PICK q \in 1 .. m : place[q] = g[1] /\ all[q] = Candidate(list[g[1]], g[2], r)
      BY <1>8, <1>9
    <3>2. all[q].score = Rank(g[1], g[2])
      BY <1>4, <1>9, <3>1
    <3>3. Outranks(g, h, list) <=> Rank(g[1], g[2]) > Rank(h[1], h[2])
      BY <1>10, <2>4
    <3>4. Outranks(h, g, list) <=> Rank(h[1], h[2]) > Rank(g[1], g[2])
      BY <1>10, <2>4
    <3>5. /\ Rank(g[1], g[2]) \in Nat /\ Rank(h[1], h[2]) \in Nat
          /\ Rank(g[1], g[2]) <= Rank(h[1], h[2])
      BY <1>9, <1>12, <2>3, <2>4, <3>2
    <3>6. ASSUME ~Outranks(h, g, list) PROVE h[1] <= g[1]
      <4>1. Rank(g[1], g[2]) = Rank(h[1], h[2])
        BY <3>4, <3>5, <3>6
      <4>2. p <= q
        BY <1>12, <2>3, <2>4, <3>2, <4>1
      <4> QED
        BY <1>8, <2>4, <3>1, <4>2 DEF i
    <3> QED
      BY <3>3, <3>5, <3>6
  <2>6. MostSpecificIn(h, r, list) /\ inferDownstream(r, list) = list[h[1]].name
    BY <1>7, <1>12, <2>3, <2>4, <2>5 DEF MostSpecificIn
  <2> QED
    BY <2>4, <2>6 DEF Inferred
<1> QED
  BY <1>6, <1>11, <1>12 DEF Best

\* No pattern is so long that its length outweighs a path segment.
ShortLiterals ==
    \A f \in Files : \A item \in ToSet(f.downstreams) : \A p \in ToSet(item.hosts) :
        p.literal < 200

LEMMA FilesDownstreams ==
    ASSUME ShortLiterals, NEW base \in Files, NEW override \in Files
    PROVE  Downstreams(mergeRetryConfigFiles(base, override).downstreams)
<1> DEFINE list == mergeNamedItems(base.downstreams, override.downstreams)
           X == ToSet(base.downstreams) \cup ToSet(override.downstreams)
<1>1. list \in Seq(X)
  <2>1. /\ base.downstreams \in Seq(ToSet(base.downstreams))
        /\ override.downstreams \in Seq(ToSet(override.downstreams))
    BY LayersAssumption
  <2> QED
    BY <2>1, MergedNames
<1>2. \A f \in Files : \A item \in ToSet(f.downstreams) : WellFormed(item)
  <2> SUFFICES ASSUME NEW f \in Files, NEW item \in ToSet(f.downstreams) PROVE WellFormed(item)
    OBVIOUS
  <2>1. item.hosts \in Seq(ToSet(item.hosts))
    BY LayersAssumption
  <2>2. ASSUME NEW p \in ToSet(item.hosts)
        PROVE  p.exact \in BOOLEAN /\ p.segment \in BOOLEAN /\ p.literal \in 0 .. 199
    <3>1. p.exact \in BOOLEAN /\ p.segment \in BOOLEAN /\ p.literal \in Nat
      BY LayersAssumption
    <3>2. p.literal < 200
      BY DEF ShortLiterals
    <3> QED
      BY <3>1, <3>2
  <2> QED
    BY <2>1, <2>2 DEF WellFormed
<1>3. \A item \in X : WellFormed(item)
  BY <1>2
<1>4. Downstreams(list)
  BY <1>1, <1>3 DEF Downstreams
<1> QED
  BY <1>4 DEF mergeRetryConfigFiles

LEMMA NoDownstreams == Downstreams(<<>>) /\ EmptyFile.downstreams = <<>>
  BY EmptySeq DEF Downstreams, EmptyFile

LEMMA ScopeDownstream ==
    ASSUME NEW r, NEW class, NEW downstreams, NEW operations, "downstream" \notin DOMAIN r.scope
    PROVE  resolveRetryConfigScope(r, class, downstreams, operations).downstream
               = inferDownstream(r, downstreams)
  BY DEF resolveRetryConfigScope

\* For any two files and any request: a request that names no downstream gets the
\* one with the most specific pattern that matches it, the first of equals, as
\* long as no pattern has 200 literal characters (inferDownstream, retry_config_file.go).
THEOREM DownstreamMostSpecificAlways == ShortLiterals => (Spec => []DownstreamMostSpecific)
<1> SUFFICES ASSUME ShortLiterals PROVE Spec => []DownstreamMostSpecific
  OBVIOUS
<1> DEFINE Serving == /\ application \in Files /\ service \in Files
                      /\ status = "stored" => merged = EmptyFile /\ scope = {}
                      /\ Downstreams(merged.downstreams)
<1>1. Init => Serving /\ DownstreamMostSpecific
  BY NoDownstreams DEF Init, DownstreamMostSpecific
<1>2. Serving /\ DownstreamMostSpecific /\ [Next]_vars => Serving' /\ DownstreamMostSpecific'
  <2> SUFFICES ASSUME Serving, DownstreamMostSpecific, [Next]_vars
               PROVE  Serving' /\ DownstreamMostSpecific'
    OBVIOUS
  <2>1. CASE Load
    <3>1. /\ application' = application /\ service' = service /\ status' # "stored"
          /\ scope' = {}
          /\ merged' = merged \/ merged' = mergeRetryConfigFiles(application, service)
      BY <2>1 DEF Load
    <3>2. Downstreams(merged'.downstreams)
      BY <3>1, FilesDownstreams
    <3> QED
      BY <3>1, <3>2 DEF DownstreamMostSpecific
  <2>2. ASSUME NEW class, NEW operations, NEW p, NEW default, NEW event,
               Resolved(resolveRetryConfigScope(request, class, merged.downstreams, operations),
                        p, default, event)
        PROVE  Serving' /\ DownstreamMostSpecific'
    <3> DEFINE s == resolveRetryConfigScope(request, class, merged.downstreams, operations)
               list == merged.downstreams
    <3>1. /\ scope' = {s} /\ status' = "resolved"
          /\ application' = application /\ service' = service
          /\ merged' = merged /\ request' = request
      BY <2>2 DEF Resolved
    <3>2. Inferred(inferDownstream(request, list), request, list)
      BY InferFacts
    <3>3. Hits = HitsOf(request, list)
      BY DEF Hits, HitsOf
    <3>4. ASSUME "downstream" \notin DOMAIN request.scope
          PROVE  IF Hits = {} THEN s.downstream = request.label
                 ELSE s.downstream \in {list[h[1]].name : h \in {h \in Hits : \A g \in Hits :
                          /\ ~Outranks(g, h, list)
                          /\ ~Outranks(h, g, list) => h[1] <= g[1]}}
      <4>1. s.downstream = inferDownstream(request, list)
        BY <3>4, ScopeDownstream
      <4> HIDE DEF s, list
      <4> QED
        BY <3>2, <3>3, <4>1 DEF Inferred, MostSpecificIn
    <3> HIDE DEF s
    <3>5. DownstreamMostSpecific'
      BY <3>1, <3>4 DEF DownstreamMostSpecific, Hits, Outranks
    <3> QED
      BY <3>1, <3>5
  <2>3. ASSUME NEW client \in Clients, Resolve(client)
        PROVE  Serving' /\ DownstreamMostSpecific'
    BY <2>2, <2>3 DEF Resolve
  <2>4. ASSUME NEW client \in Clients, ResolveCustom(client)
        PROVE  Serving' /\ DownstreamMostSpecific'
    <3>1. merged.downstreams = <<>>
      BY <2>4, NoDownstreams DEF ResolveCustom
    <3> DEFINE class == requestClassFromContextOrResolver(request, client.own, client, merged)
               s == resolveRetryConfigScope(request, class, <<>>, <<>>)
    <3>2. Resolved(s, BasePolicy(request, class), class, class)
      BY <2>4 DEF ResolveCustom
    <3>3. s = resolveRetryConfigScope(request, class, merged.downstreams, <<>>)
      BY <3>1
    <3> HIDE DEF class, s
    <3> QED
      BY <2>2, <3>2, <3>3
  <2>5. CASE UNCHANGED vars
    BY <2>5 DEF vars, DownstreamMostSpecific, Hits
  <2> QED
    BY <2>1, <2>3, <2>4, <2>5 DEF Next
<1> QED
  BY <1>1, <1>2, PTL DEF Spec

-----------------------------------------------------------------------------
(* Lists drawn from lists *)

\* out is what the first k places of a list have at the places of K, in the
\* order of the list: o gives the place each comes from.
Picks(o, list, K, k, out) ==
    /\ o \in [1 .. Len(out) -> 1 .. k]
    /\ \A p, q \in 1 .. Len(out) : p < q => o[p] < o[q]
    /\ \A p \in 1 .. Len(out) : o[p] \in K /\ out[p] = list[o[p]]
    /\ \A i \in 1 .. k : i \in K => \E p \in 1 .. Len(out) : o[p] = i

LEMMA PicksNothing ==
    ASSUME NEW list, NEW K
    PROVE  \E o : Picks(o, list, K, 0, <<>>)
<1>1. <<>> \in [1 .. 0 -> 1 .. 0] /\ 1 .. 0 = {} /\ Len(<<>>) = 0
  <2>1. 1 .. 0 = {} /\ Len(<<>>) = 0
    OBVIOUS
  <2>2. [i \in {} |-> i] \in [{} -> {}]
    OBVIOUS
  <2>3. <<>> = [i \in {} |-> i]
    OBVIOUS
  <2> QED
    BY <2>1, <2>2, <2>3
<1>2. Picks(<<>>, list, K, 0, <<>>)
  BY <1>1 DEF Picks
<1> QED
  BY <1>2

LEMMA PicksNext ==
    ASSUME NEW X, NEW list, NEW K, NEW k \in Nat, NEW out \in Seq(X),
           NEW o, Picks(o, list, K, k, out), NEW next, list[k + 1] \in X,
           \/ k + 1 \in K /\ next = Append(out, list[k + 1])
           \/ k + 1 \notin K /\ next = out
    PROVE  \E u : Picks(u, list, K, k + 1, next)
<1> DEFINE m == Len(out)
<1>1. m \in Nat
  BY LenProperties
<1>2. /\ \A i \in 1 .. k + 1 : i \in 1 .. k \/ i = k + 1
      /\ \A i \in 1 .. k : i \in 1 .. k + 1 /\ i < k + 1
      /\ k + 1 \in 1 .. k + 1
  OBVIOUS
<1>3. /\ o \in [1 .. m -> 1 .. k]
      /\ \A p, q \in 1 .. m : p < q => o[p] < o[q]
      /\ \A p \in 1 .. m : o[p] \in K /\ out[p] = list[o[p]]
      /\ \A i \in 1 .. k : i \in K => \E p \in 1 .. m : o[p] = i
  BY DEF Picks
<1>4. CASE k + 1 \notin K /\ next = out
  <2>1. o \in [1 .. m -> 1 .. k + 1]
    BY <1>2, <1>3
  <2>2. \A i \in 1 .. k + 1 : i \in K => \E p \in 1 .. m : o[p] = i
    BY <1>2, <1>3, <1>4
  <2>3. Picks(o, list, K, k + 1, next)
    BY <1>3, <1>4, <2>1, <2>2 DEF Picks
  <2> QED
    BY <2>3
<1>5. CASE k + 1 \in K /\ next = Append(out, list[k + 1])
  <2> DEFINE u == [p \in 1 .. m + 1 |-> IF p = m + 1 THEN k + 1 ELSE o[p]]
  <2>1. /\ Len(next) = m + 1
        /\ \A p \in 1 .. m : next[p] = out[p]
        /\ next[m + 1] = list[k + 1]
    BY <1>5, AppendProperties
  <2>2. /\ \A p \in 1 .. m + 1 : p \in 1 .. m \/ p = m + 1
        /\ \A p \in 1 .. m : p \in 1 .. m + 1 /\ p # m + 1 /\ p < m + 1
        /\ m + 1 \in 1 .. m + 1
    BY <1>1
  <2>3. u[m + 1] = k + 1 /\ \A p \in 1 .. m : u[p] = o[p]
    BY <2>2
  <2>4. u \in [1 .. m + 1 -> 1 .. k + 1]
    <3>1. \A p \in 1 .. m + 1 : (IF p = m + 1 THEN k + 1 ELSE o[p]) \in 1 .. k + 1
      BY <1>2, <1>3, <2>2
    <3> QED
      BY <3>1
  <2> HIDE DEF u
  <2>5. \A p \in 1 .. m + 1 : u[p] \in K /\ next[p] = list[u[p]]
    BY <1>3, <1>5, <2>1, <2>2, <2>3
  <2>6. ASSUME NEW p \in 1 .. m + 1, NEW q \in 1 .. m + 1, p < q PROVE u[p] < u[q]
    <3>1. p \in 1 .. m
      BY <1>1, <2>6
    <3>2. CASE q = m + 1
      <4>1. o[p] \in 1 .. k
        BY <1>3, <3>1
      <4> QED
        BY <2>3, <3>1, <3>2, <4>1
    <3>3. CASE q \in 1 .. m
      BY <1>3, <2>3, <2>6, <3>1, <3>3
    <3> QED
      BY <2>2, <3>2, <3>3
  <2>7. \A i \in 1 .. k + 1 : i \in K => \E p \in 1 .. m + 1 : u[p] = i
    BY <1>2, <1>3, <2>2, <2>3
  <2>8. Picks(u, list, K, k + 1, next)
    <3> HIDE DEF m
    <3> QED
      BY <2>1, <2>4, <2>5, <2>6, <2>7 DEF Picks
  <2> QED
    BY <2>8
<1> QED
  BY <1>4, <1>5

\* What is drawn from what is drawn is drawn from the list.
LEMMA PicksOfPicks ==
    ASSUME NEW X, NEW list, NEW K, NEW k \in Nat, NEW mid \in Seq(X), NEW o,
           Picks(o, list, K, k, mid), NEW L, NEW M, NEW out \in Seq(X), NEW u,
           \A i \in 1 .. Len(mid) : i \in M <=> mid[i] \in L,
           Picks(u, mid, M, Len(mid), out), NEW Kept,
           \A i \in 1 .. k : i \in Kept <=> i \in K /\ list[i] \in L
    PROVE  \E z : Picks(z, list, Kept, k, out)
<1> DEFINE m == Len(mid)
           n == Len(out)
           z == [p \in 1 .. n |-> o[u[p]]]
<1>1. /\ o \in [1 .. m -> 1 .. k]
      /\ \A p, q \in 1 .. m : p < q => o[p] < o[q]
      /\ \A p \in 1 .. m : o[p] \in K /\ mid[p] = list[o[p]]
      /\ \A i \in 1 .. k : i \in K => \E p \in 1 .. m : o[p] = i
  BY DEF Picks
<1>2. /\ u \in [1 .. n -> 1 .. m]
      /\ \A p, q \in 1 .. n : p < q => u[p] < u[q]
      /\ \A p \in 1 .. n : mid[u[p]] \in L /\ out[p] = mid[u[p]]
      /\ \A i \in 1 .. m : mid[i] \in L => \E p \in 1 .. n : u[p] = i
  BY DEF Picks
<1> HIDE DEF m, n
<1>3. z \in [1 .. n -> 1 .. k]
  BY <1>1, <1>2
<1>4. \A p \in 1 .. n : z[p] = o[u[p]] /\ u[p] \in 1 .. m
  BY <1>2
<1> HIDE DEF z
<1>5. \A p, q \in 1 .. n : p < q => z[p] < z[q]
  BY <1>1, <1>2, <1>4
<1>6. \A p \in 1 .. n : z[p] \in Kept /\ out[p] = list[z[p]]
  BY <1>1, <1>2, <1>4
<1>7. \A i \in 1 .. k : i \in Kept => \E p \in 1 .. n : z[p] = i
  <2> SUFFICES ASSUME NEW i \in 1 .. k, i \in Kept PROVE \E p \in 1 .. n : z[p] = i
    OBVIOUS
  <2>1. PICK q \in 1 .. m : o[q] = i
    BY <1>1
  <2>2. mid[q] \in L
    BY <1>1, <2>1
  <2>3. PICK p \in 1 .. n : u[p] = q
    BY <1>2, <2>2
  <2> QED
    BY <1>4, <2>1, <2>3
<1>8. Picks(z, list, Kept, k, out)
  BY <1>3, <1>5, <1>6, <1>7 DEF Picks, n
<1> QED
  BY <1>8

-----------------------------------------------------------------------------
(* What is taken *)

\* The places whose items are taken: an item without a name, or the first of its name.
Firsts(list) ==
    {i \in 1 .. Len(list) : list[i].name # Blank =>
        \A j \in 1 .. Len(list) : j < i => list[j].name # list[i].name}

LEMMA TakenPicks ==
    ASSUME NEW X, NEW list \in Seq(X)
    PROVE  /\ FoldLeft(Take, <<>>, list) \in Seq(X)
           /\ \E o : Picks(o, list, Firsts(list), Len(list), FoldLeft(Take, <<>>, list))
<1> DEFINE n == Len(list)
           K == Firsts(list)
<1>1. n \in Nat /\ \A i \in 1 .. n : list[i] \in X
  BY LenProperties, ElementOfSeq
<1>2. PICK f : TakenAlong(f, X, list)
  BY TakeFold
<1>3. /\ f[0] = <<>>
      /\ \A k \in 0 .. n : f[k] \in Seq(X)
      /\ \A k \in 0 .. n - 1 : f[k + 1] = Take(f[k], list[k + 1])
      /\ FoldLeft(Take, <<>>, list) = f[n]
  BY <1>2 DEF TakenAlong
<1> DEFINE Names(k) == \A j \in 1 .. k : list[j].name # Blank =>
                           \E p \in 1 .. Len(f[k]) : f[k][p].name = list[j].name
           S == {k \in Nat : k <= n =>
                    (\E o : Picks(o, list, K, k, f[k])) /\ Names(k)}
<1>4. 0 \in S
  <2>1. 1 .. 0 = {}
    OBVIOUS
  <2> HIDE DEF K, n
  <2> QED
    BY <1>3, <2>1, PicksNothing
<1>5. ASSUME NEW k \in Nat, k \in S PROVE k + 1 \in S
  <2> SUFFICES ASSUME k + 1 <= n
               PROVE  (\E o : Picks(o, list, K, k + 1, f[k + 1])) /\ Names(k + 1)
    OBVIOUS
  <2> DEFINE item == list[k + 1]
             m == Len(f[k])
             Known == \E p \in 1 .. m : f[k][p].name = item.name
  <2>1. /\ k <= n /\ k \in 0 .. n /\ k \in 0 .. n - 1 /\ k + 1 \in 1 .. n
        /\ \A j \in 1 .. k + 1 : j \in 1 .. k \/ j = k + 1
        /\ \A j \in 1 .. n : j < k + 1 <=> j \in 1 .. k
        /\ \A j \in 1 .. k : j \in 1 .. n
    BY <1>1
  <2>2. PICK o : Picks(o, list, K, k, f[k])
    BY <1>5, <2>1
  <2>3. Names(k)
    BY <1>5, <2>1
  <2>4. f[k] \in Seq(X) /\ item \in X /\ f[k + 1] = Take(f[k], item)
    BY <1>1, <1>3, <2>1
  <2>5. m \in Nat /\ DOMAIN f[k] = 1 .. m
    BY <2>4, LenProperties
  <2>6. \A p \in 1 .. m : o[p] \in 1 .. k /\ f[k][p] = list[o[p]]
    BY <2>2 DEF Picks
  <2>7. ASSUME item.name # Blank PROVE Known <=> k + 1 \notin K
    <3>1. ASSUME Known PROVE \E j \in 1 .. k : list[j].name = item.name
      BY <2>6, <3>1
    <3>2. ASSUME NEW j \in 1 .. k, list[j].name = item.name PROVE Known
      BY <2>3, <2>7, <3>2
    <3>3. k + 1 \in K <=> \A j \in 1 .. k : list[j].name # item.name
      BY <2>1, <2>7 DEF Firsts
    <3> QED
      BY <3>1, <3>2, <3>3
  <2>8. item.name = Blank => k + 1 \in K
    BY <2>1 DEF Firsts
  <2> HIDE DEF K, Known
  <2>9. CASE item.name # Blank /\ Known
    <3>1. f[k + 1] = f[k]
      BY <2>4, <2>5, <2>9 DEF Take, Known
    <3>2. k + 1 \notin K
      BY <2>7, <2>9
    <3>3. \E u : Picks(u, list, K, k + 1, f[k + 1])
      BY <2>2, <2>4, <3>1, <3>2, PicksNext
    <3>4. Names(k + 1)
      BY <2>1, <2>3, <2>9, <3>1 DEF Known
    <3> QED
      BY <3>3, <3>4
  <2>10. CASE ~(item.name # Blank /\ Known)
    <3>1. f[k + 1] = Append(f[k], item)
      BY <2>4, <2>5, <2>10 DEF Take, Known
    <3>2. k + 1 \in K
      BY <2>7, <2>8, <2>10
    <3>3. \E u : Picks(u, list, K, k + 1, f[k + 1])
      BY <2>2, <2>4, <3>1, <3>2, PicksNext
    <3>4. /\ Len(f[k + 1]) = m + 1 /\ f[k + 1][m + 1] = item
          /\ \A p \in 1 .. m : f[k + 1][p] = f[k][p]
          /\ m + 1 \in 1 .. m + 1 /\ \A p \in 1 .. m : p \in 1 .. m + 1
      BY <2>4, <2>5, <3>1, AppendProperties
    <3>5. Names(k + 1)
      BY <2>1, <2>3, <3>4
    <3> QED
      BY <3>3, <3>5
  <2> QED
    BY <2>9, <2>10
<1> HIDE DEF S
<1>6. \A k \in Nat : k \in S
  BY <1>4, <1>5, SetInduction
<1>7. \E o : Picks(o, list, K, n, f[n])
  BY <1>1, <1>6 DEF S
<1>8. n \in 0 .. n
  BY <1>1
<1> QED
  BY <1>3, <1>7, <1>8

-----------------------------------------------------------------------------
(* What is kept *)

KeptAlong(f, X, list) ==
    /\ f[0] = <<>>
    /\ \A k \in 0 .. Len(list) : f[k] \in Seq(X)
    /\ \A k \in 0 .. Len(list) - 1 : f[k + 1] = Keep(f[k], list[k + 1])
    /\ Enabled(list) = f[Len(list)]

LEMMA KeepFold ==
    ASSUME NEW X, NEW list \in Seq(X)
    PROVE  \E f : KeptAlong(f, X, list)
<1> DEFINE n == Len(list)
           A == Seq(X)
           g == [i \in 1 .. n |-> [a \in A |-> Keep(a, list[i])]]
           IsFold(v) == v = [s \in SUBSET (1 .. n) |->
                                IF s = {} THEN <<>> ELSE Keep(v[s \ {Max(s)}], list[Max(s)])]
           w == CHOOSE v : IsFold(v)
<1>1. n \in Nat /\ DOMAIN list = 1 .. n
  BY LenProperties
<1>2. <<>> \in A
  BY EmptySeq
<1>3. ASSUME NEW i \in 1 .. n, NEW a \in A PROVE Keep(a, list[i]) \in A
  <2>1. list[i] \in X
    BY ElementOfSeq
  <2>2. Append(a, list[i]) \in A
    BY <2>1, AppendProperties
  <2> QED
    BY <2>2 DEF Keep
<1>4. g \in [1 .. n -> [A -> A]]
  <2> HIDE DEF A
  <2> QED
    BY <1>3
<1>5. PICK v \in [SUBSET (1 .. n) -> A] : Folds(v, <<>>, g, n)
  <2> HIDE DEF n, A, g
  <2> QED
    BY <1>1, <1>2, <1>4, FoldExists
<1>6. IsFold(v)
  <2> SUFFICES ASSUME NEW s \in SUBSET (1 .. n)
               PROVE  v[s] = IF s = {} THEN <<>> ELSE Keep(v[s \ {Max(s)}], list[Max(s)])
    OBVIOUS
  <2>1. s # {} => Max(s) \in 1 .. n
    BY <1>1, MaxFacts
  <2>2. v[s \ {Max(s)}] \in A
    OBVIOUS
  <2>3. v[s] = IF s = {} THEN <<>> ELSE g[Max(s)][v[s \ {Max(s)}]]
    BY <1>5 DEF Folds
  <2> HIDE DEF A, n
  <2> QED
    BY <2>1, <2>2, <2>3
<1>7. IsFold(w)
  <2> HIDE DEF IsFold
  <2> QED
    BY <1>6
<1>8. Enabled(list) = w[1 .. n]
  BY <1>1 DEF Enabled, FoldLeft, MapThenFoldSet
<1> HIDE DEF w
<1>9. FoldsOver(w, A, <<>>, g, n)
  <2> SUFFICES ASSUME NEW s \in SUBSET (1 .. n), s # {}, w[s \ {Max(s)}] \in A
               PROVE  w[s] = g[Max(s)][w[s \ {Max(s)}]]
    BY <1>7 DEF FoldsOver
  <2>1. w[s] = Keep(w[s \ {Max(s)}], list[Max(s)])
    BY <1>7
  <2>2. Max(s) \in 1 .. n
    BY <1>1, MaxFacts
  <2> HIDE DEF A, n
  <2> QED
    BY <2>1, <2>2
<1>10. PICK f \in [0 .. n -> A] : Along(f, <<>>, g, n) /\ f[n] = w[1 .. n]
  <2> HIDE DEF A, n, g
  <2> QED
    BY <1>1, <1>2, <1>4, <1>9, FoldAlong
<1>11. \A k \in 0 .. n - 1 : f[k + 1] = Keep(f[k], list[k + 1])
  <2>1. \A k \in 0 .. n - 1 : k + 1 \in 1 .. n /\ k \in 0 .. n
    BY <1>1
  <2>2. \A k \in 0 .. n : f[k] \in A
    BY <1>10
  <2> HIDE DEF A, n
  <2> QED
    BY <1>10, <2>1, <2>2 DEF Along
<1>12. KeptAlong(f, X, list)
  BY <1>8, <1>10, <1>11 DEF KeptAlong, Along
<1> HIDE DEF A, n
<1> QED
  BY <1>12

LEMMA KeptPicks ==
    ASSUME NEW X, NEW list \in Seq(X)
    PROVE  /\ Enabled(list) \in Seq(X)
           /\ \E o : Picks(o, list, {i \in 1 .. Len(list) : list[i] \in {r \in X : ~r.disabled}},
                           Len(list), Enabled(list))
<1> DEFINE n == Len(list)
           K == {i \in 1 .. n : list[i] \in {r \in X : ~r.disabled}}
<1>1. n \in Nat /\ \A i \in 1 .. n : list[i] \in X
  BY LenProperties, ElementOfSeq
<1>2. PICK f : KeptAlong(f, X, list)
  BY KeepFold
<1>3. /\ f[0] = <<>>
      /\ \A k \in 0 .. n : f[k] \in Seq(X)
      /\ \A k \in 0 .. n - 1 : f[k + 1] = Keep(f[k], list[k + 1])
      /\ Enabled(list) = f[n]
  BY <1>2 DEF KeptAlong
<1>5. \A i \in 1 .. n : i \in K <=> ~list[i].disabled
  BY <1>1
<1> HIDE DEF K, n
<1> DEFINE S == {k \in Nat : k <= n => \E o : Picks(o, list, K, k, f[k])}
<1>4. 0 \in S
  BY <1>3, PicksNothing
<1>6. ASSUME NEW k \in Nat, k \in S PROVE k + 1 \in S
  <2> SUFFICES ASSUME k + 1 <= n PROVE \E o : Picks(o, list, K, k + 1, f[k + 1])
    OBVIOUS
  <2>1. k <= n /\ k \in 0 .. n /\ k \in 0 .. n - 1 /\ k + 1 \in 1 .. n
    BY <1>1
  <2>2. PICK o : Picks(o, list, K, k, f[k])
    BY <1>6, <2>1
  <2>3. f[k] \in Seq(X) /\ list[k + 1] \in X /\ f[k + 1] = Keep(f[k], list[k + 1])
    BY <1>1, <1>3, <2>1
  <2>4. k + 1 \in K <=> ~list[k + 1].disabled
    BY <1>5, <2>1
  <2>5. \/ k + 1 \in K /\ f[k + 1] = Append(f[k], list[k + 1])
        \/ k + 1 \notin K /\ f[k + 1] = f[k]
    BY <2>3, <2>4 DEF Keep
  <2> QED
    BY <2>2, <2>3, <2>5, PicksNext
<1> HIDE DEF S
<1>7. \A k \in Nat : k \in S
  BY <1>4, <1>6, SetInduction
<1>8. \E o : Picks(o, list, K, n, f[n])
  BY <1>1, <1>7 DEF S
<1>9. n \in 0 .. n
  BY <1>1
<1> QED
  BY <1>3, <1>8, <1>9 DEF K, n

-----------------------------------------------------------------------------
(* What is sorted *)

\* A first part of the first numbers is as long as it has members.
LEMMA PrefixCount ==
    ASSUME NEW k \in Nat, NEW T \in SUBSET (1 .. k),
           \A j \in T : \A i \in 1 .. k : i < j => i \in T
    PROVE  \E c \in 0 .. k : T = 1 .. c /\ Cardinality(T) = c
<1>1. CASE T = {}
  <2>1. T = 1 .. 0 /\ 0 \in 0 .. k
    BY <1>1
  <2> QED
    BY <1>1, <2>1, FS_EmptySet
<1>2. CASE T # {}
  <2> DEFINE c == Max(T)
  <2>1. c \in T /\ \A x \in T : x <= c
    BY <1>2, MaxFacts
  <2> HIDE DEF c
  <2>2. c \in 1 .. k /\ c \in 0 .. k
    BY <2>1
  <2>3. ASSUME NEW i PROVE i \in T <=> i \in 1 .. c
    <3>1. i \in T => i \in 1 .. c
      BY <2>1, <2>2
    <3>2. i \in 1 .. c => i \in 1 .. k /\ (i < c \/ i = c)
      BY <2>2
    <3> QED
      BY <2>1, <3>1, <3>2
  <2>4. T = 1 .. c
    BY <2>3
  <2>5. Cardinality(1 .. c) = c
    BY <2>2, FS_Interval
  <2> QED
    BY <2>2, <2>4, <2>5
<1> QED
  BY <1>1, <1>2

\* Items that sort.SliceStable can compare.
Ranked(X) == \A x \in X : x.priority \in Int /\ specificity(x) \in Nat

\* out has the first k items, o gives the place each comes from, and each is
\* ahead of all behind it.
Orders(o, items, k, out) ==
    /\ Len(out) = k
    /\ o \in [1 .. k -> 1 .. k]
    /\ \A i \in 1 .. k : \E p \in 1 .. k : o[p] = i
    /\ \A p \in 1 .. k : out[p] = items[o[p]]
    /\ \A p, q \in 1 .. k : p < q => Ahead(items, o[p], o[q])

\* r is s with e behind its first c members.
Inserts(r, s, c, e) ==
    /\ Len(r) = Len(s) + 1
    /\ \A p \in 1 .. c : r[p] = s[p]
    /\ r[c + 1] = e
    /\ \A p \in c + 2 .. Len(s) + 1 : r[p] = s[p - 1]

LEMMA InsertAtFacts ==
    ASSUME NEW X, NEW s \in Seq(X), NEW e \in X, NEW c \in 0 .. Len(s)
    PROVE  /\ InsertAt(s, 1 + c, e) \in Seq(X)
           /\ Inserts(InsertAt(s, 1 + c, e), s, c, e)
<1> DEFINE m == Len(s)
           a == SubSeq(s, 1, (1 + c) - 1)
           b == SubSeq(s, 1 + c, m)
           ae == a \o <<e>>
           t == ae \o b
<1>1. m \in Nat /\ c \in Nat /\ c <= m /\ (1 + c) - 1 = c
  BY LenProperties
<1>2. \A i \in 1 .. m : s[i] \in X
  BY ElementOfSeq
<1>3. a \in Seq(X) /\ Len(a) = c /\ \A p \in 1 .. c : a[p] = s[p]
  <2>1. \A i \in 1 .. c : s[i] \in X
    BY <1>1, <1>2
  <2>2. /\ SubSeq(s, 1, c) \in Seq(X)
        /\ Len(SubSeq(s, 1, c)) = IF 1 <= c THEN c - 1 + 1 ELSE 0
        /\ \A p \in 1 .. c - 1 + 1 : SubSeq(s, 1, c)[p] = s[1 + p - 1]
    BY <1>1, <2>1, SubSeqProperties
  <2>3. c - 1 + 1 = c /\ (~(1 <= c) => c = 0) /\ \A p \in 1 .. c : 1 + p - 1 = p
    BY <1>1
  <2> QED
    BY <1>1, <2>2, <2>3
<1>4. b \in Seq(X) /\ Len(b) = m - c /\ \A p \in 1 .. m - c : b[p] = s[c + p]
  <2>1. \A i \in 1 + c .. m : s[i] \in X
    BY <1>1, <1>2
  <2>2. /\ b \in Seq(X)
        /\ Len(b) = IF 1 + c <= m THEN m - (1 + c) + 1 ELSE 0
        /\ \A p \in 1 .. m - (1 + c) + 1 : b[p] = s[1 + c + p - 1]
    BY <1>1, <2>1, SubSeqProperties
  <2>3. m - (1 + c) + 1 = m - c /\ (~(1 + c <= m) => m - c = 0)
        /\ \A p \in 1 .. m - c : 1 + c + p - 1 = c + p
    BY <1>1
  <2> QED
    BY <2>2, <2>3
<1> HIDE DEF a, b
<1>5. ae \in Seq(X) /\ Len(ae) = c + 1 /\ ae[c + 1] = e /\ \A p \in 1 .. c : ae[p] = a[p]
  <2>1. ae = Append(a, e)
    BY <1>3, AppendIsConcat
  <2> HIDE DEF ae
  <2> QED
    BY <1>3, <2>1, AppendProperties
<1> HIDE DEF ae
<1>6. /\ t \in Seq(X) /\ Len(t) = (c + 1) + (m - c)
      /\ \A p \in 1 .. (c + 1) + (m - c) :
             t[p] = IF p <= c + 1 THEN ae[p] ELSE b[p - (c + 1)]
  <2>1. /\ ae \o b \in Seq(X) /\ Len(ae \o b) = Len(ae) + Len(b)
        /\ \A p \in 1 .. Len(ae) + Len(b) :
               (ae \o b)[p] = IF p <= Len(ae) THEN ae[p] ELSE b[p - Len(ae)]
    BY <1>4, <1>5, ConcatProperties
  <2>2. Len(ae) = c + 1 /\ Len(b) = m - c
    BY <1>4, <1>5
  <2> HIDE DEF m
  <2> QED
    BY <2>1, <2>2
<1>7. (c + 1) + (m - c) = m + 1
  BY <1>1
<1> HIDE DEF t
<1>8. \A p \in 1 .. c : t[p] = s[p]
  <2>1. \A p \in 1 .. c : p \in 1 .. m + 1 /\ p <= c + 1
    BY <1>1
  <2> QED
    BY <1>3, <1>5, <1>6, <1>7, <2>1
<1>9. t[c + 1] = e
  <2>1. c + 1 \in 1 .. m + 1 /\ c + 1 <= c + 1
    BY <1>1
  <2> QED
    BY <1>5, <1>6, <1>7, <2>1
<1>10. \A p \in c + 2 .. m + 1 : t[p] = s[p - 1]
  <2>1. \A p \in c + 2 .. m + 1 : /\ p \in 1 .. m + 1 /\ ~(p <= c + 1)
                                  /\ p - (c + 1) \in 1 .. m - c
                                  /\ c + (p - (c + 1)) = p - 1
    BY <1>1
  <2> QED
    BY <1>4, <1>6, <1>7, <2>1
<1>11. Inserts(t, s, c, e)
  BY <1>6, <1>7, <1>8, <1>9, <1>10 DEF Inserts
<1>12. InsertAt(s, 1 + c, e) = t
  BY DEF InsertAt, t, ae, a, b
<1> QED
  BY <1>6, <1>11, <1>12

\* The members of a list that an item goes behind are its first ones.
LEMMA InsertFacts ==
    ASSUME NEW X, Ranked(X), NEW items, NEW k \in Nat, \A i \in 1 .. k + 1 : items[i] \in X,
           NEW out \in Seq(X), NEW o, Orders(o, items, k, out)
    PROVE  /\ Insert(out, items[k + 1]) \in Seq(X)
           /\ \E u : Orders(u, items, k + 1, Insert(out, items[k + 1]))
<1> DEFINE item == items[k + 1]
           T == {i \in DOMAIN out : ~Before(item, out[i])}
<1>1. /\ \A i \in 1 .. k : i \in 1 .. k + 1 /\ i < k + 1
      /\ k + 1 \in 1 .. k + 1
      /\ \A i \in 1 .. k + 1 : i \in 1 .. k \/ i = k + 1
  OBVIOUS
<1>2. /\ Len(out) = k /\ DOMAIN out = 1 .. k
      /\ o \in [1 .. k -> 1 .. k]
      /\ \A i \in 1 .. k : \E p \in 1 .. k : o[p] = i
      /\ \A p \in 1 .. k : out[p] = items[o[p]]
      /\ \A p, q \in 1 .. k : p < q => Ahead(items, o[p], o[q])
  BY LenProperties DEF Orders
<1>3. \A i \in 1 .. k + 1 : items[i].priority \in Int /\ specificity(items[i]) \in Nat
  BY DEF Ranked
<1>4. T \in SUBSET (1 .. k)
  BY <1>2
<1>5. ASSUME NEW j \in T, NEW i \in 1 .. k, i < j PROVE i \in T
  <2>1. j \in 1 .. k /\ ~Before(item, items[o[j]])
    BY <1>2
  <2>2. Ahead(items, o[i], o[j]) /\ o[i] \in 1 .. k + 1 /\ o[j] \in 1 .. k + 1
    BY <1>1, <1>2, <1>5, <2>1
  <2> DEFINE a == items[o[i]]
             b == items[o[j]]
  <2>3. /\ a.priority \in Int /\ b.priority \in Int /\ item.priority \in Int
        /\ specificity(a) \in Nat /\ specificity(b) \in Nat /\ specificity(item) \in Nat
    BY <1>1, <1>3, <2>2
  <2>4. \/ a.priority > b.priority
        \/ a.priority = b.priority /\ specificity(a) >= specificity(b)
    BY <2>2, <2>3 DEF Ahead
  <2> HIDE DEF a, b, item
  <2>5. ~Before(item, a)
    BY <2>1, <2>3, <2>4 DEF Before, b
  <2> QED
    BY <1>2, <2>5 DEF a, item
<1>6. PICK c \in 0 .. k : T = 1 .. c /\ Cardinality(T) = c
  <2> HIDE DEF T
  <2> QED
    BY <1>4, <1>5, PrefixCount
<1> DEFINE t == InsertAt(out, 1 + c, item)
           u == [p \in 1 .. k + 1 |->
                    IF p <= c THEN o[p] ELSE IF p = c + 1 THEN k + 1 ELSE o[p - 1]]
<1>7. Insert(out, item) = t
  BY <1>6 DEF Insert
<1>8. /\ t \in Seq(X) /\ Len(t) = k + 1
      /\ \A p \in 1 .. c : t[p] = out[p]
      /\ t[c + 1] = item
      /\ \A p \in c + 2 .. k + 1 : t[p] = out[p - 1]
  <2>1. item \in X /\ c \in 0 .. Len(out)
    BY <1>1, <1>2
  <2>2. InsertAt(out, 1 + c, item) \in Seq(X) /\ Inserts(InsertAt(out, 1 + c, item), out, c, item)
    <3> HIDE DEF item
    <3> QED
      BY <2>1, InsertAtFacts
  <2>3. t \in Seq(X) /\ Inserts(t, out, c, item)
    BY <2>2
  <2> HIDE DEF item, t, u, T
  <2> QED
    BY <1>2, <2>3 DEF Inserts
<1>9. /\ c \in Nat /\ c <= k
      /\ \A p \in 1 .. k + 1 : p \in 1 .. c \/ p = c + 1 \/ p \in c + 2 .. k + 1
      /\ \A p \in 1 .. c : p <= c /\ p \in 1 .. k /\ p \in 1 .. k + 1 /\ p < c + 1
      /\ ~(c + 1 <= c) /\ c + 1 \in 1 .. k + 1
      /\ \A p \in c + 2 .. k + 1 : /\ ~(p <= c) /\ p # c + 1 /\ p - 1 \in 1 .. k
                                   /\ p - 1 \notin 1 .. c /\ p \in 1 .. k + 1
  OBVIOUS
<1>10. /\ \A p \in 1 .. c : u[p] = o[p] /\ u[p] \in 1 .. k
       /\ u[c + 1] = k + 1
       /\ \A p \in c + 2 .. k + 1 : u[p] = o[p - 1] /\ u[p] \in 1 .. k
  BY <1>2, <1>9
<1>11. u = [p \in 1 .. k + 1 |-> u[p]]
  OBVIOUS
<1> HIDE DEF u, t
<1>12. \A p \in 1 .. k + 1 : u[p] \in 1 .. k + 1
  BY <1>1, <1>9, <1>10
<1>13. u \in [1 .. k + 1 -> 1 .. k + 1]
  BY <1>11, <1>12
<1>14. \A i \in 1 .. k + 1 : \E p \in 1 .. k + 1 : u[p] = i
  <2> SUFFICES ASSUME NEW i \in 1 .. k + 1 PROVE \E p \in 1 .. k + 1 : u[p] = i
    OBVIOUS
  <2>1. CASE i = k + 1
    BY <1>9, <1>10, <2>1
  <2>2. CASE i \in 1 .. k
    <3>1. PICK p \in 1 .. k : o[p] = i
      BY <1>2, <2>2
    <3>2. CASE p <= c
      <4>1. p \in 1 .. c
        BY <3>2
      <4> QED
        BY <1>9, <1>10, <3>1, <4>1
    <3>3. CASE ~(p <= c)
      <4>1. p + 1 \in c + 2 .. k + 1 /\ (p + 1) - 1 = p
        BY <3>3
      <4> QED
        BY <1>9, <1>10, <3>1, <4>1
    <3> QED
      BY <3>2, <3>3
  <2> QED
    BY <1>1, <2>1, <2>2
<1>15. ASSUME NEW p \in 1 .. k + 1 PROVE t[p] = items[u[p]]
  <2>1. CASE p \in 1 .. c
    BY <1>2, <1>8, <1>9, <1>10, <2>1
  <2>2. CASE p = c + 1
    BY <1>8, <1>10, <2>2
  <2>3. CASE p \in c + 2 .. k + 1
    <3>1. p - 1 \in 1 .. k /\ u[p] = o[p - 1] /\ t[p] = out[p - 1]
      BY <1>8, <1>9, <1>10, <2>3
    <3> QED
      BY <1>2, <3>1
  <2> QED
    BY <1>9, <2>1, <2>2, <2>3
\* The first ones are ahead of the item, the item is ahead of the others.
<1>16. ASSUME NEW p \in 1 .. c PROVE Ahead(items, o[p], k + 1)
  <2>1. p \in 1 .. k /\ ~Before(item, items[o[p]]) /\ o[p] \in 1 .. k /\ o[p] < k + 1
    BY <1>1, <1>2, <1>6, <1>9
  <2> DEFINE a == items[o[p]]
  <2>2. /\ a.priority \in Int /\ item.priority \in Int
        /\ specificity(a) \in Nat /\ specificity(item) \in Nat
    BY <1>1, <1>3, <2>1
  <2>3. \/ a.priority > item.priority
        \/ a.priority = item.priority /\ specificity(a) > specificity(item)
        \/ a.priority = item.priority /\ specificity(a) = specificity(item)
    <3> HIDE DEF a, item
    <3> QED
      BY <2>1, <2>2 DEF Before, a
  <2> QED
    BY <2>1, <2>3 DEF Ahead
<1>17. ASSUME NEW p \in 1 .. k, p \notin 1 .. c PROVE Ahead(items, k + 1, o[p])
  <2>1. Before(item, items[o[p]])
    BY <1>2, <1>6, <1>17
  <2> QED
    BY <2>1 DEF Before, Ahead
<1>18. ASSUME NEW p \in 1 .. k + 1, NEW q \in 1 .. k + 1, p < q
       PROVE  Ahead(items, u[p], u[q])
  <2>1. CASE p \in 1 .. c /\ q \in 1 .. c
    BY <1>2, <1>9, <1>10, <1>18, <2>1
  <2>2. CASE p \in 1 .. c /\ q = c + 1
    BY <1>10, <1>16, <2>2
  <2>3. CASE p \in 1 .. c /\ q \in c + 2 .. k + 1
    <3>1. p < q - 1 /\ q - 1 \in 1 .. k /\ p \in 1 .. k
      BY <1>9, <2>3
    <3> QED
      BY <1>2, <1>10, <2>3, <3>1
  <2>4. CASE p = c + 1 /\ q \in c + 2 .. k + 1
    BY <1>9, <1>10, <1>17, <2>4
  <2>5. CASE p \in c + 2 .. k + 1 /\ q \in c + 2 .. k + 1
    <3>1. p - 1 < q - 1 /\ q - 1 \in 1 .. k /\ p - 1 \in 1 .. k
      BY <1>9, <1>18, <2>5
    <3> QED
      BY <1>2, <1>10, <2>5, <3>1
  <2>6. (p = c + 1 => q \in c + 2 .. k + 1) /\ (p \in c + 2 .. k + 1 => q \in c + 2 .. k + 1)
    BY <1>9, <1>18
  <2> QED
    BY <1>9, <2>1, <2>2, <2>3, <2>4, <2>5, <2>6
<1>19. Orders(u, items, k + 1, t)
  BY <1>8, <1>13, <1>14, <1>15, <1>18 DEF Orders
<1> QED
  BY <1>7, <1>8, <1>19

InsertedAlong(f, X, list) ==
    /\ f[0] = <<>>
    /\ \A k \in 0 .. Len(list) : f[k] \in Seq(X)
    /\ \A k \in 0 .. Len(list) - 1 : f[k + 1] = Insert(f[k], list[k + 1])
    /\ Sorted(list) = f[Len(list)]

\* Wherever an item goes, the list stays one of the items.
LEMMA InsertType ==
    ASSUME NEW X, NEW sorted \in Seq(X), NEW item \in X
    PROVE  Insert(sorted, item) \in Seq(X)
<1> DEFINE m == Len(sorted)
           T == {i \in DOMAIN sorted : ~Before(item, sorted[i])}
           c == Cardinality(T)
<1>1. m \in Nat /\ DOMAIN sorted = 1 .. m
  BY LenProperties
<1>2. c \in 0 .. m
  <2>1. T \in SUBSET (1 .. m)
    BY <1>1
  <2>2. IsFiniteSet(1 .. m) /\ Cardinality(1 .. m) <= m
    BY <1>1, FS_Interval
  <2> HIDE DEF T
  <2>3. IsFiniteSet(T) /\ Cardinality(T) <= Cardinality(1 .. m)
    BY <2>1, <2>2, FS_Subset
  <2>4. Cardinality(T) \in Nat /\ Cardinality(1 .. m) \in Nat
    BY <2>2, <2>3, FS_CardinalityType
  <2> QED
    BY <1>1, <2>2, <2>3, <2>4
<1>3. Insert(sorted, item) = InsertAt(sorted, 1 + c, item)
  BY DEF Insert
<1> HIDE DEF c
<1> QED
  BY <1>2, <1>3, InsertAtFacts

LEMMA InsertFold ==
    ASSUME NEW X, NEW list \in Seq(X)
    PROVE  \E f : InsertedAlong(f, X, list)
<1> DEFINE n == Len(list)
           A == Seq(X)
           g == [i \in 1 .. n |-> [a \in A |-> Insert(a, list[i])]]
           IsFold(v) == v = [s \in SUBSET (1 .. n) |->
                                IF s = {} THEN <<>> ELSE Insert(v[s \ {Max(s)}], list[Max(s)])]
           w == CHOOSE v : IsFold(v)
<1>1. n \in Nat /\ DOMAIN list = 1 .. n
  BY LenProperties
<1>2. <<>> \in A
  BY EmptySeq
<1>3. ASSUME NEW i \in 1 .. n, NEW a \in A PROVE Insert(a, list[i]) \in A
  <2>1. list[i] \in X
    BY ElementOfSeq
  <2> QED
    BY <2>1, InsertType
<1>4. g \in [1 .. n -> [A -> A]]
  <2> HIDE DEF A
  <2> QED
    BY <1>3
<1>5. PICK v \in [SUBSET (1 .. n) -> A] : Folds(v, <<>>, g, n)
  <2> HIDE DEF n, A, g
  <2> QED
    BY <1>1, <1>2, <1>4, FoldExists
<1>6. IsFold(v)
  <2> SUFFICES ASSUME NEW s \in SUBSET (1 .. n)
               PROVE  v[s] = IF s = {} THEN <<>> ELSE Insert(v[s \ {Max(s)}], list[Max(s)])
    OBVIOUS
  <2>1. s # {} => Max(s) \in 1 .. n
    BY <1>1, MaxFacts
  <2>2. v[s \ {Max(s)}] \in A
    OBVIOUS
  <2>3. v[s] = IF s = {} THEN <<>> ELSE g[Max(s)][v[s \ {Max(s)}]]
    BY <1>5 DEF Folds
  <2> HIDE DEF A, n
  <2> QED
    BY <2>1, <2>2, <2>3
<1>7. IsFold(w)
  <2> HIDE DEF IsFold
  <2> QED
    BY <1>6
<1>8. Sorted(list) = w[1 .. n]
  BY <1>1 DEF Sorted, FoldLeft, MapThenFoldSet
<1> HIDE DEF w
<1>9. FoldsOver(w, A, <<>>, g, n)
  <2> SUFFICES ASSUME NEW s \in SUBSET (1 .. n), s # {}, w[s \ {Max(s)}] \in A
               PROVE  w[s] = g[Max(s)][w[s \ {Max(s)}]]
    BY <1>7 DEF FoldsOver
  <2>1. w[s] = Insert(w[s \ {Max(s)}], list[Max(s)])
    BY <1>7
  <2>2. Max(s) \in 1 .. n
    BY <1>1, MaxFacts
  <2> HIDE DEF A, n
  <2> QED
    BY <2>1, <2>2
<1>10. PICK f \in [0 .. n -> A] : Along(f, <<>>, g, n) /\ f[n] = w[1 .. n]
  <2> HIDE DEF A, n, g
  <2> QED
    BY <1>1, <1>2, <1>4, <1>9, FoldAlong
<1>11. \A k \in 0 .. n - 1 : f[k + 1] = Insert(f[k], list[k + 1])
  <2>1. \A k \in 0 .. n - 1 : k + 1 \in 1 .. n /\ k \in 0 .. n
    BY <1>1
  <2>2. \A k \in 0 .. n : f[k] \in A
    BY <1>10
  <2> HIDE DEF A, n
  <2> QED
    BY <1>10, <2>1, <2>2 DEF Along
<1>12. InsertedAlong(f, X, list)
  BY <1>8, <1>10, <1>11 DEF InsertedAlong, Along
<1> HIDE DEF A, n
<1> QED
  BY <1>12

LEMMA SortedFacts ==
    ASSUME NEW X, Ranked(X), NEW list \in Seq(X)
    PROVE  Sorted(list) \in Seq(X) /\ \E o : Orders(o, list, Len(list), Sorted(list))
<1> DEFINE n == Len(list)
<1>1. n \in Nat /\ \A i \in 1 .. n : list[i] \in X
  BY LenProperties, ElementOfSeq
<1>2. PICK f : InsertedAlong(f, X, list)
  BY InsertFold
<1>3. /\ f[0] = <<>>
      /\ \A k \in 0 .. n : f[k] \in Seq(X)
      /\ \A k \in 0 .. n - 1 : f[k + 1] = Insert(f[k], list[k + 1])
      /\ Sorted(list) = f[n]
  BY <1>2 DEF InsertedAlong
<1> HIDE DEF n
<1> DEFINE S == {k \in Nat : k <= n => \E o : Orders(o, list, k, f[k])}
<1>4. 0 \in S
  <2> DEFINE o == [i \in 1 .. 0 |-> i]
  <2>1. Len(f[0]) = 0 /\ 1 .. 0 = {} /\ o \in [1 .. 0 -> 1 .. 0]
    BY <1>3
  <2> HIDE DEF o
  <2>2. Orders(o, list, 0, f[0])
    BY <2>1 DEF Orders
  <2> QED
    BY <2>2
<1>5. ASSUME NEW k \in Nat, k \in S PROVE k + 1 \in S
  <2> SUFFICES ASSUME k + 1 <= n PROVE \E o : Orders(o, list, k + 1, f[k + 1])
    OBVIOUS
  <2>1. k <= n /\ k \in 0 .. n /\ k \in 0 .. n - 1 /\ \A i \in 1 .. k + 1 : i \in 1 .. n
    BY <1>1
  <2>2. PICK o : Orders(o, list, k, f[k])
    BY <1>5, <2>1
  <2>3. /\ f[k] \in Seq(X) /\ f[k + 1] = Insert(f[k], list[k + 1])
        /\ \A i \in 1 .. k + 1 : list[i] \in X
    BY <1>1, <1>3, <2>1
  <2> QED
    BY <2>2, <2>3, InsertFacts
<1> HIDE DEF S
<1>6. \A k \in Nat : k \in S
  BY <1>4, <1>5, SetInduction
<1>7. \E o : Orders(o, list, n, f[n])
  BY <1>1, <1>6 DEF S
<1>8. n \in 0 .. n
  BY <1>1
<1> QED
  BY <1>3, <1>7, <1>8 DEF n

-----------------------------------------------------------------------------
(* The first match *)

LEMMA MinFacts ==
    ASSUME NEW S \in SUBSET Nat, S # {}
    PROVE  Min(S) \in S /\ \A x \in S : Min(S) <= x
<1>1. PICK x \in S : \A y \in S : ~(<<y, x>> \in OpToRel(<, Nat))
  BY NatLessThanWellFounded, WFMin
<1>2. \A y \in S : x <= y
  <2> SUFFICES ASSUME NEW y \in S, y < x PROVE FALSE
    OBVIOUS
  <2>1. <<y, x>> \in OpToRel(<, Nat)
    BY DEF OpToRel
  <2> QED
    BY <1>1, <2>1
<1> QED
  BY <1>2 DEF Min

HitsIn(items, s) == {i \in 1 .. Len(items) : matches(items[i], s)}

\* found is the item of hits that is ahead of all others, none if there are no hits.
Leads(found, items, hits) ==
    IF hits = {} THEN found = {}
    ELSE \E i \in hits : found = {items[i]} /\ \A j \in hits \ {i} : Ahead(items, i, j)

\* The first match is one ahead of every other match.
LEMMA FirstMatchFacts ==
    ASSUME NEW X, Ranked(X), NEW items \in Seq(X), NEW s
    PROVE  Leads(FirstMatch(items, s), items, HitsIn(items, s))
<1> DEFINE n == Len(items)
           list == Sorted(items)
           found == {i \in DOMAIN list : matches(list[i], s)}
           hits == HitsIn(items, s)
<1>1. n \in Nat /\ \A i \in 1 .. n : items[i] \in X
  BY LenProperties, ElementOfSeq
<1>2. list \in Seq(X)
  BY SortedFacts
<1>3. PICK o : Orders(o, items, n, list)
  BY SortedFacts
<1>4. /\ Len(list) = n
      /\ o \in [1 .. n -> 1 .. n]
      /\ \A i \in 1 .. n : \E p \in 1 .. n : o[p] = i
      /\ \A p \in 1 .. n : list[p] = items[o[p]]
      /\ \A p, q \in 1 .. n : p < q => Ahead(items, o[p], o[q])
  BY <1>3 DEF Orders
<1>5. DOMAIN list = 1 .. n
  BY <1>2, <1>4, LenProperties
<1>6. FirstMatch(items, s) = IF found = {} THEN {} ELSE {list[Min(found)]}
  BY DEF FirstMatch
<1>7. \A p \in 1 .. n : p \in found <=> o[p] \in hits
  BY <1>4, <1>5 DEF HitsIn
<1>8. \A i \in hits : \E p \in 1 .. n : p \in found /\ o[p] = i
  BY <1>4, <1>7 DEF HitsIn
<1>9. found \subseteq 1 .. n
  BY <1>5
<1> HIDE DEF found, list, hits, n
<1>10. ASSUME found # {}
       PROVE  \E i \in hits : /\ FirstMatch(items, s) = {items[i]}
                              /\ \A j \in hits \ {i} : Ahead(items, i, j)
  <2> DEFINE p == Min(found)
  <2>1. p \in found /\ \A q \in found : p <= q
    BY <1>1, <1>9, <1>10, MinFacts
  <2> HIDE DEF p
  <2>2. p \in 1 .. n /\ o[p] \in hits
    BY <1>7, <1>9, <2>1
  <2>3. FirstMatch(items, s) = {items[o[p]]}
    BY <1>4, <1>6, <1>10, <2>2 DEF p
  <2>4. ASSUME NEW j \in hits, j # o[p] PROVE Ahead(items, o[p], j)
    <3>1. PICK q \in 1 .. n : q \in found /\ o[q] = j
      BY <1>8
    <3>2. p < q
      <4>1. p <= q /\ p # q /\ p \in Int /\ q \in Int
        BY <2>1, <2>2, <2>4, <3>1
      <4> QED
        BY <4>1
    <3> QED
      BY <1>4, <2>2, <3>1, <3>2
  <2> QED
    BY <2>2, <2>3, <2>4
<1>11. found = {} => hits = {} /\ FirstMatch(items, s) = {}
  BY <1>6, <1>8
<1>12. found # {} => hits # {}
  BY <1>10
<1> QED
  BY <1>10, <1>11, <1>12 DEF Leads, hits

-----------------------------------------------------------------------------
(* The rule of a request *)

\* The places, in a list of rules, of those that are in force and match.
Matching(list, s) ==
    {i \in Firsts(list) : ~list[i].disabled /\ matches(list[i], s)}

LEMMA MergedRule ==
    ASSUME NEW X, Ranked(X), NEW list \in Seq(X), NEW s, NEW found,
           found = FirstMatch(Enabled(FoldLeft(Take, <<>>, list)), s)
    PROVE  Leads(found, list, Matching(list, s))
<1> DEFINE n == Len(list)
           all == FoldLeft(Take, <<>>, list)
           rules == Enabled(all)
           m == Len(rules)
           L == {r \in X : ~r.disabled}
           K == {i \in Firsts(list) : list[i] \in L}
           hits == HitsIn(rules, s)
<1>1. n \in Nat /\ \A i \in 1 .. n : list[i] \in X
  BY LenProperties, ElementOfSeq
<1>2. all \in Seq(X) /\ \E o : Picks(o, list, Firsts(list), n, all)
  BY TakenPicks
<1>3. /\ rules \in Seq(X)
      /\ \E u : Picks(u, all, {i \in 1 .. Len(all) : all[i] \in L}, Len(all), rules)
  <2> HIDE DEF all
  <2> QED
    BY <1>2, KeptPicks
<1>4. PICK z : Picks(z, list, K, n, rules)
  <2> HIDE DEF all, rules, L, n
  <2>1. PICK o : Picks(o, list, Firsts(list), n, all)
    BY <1>2
  <2> DEFINE M == {i \in 1 .. Len(all) : all[i] \in L}
  <2>2. PICK u : Picks(u, all, M, Len(all), rules)
    BY <1>3
  <2>3. n \in Nat /\ all \in Seq(X) /\ rules \in Seq(X)
    BY <1>1, <1>2, <1>3
  <2>4. /\ \A i \in 1 .. Len(all) : i \in M <=> all[i] \in L
        /\ \A i \in 1 .. n : i \in K <=> i \in Firsts(list) /\ list[i] \in L
    OBVIOUS
  <2> HIDE DEF M, K
  <2> QED
    BY <2>1, <2>2, <2>3, <2>4, PicksOfPicks
<1>5. /\ z \in [1 .. m -> 1 .. n]
      /\ \A p, q \in 1 .. m : p < q => z[p] < z[q]
      /\ \A p \in 1 .. m : z[p] \in K /\ rules[p] = list[z[p]]
      /\ \A i \in 1 .. n : i \in K => \E p \in 1 .. m : z[p] = i
  BY <1>4 DEF Picks
<1>6. Leads(found, rules, hits)
  <2>1. found = FirstMatch(rules, s)
    OBVIOUS
  <2>2. Leads(FirstMatch(rules, s), rules, HitsIn(rules, s))
    <3> HIDE DEF rules
    <3> QED
      BY <1>3, FirstMatchFacts
  <2> QED
    BY <2>1, <2>2
<1>7. m \in Nat
  BY <1>3, LenProperties
<1>8. \A i \in 1 .. n : i \in K <=> i \in Firsts(list) /\ ~list[i].disabled
  BY <1>1
<1>9. Firsts(list) \subseteq 1 .. n
  BY DEF Firsts
<1>10. ASSUME NEW i PROVE i \in Matching(list, s) <=> i \in K /\ matches(list[i], s)
  BY <1>8, <1>9 DEF Matching
<1>11. \A p \in 1 .. m : p \in hits <=> z[p] \in Matching(list, s)
  BY <1>5, <1>10 DEF HitsIn
<1>12. \A i \in Matching(list, s) : \E p \in hits : z[p] = i
  BY <1>5, <1>8, <1>9, <1>10, <1>11
<1>13. hits \subseteq 1 .. m
  BY DEF HitsIn
<1> HIDE DEF hits, m, n, rules, all, K, L
<1>14. hits = {} => Matching(list, s) = {}
  BY <1>12
<1>15. ASSUME NEW p \in hits, found = {rules[p]}, \A q \in hits \ {p} : Ahead(rules, p, q)
       PROVE  \E i \in Matching(list, s) :
                  /\ found = {list[i]}
                  /\ \A j \in Matching(list, s) \ {i} : Ahead(list, i, j)
  <2>1. p \in 1 .. m /\ z[p] \in Matching(list, s) /\ found = {list[z[p]]}
    BY <1>5, <1>11, <1>13, <1>15
  <2>2. ASSUME NEW j \in Matching(list, s), j # z[p] PROVE Ahead(list, z[p], j)
    <3>1. PICK q \in hits : z[q] = j
      BY <1>12
    <3>2. Ahead(rules, p, q) /\ q \in 1 .. m
      BY <1>13, <1>15, <2>2, <3>1
    <3>3. rules[p] = list[z[p]] /\ rules[q] = list[z[q]] /\ (p < q => z[p] < z[q])
      BY <1>5, <2>1, <3>2
    <3>4. Ahead(list, z[p], z[q])
      BY <3>2, <3>3 DEF Ahead
    <3> QED
      BY <3>1, <3>4
  <2> QED
    BY <2>1, <2>2
<1> QED
  BY <1>6, <1>11, <1>13, <1>14, <1>15 DEF Leads

LEMMA FileRules ==
    ASSUME NEW f \in Files, NEW g \in Files
    PROVE  /\ f.rules \in Seq(ToSet(f.rules) \cup ToSet(g.rules))
           /\ Ranked(ToSet(f.rules) \cup ToSet(g.rules))
<1> DEFINE X == ToSet(f.rules) \cup ToSet(g.rules)
<1>1. f.rules \in Seq(ToSet(f.rules))
  BY LayersAssumption
<1>2. f.rules \in Seq(X)
  <2>1. ToSet(f.rules) \subseteq X
    OBVIOUS
  <2> HIDE DEF X
  <2> QED
    BY <1>1, <2>1, SeqMonotonic
<1>3. ASSUME NEW x \in X PROVE x.priority \in Int /\ specificity(x) \in Nat
  <2>1. x.priority \in Int /\ IsFiniteSet(DOMAIN x.match)
    BY LayersAssumption
  <2> QED
    BY <2>1, FS_CardinalityType DEF specificity
<1> QED
  BY <1>2, <1>3 DEF Ranked

\* The rules in force are the first ones of their names in the two lists.
LEMMA ForceFacts ==
    ASSUME application \in Files, service \in Files
    PROVE  LET X == ToSet(application.rules) \cup ToSet(service.rules)
           IN  /\ AllRules \in Seq(X) /\ Ranked(X)
               /\ NamesUnique(application.rules) /\ NamesUnique(service.rules) =>
                      InForce = Firsts(AllRules)
<1> DEFINE X == ToSet(application.rules) \cup ToSet(service.rules)
           a == application.rules
           b == service.rules
           all == AllRules
           m == Len(b)
           n == Len(a)
<1>1. a \in Seq(X) /\ b \in Seq(X) /\ Ranked(X)
  <2>1. X = ToSet(service.rules) \cup ToSet(application.rules)
    OBVIOUS
  <2>2. a \in Seq(X) /\ Ranked(X)
    BY FileRules
  <2>3. b \in Seq(ToSet(service.rules) \cup ToSet(application.rules))
    BY FileRules
  <2> HIDE DEF X
  <2> QED
    BY <2>1, <2>2, <2>3
<1> HIDE DEF X
<1>2. /\ all = b \o a
      /\ all \in Seq(X) /\ Len(all) = m + n
      /\ \A i \in 1 .. m + n : all[i] = IF i <= m THEN b[i] ELSE a[i - m]
  <2>1. all = b \o a
    BY DEF AllRules
  <2> QED
    BY <1>1, <2>1, ConcatProperties
<1>3. /\ m \in Nat /\ n \in Nat /\ DOMAIN b = 1 .. m /\ DOMAIN a = 1 .. n
      /\ DOMAIN all = 1 .. m + n
  BY <1>1, <1>2, LenProperties
<1> HIDE DEF all, m, n
<1>4. ASSUME NamesUnique(a), NamesUnique(b), NEW i
      PROVE  i \in InForce <=> i \in Firsts(all)
  <2>1. i \in InForce <=> /\ i \in 1 .. m + n
                          /\ \/ i <= m
                             \/ all[i].name = Blank
                             \/ \A j \in 1 .. m : b[j].name # all[i].name
    BY <1>3 DEF InForce, all, m
  <2>2. i \in Firsts(all) <=> /\ i \in 1 .. m + n
                              /\ all[i].name # Blank =>
                                     \A j \in 1 .. m + n : j < i => all[j].name # all[i].name
    BY <1>2 DEF Firsts
  <2> SUFFICES ASSUME i \in 1 .. m + n, all[i].name # Blank
               PROVE  (i <= m \/ \A j \in 1 .. m : b[j].name # all[i].name)
                      <=> \A j \in 1 .. m + n : j < i => all[j].name # all[i].name
    BY <2>1, <2>2
  <2>3. /\ \A j \in 1 .. m : j \in 1 .. m + n /\ all[j] = b[j]
        /\ \A j \in 1 .. m + n : j <= m => j \in 1 .. m
        /\ \A j \in 1 .. m + n : ~(j <= m) => j - m \in 1 .. n /\ all[j] = a[j - m]
    <3>1. /\ \A j \in 1 .. m : j \in 1 .. m + n /\ j <= m
          /\ \A j \in 1 .. m + n : j <= m => j \in 1 .. m
          /\ \A j \in 1 .. m + n : ~(j <= m) => j - m \in 1 .. n
      BY <1>3
    <3> QED
      BY <1>2, <3>1
  <2>4. CASE i <= m
    <3>1. ASSUME NEW j \in 1 .. m + n, j < i PROVE all[j].name # all[i].name
      <4>1. j \in 1 .. m /\ i \in 1 .. m /\ j # i
        BY <1>3, <2>4, <3>1
      <4>2. b[i].name # Blank
        BY <2>3, <4>1
      <4>3. b[i].name # b[j].name
        BY <1>3, <1>4, <4>1, <4>2 DEF NamesUnique
      <4> QED
        BY <2>3, <4>1, <4>3
    <3> QED
      BY <2>4, <3>1
  <2>5. CASE ~(i <= m)
    <3>1. ASSUME NEW j \in 1 .. m + n, j < i, ~(j <= m) PROVE all[j].name # all[i].name
      <4>1. /\ i - m \in 1 .. n /\ j - m \in 1 .. n
            /\ all[i] = a[i - m] /\ all[j] = a[j - m]
        BY <2>3, <2>5, <3>1
      <4>2. i - m # j - m
        BY <1>3, <3>1
      <4>3. a[i - m].name # a[j - m].name
        BY <1>3, <1>4, <4>1, <4>2 DEF NamesUnique
      <4> QED
        BY <4>1, <4>3
    <3>2. \A j \in 1 .. m : j \in 1 .. m + n /\ j < i
      BY <1>3, <2>5
    <3> QED
      BY <1>3, <2>3, <2>5, <3>1, <3>2
  <2> QED
    BY <2>4, <2>5
<1>5. NamesUnique(a) /\ NamesUnique(b) => InForce = Firsts(all)
  <2> SUFFICES ASSUME NamesUnique(a), NamesUnique(b) PROVE InForce = Firsts(all)
    OBVIOUS
  <2> QED
    BY <1>4
<1> QED
  BY <1>1, <1>2, <1>5 DEF X, all

\* One of two different places is ahead, never both.
LEMMA AheadAntisymmetric ==
    ASSUME NEW items, NEW i \in Int, NEW j \in Int,
           items[i].priority \in Int, items[j].priority \in Int,
           specificity(items[i]) \in Nat, specificity(items[j]) \in Nat
    PROVE  ~(Ahead(items, i, j) /\ Ahead(items, j, i))
<1> DEFINE a == items[i].priority
           b == items[j].priority
           c == specificity(items[i])
           d == specificity(items[j])
<1>1. a \in Int /\ b \in Int /\ c \in Nat /\ d \in Nat
  OBVIOUS
<1>2. Ahead(items, i, j) <=> a > b \/ (a = b /\ c > d) \/ (a = b /\ c = d /\ i < j)
  BY DEF Ahead
<1>3. Ahead(items, j, i) <=> b > a \/ (b = a /\ d > c) \/ (b = a /\ d = c /\ j < i)
  BY DEF Ahead
<1> HIDE DEF a, b, c, d
<1> QED
  BY <1>1, <1>2, <1>3

\* The rule the code finds in the merged file is the one of the two files.
LEMMA RuleFound ==
    ASSUME application \in Files, service \in Files,
           NamesUnique(application.rules), NamesUnique(service.rules), NEW s, NEW found,
           found = FirstMatch(Enabled(mergeNamedItems(application.rules, service.rules)), s)
    PROVE  /\ found = {} => RulePatch(s) = EmptyPatch
           /\ found # {} => /\ RulePatch(s) = (CHOOSE r \in found : TRUE).patch
                            /\ \E i \in RuleHits(s) : RulePatch(s) = AllRules[i].patch
<1> DEFINE X == ToSet(application.rules) \cup ToSet(service.rules)
           list == AllRules
           hits == RuleHits(s)
<1>1. list \in Seq(X) /\ Ranked(X) /\ InForce = Firsts(list)
  BY ForceFacts
<1>2. found = FirstMatch(Enabled(FoldLeft(Take, <<>>, list)), s)
  BY DEF AllRules, mergeNamedItems
<1>3. hits = Matching(list, s)
  BY <1>1 DEF RuleHits, Matching
<1> HIDE DEF X, list
<1>4. Leads(found, list, Matching(list, s))
  BY <1>1, <1>2, MergedRule
<1>5. \A i \in hits : i \in Int /\ list[i].priority \in Int /\ specificity(list[i]) \in Nat
  <2>1. \A i \in hits : i \in 1 .. Len(list)
    BY <1>3 DEF Matching, Firsts
  <2>2. \A i \in 1 .. Len(list) : list[i] \in X /\ i \in Int
    BY <1>1, LenProperties, ElementOfSeq
  <2> QED
    BY <1>1, <2>1, <2>2 DEF Ranked
<1> HIDE DEF hits
<1>6. CASE hits = {}
  <2>1. found = {} /\ RulePatch(s) = EmptyPatch
    BY <1>3, <1>4, <1>6 DEF Leads, RulePatch, hits
  <2> QED
    BY <2>1
<1>7. CASE hits # {}
  <2>1. PICK i \in hits : found = {list[i]} /\ \A j \in hits \ {i} : Ahead(list, i, j)
    BY <1>3, <1>4, <1>7 DEF Leads
  <2> DEFINE IsFirst(k) == \A j \in hits \ {k} : Ahead(list, k, j)
             k == CHOOSE k \in hits : IsFirst(k)
  <2>2. k \in hits /\ IsFirst(k)
    BY <2>1
  <2>3. RulePatch(s) = list[k].patch
    BY <1>7 DEF RulePatch, hits, list
  <2> HIDE DEF k
  <2>4. k = i
    <3> SUFFICES ASSUME k # i PROVE FALSE
      OBVIOUS
    <3>1. Ahead(list, i, k) /\ Ahead(list, k, i)
      BY <2>1, <2>2
    <3> QED
      BY <1>5, <2>1, <2>2, <3>1, AheadAntisymmetric
  <2>5. (CHOOSE r \in found : TRUE) = list[i]
    BY <2>1
  <2>6. found # {}
    BY <2>1
  <2> QED
    BY <2>1, <2>3, <2>4, <2>5, <2>6 DEF hits, list
<1> QED
  BY <1>6, <1>7

-----------------------------------------------------------------------------
(* The layers of a policy *)

LEMMA GivenOver == \A a, b, d : Given(a, Given(b, d)) = Given(Over(b, a), d)
<1> SUFFICES ASSUME NEW a, NEW b, NEW d PROVE Given(a, Given(b, d)) = Given(Over(b, a), d)
  OBVIOUS
<1>1. CASE a = {}
  BY <1>1 DEF Given, Over
<1>2. CASE a # {}
  BY <1>2 DEF Given, Over
<1> QED
  BY <1>1, <1>2

LEMMA OverOver ==
    /\ \A a, b, c : Over(Over(a, b), c) = Over(a, Over(b, c))
    /\ \A a : Over(a, {}) = a /\ Over({}, a) = a
  BY DEF Over

\* A policy that normalizeRetryPolicy has made.
Normal(p) ==
    /\ p \in [retries : Nat, timeout : Nat \ {0}, elapsed : Int, initial : Nat \ {0},
              maxBackoff : Nat \ {0}, statuses : SUBSET SUBSET Int, on429 : BOOLEAN]
    /\ p.statuses # {}

LEMMA NormalizeFacts ==
    ASSUME NEW p \in [retries : Int, timeout : Int, elapsed : Int, initial : Int,
                      maxBackoff : Int, statuses : SUBSET SUBSET Int, on429 : BOOLEAN]
    PROVE  /\ Normal(normalizeRetryPolicy(p))
           /\ Normal(p) => normalizeRetryPolicy(p) = p
<1> DEFINE q == normalizeRetryPolicy(p)
<1>1. /\ p = [retries |-> p.retries, timeout |-> p.timeout, elapsed |-> p.elapsed,
              initial |-> p.initial, maxBackoff |-> p.maxBackoff,
              statuses |-> p.statuses, on429 |-> p.on429]
      /\ p.retries \in Int /\ p.timeout \in Int /\ p.elapsed \in Int
      /\ p.initial \in Int /\ p.maxBackoff \in Int
      /\ p.statuses \in SUBSET SUBSET Int /\ p.on429 \in BOOLEAN
  OBVIOUS
<1>2. q = [retries    |-> IF p.retries < 0 THEN 0 ELSE p.retries,
           timeout    |-> OrDefault(p.timeout, DefaultTimeout),
           elapsed    |-> p.elapsed,
           initial    |-> OrDefault(p.initial, DefaultInitial),
           maxBackoff |-> OrDefault(p.maxBackoff, DefaultMaxBackoff),
           statuses   |-> IF p.statuses = {} THEN {defaultRetryStatusSet} ELSE p.statuses,
           on429      |-> p.on429]
  <2>1. /\ q.retries = (IF p.retries < 0 THEN 0 ELSE p.retries)
        /\ q.timeout = OrDefault(p.timeout, DefaultTimeout)
        /\ q.elapsed = p.elapsed
        /\ q.initial = OrDefault(p.initial, DefaultInitial)
        /\ q.maxBackoff = OrDefault(p.maxBackoff, DefaultMaxBackoff)
        /\ q.statuses = (IF p.statuses = {} THEN {defaultRetryStatusSet} ELSE p.statuses)
        /\ q.on429 = p.on429
    BY DEF normalizeRetryPolicy
  <2> DEFINE All == [retries : Int, timeout : Int, elapsed : Int, initial : Int,
                     maxBackoff : Int, statuses : SUBSET SUBSET Int, on429 : BOOLEAN]
             a == IF p.retries < 0 THEN 0 ELSE p.retries
             b == OrDefault(p.timeout, DefaultTimeout)
             c == OrDefault(p.initial, DefaultInitial)
             d == OrDefault(p.maxBackoff, DefaultMaxBackoff)
             e == IF p.statuses = {} THEN {defaultRetryStatusSet} ELSE p.statuses
  <2>2. a \in Int /\ b \in Int /\ c \in Int /\ d \in Int
    BY <1>1, DefaultsAssumption DEF OrDefault
  <2>3. {defaultRetryStatusSet} \in SUBSET SUBSET Int
    BY DEF defaultRetryStatusSet
  <2>4. e \in SUBSET SUBSET Int
    BY <1>1, <2>3
  <2>5. q = [p EXCEPT !.retries = a, !.timeout = b, !.initial = c, !.maxBackoff = d,
                      !.statuses = e]
    BY DEF normalizeRetryPolicy
  <2> HIDE DEF q, a, b, c, d, e
  <2>6. q \in All
    BY <2>2, <2>4, <2>5
  <2>7. q = [retries |-> q.retries, timeout |-> q.timeout, elapsed |-> q.elapsed,
             initial |-> q.initial, maxBackoff |-> q.maxBackoff,
             statuses |-> q.statuses, on429 |-> q.on429]
    BY <2>6
  <2> QED
    BY <2>1, <2>7
<1>3. \A d \in Int, e \in Nat \ {0} :
          OrDefault(d, e) \in Nat \ {0} /\ (d \in Nat \ {0} => OrDefault(d, e) = d)
  BY DEF OrDefault
<1>4. /\ OrDefault(p.timeout, DefaultTimeout) \in Nat \ {0}
      /\ OrDefault(p.initial, DefaultInitial) \in Nat \ {0}
      /\ OrDefault(p.maxBackoff, DefaultMaxBackoff) \in Nat \ {0}
  BY <1>1, <1>3, DefaultsAssumption
<1>5. (IF p.retries < 0 THEN 0 ELSE p.retries) \in Nat
  BY <1>1
<1> DEFINE statuses == IF p.statuses = {} THEN {defaultRetryStatusSet} ELSE p.statuses
<1>6. statuses \in SUBSET SUBSET Int /\ statuses # {}
  <2>1. {defaultRetryStatusSet} \in SUBSET SUBSET Int /\ {defaultRetryStatusSet} # {}
    BY DEF defaultRetryStatusSet
  <2> QED
    BY <1>1, <2>1
<1> HIDE DEF q, statuses
<1>7. Normal(q)
  BY <1>1, <1>2, <1>4, <1>5, <1>6 DEF Normal, statuses
<1>8. ASSUME Normal(p) PROVE q = p
  <2>1. /\ p.retries \in Nat /\ p.timeout \in Nat \ {0} /\ p.initial \in Nat \ {0}
        /\ p.maxBackoff \in Nat \ {0} /\ p.statuses # {}
    BY <1>8 DEF Normal
  <2>2. /\ OrDefault(p.timeout, DefaultTimeout) = p.timeout
        /\ OrDefault(p.initial, DefaultInitial) = p.initial
        /\ OrDefault(p.maxBackoff, DefaultMaxBackoff) = p.maxBackoff
    BY <1>1, <1>3, <2>1, DefaultsAssumption
  <2>3. (IF p.retries < 0 THEN 0 ELSE p.retries) = p.retries
    BY <2>1
  <2> QED
    BY <1>1, <1>2, <2>1, <2>2, <2>3
<1> QED
  BY <1>7, <1>8 DEF q

LEMMA BaseNormal ==
    ASSUME NEW r \in RequestsSeen, NEW class
    PROVE  Normal(BasePolicy(r, class))
<1> DEFINE All == [retries : Int, timeout : Int, elapsed : Int, initial : Int,
                   maxBackoff : Int, statuses : SUBSET SUBSET Int, on429 : BOOLEAN]
           default == [retries |-> IF class \in Writes THEN 0 ELSE 1,
                       timeout |-> DefaultTimeout, elapsed |-> 0,
                       initial |-> DefaultInitial, maxBackoff |-> DefaultMaxBackoff,
                       statuses |-> {defaultRetryStatusSet}, on429 |-> TRUE]
<1>1. default \in All
  <2>1. {defaultRetryStatusSet} \in SUBSET SUBSET Int
    BY DEF defaultRetryStatusSet
  <2> QED
    BY <2>1, DefaultsAssumption
<1>2. r.policy \subseteq All
  BY LayersAssumption
<1> HIDE DEF default, All
<1>3. Given(r.policy, default) \in All
  BY <1>1, <1>2 DEF Given
<1>4. Normal(normalizeRetryPolicy(Given(r.policy, default)))
  BY <1>3, NormalizeFacts DEF All
<1> QED
  BY <1>4 DEF BasePolicy, default

\* What a valid patch makes of a normal policy: each field it gives is taken,
\* and a disable_retry is a max_retries of 0.
Patched(q, p, b) ==
    /\ q.retries = Given(AsksRetries(p), b.retries)
    /\ q.timeout = Given(p.timeout, b.timeout)
    /\ q.elapsed = Given(p.elapsed, b.elapsed)
    /\ q.initial = Given(p.initial, b.initial)
    /\ q.maxBackoff = Given(p.maxBackoff, b.maxBackoff)
    /\ q.statuses = Over(b.statuses, p.statuses)
    /\ q.on429 = Given(p.on429, b.on429)

LEMMA ApplyFacts ==
    ASSUME NEW p \in Patch, toPatch(p), NEW b, Normal(b)
    PROVE  Normal(Apply(p, b)) /\ Patched(Apply(p, b), p, b)
<1> DEFINE q == [retries    |-> Given(p.retries, IF p.disable = {TRUE} THEN 0 ELSE b.retries),
                 timeout    |-> Given(p.timeout, b.timeout),
                 elapsed    |-> Given(p.elapsed, b.elapsed),
                 initial    |-> Given(p.initial, b.initial),
                 maxBackoff |-> Given(p.maxBackoff, b.maxBackoff),
                 statuses   |-> Over(b.statuses, p.statuses),
                 on429      |-> Given(p.on429, b.on429)]
<1>1. /\ p.retries \subseteq Int /\ p.timeout \subseteq Int /\ p.elapsed \subseteq Int
      /\ p.initial \subseteq Int /\ p.maxBackoff \subseteq Int
      /\ p.statuses \in SUBSET SUBSET Int /\ p.on429 \subseteq BOOLEAN
  BY DEF Patch
<1>2. /\ b.retries \in Nat /\ b.timeout \in Nat \ {0} /\ b.elapsed \in Int
      /\ b.initial \in Nat \ {0} /\ b.maxBackoff \in Nat \ {0}
      /\ b.statuses \in SUBSET SUBSET Int /\ b.statuses # {} /\ b.on429 \in BOOLEAN
  BY DEF Normal
<1>3. /\ p.retries \subseteq Nat /\ p.timeout \subseteq Nat \ {0}
      /\ p.initial \subseteq Nat \ {0} /\ p.maxBackoff \subseteq Nat \ {0}
  <2>1. \A n \in p.retries : n \in Int /\ n >= 0
    BY <1>1 DEF toPatch
  <2>2. \A d \in p.timeout \cup p.initial \cup p.maxBackoff : d \in Int /\ d > 0
    BY <1>1 DEF toPatch
  <2>3. \A d \in Int : (d >= 0 => d \in Nat) /\ (d > 0 => d \in Nat \ {0})
    OBVIOUS
  <2> QED
    BY <2>1, <2>2, <2>3
<1>4. \A S, o, d : o \subseteq S /\ d \in S => Given(o, d) \in S
  BY DEF Given
<1> DEFINE retries == Given(p.retries, IF p.disable = {TRUE} THEN 0 ELSE b.retries)
           statuses == Over(b.statuses, p.statuses)
<1>5. /\ retries \in Nat
      /\ Given(p.timeout, b.timeout) \in Nat \ {0}
      /\ Given(p.elapsed, b.elapsed) \in Int
      /\ Given(p.initial, b.initial) \in Nat \ {0}
      /\ Given(p.maxBackoff, b.maxBackoff) \in Nat \ {0}
      /\ Given(p.on429, b.on429) \in BOOLEAN
  <2>1. (IF p.disable = {TRUE} THEN 0 ELSE b.retries) \in Nat
    BY <1>2
  <2>2. retries \in Nat
    <3> HIDE DEF retries
    <3> QED
      BY <1>3, <1>4, <2>1 DEF retries
  <2> QED
    BY <1>1, <1>2, <1>3, <1>4, <2>2
<1>6. statuses \in SUBSET SUBSET Int /\ statuses # {}
  BY <1>1, <1>2 DEF Over
<1>7. retries = Given(AsksRetries(p), b.retries)
  <2>1. CASE p.disable = {TRUE}
    <3>1. p.retries = {}
      BY <2>1 DEF toPatch
    <3> QED
      BY <2>1, <3>1, GivenFacts DEF AsksRetries
  <2>2. CASE p.disable # {TRUE}
    BY <2>2 DEF AsksRetries
  <2> QED
    BY <2>1, <2>2
<1> HIDE DEF retries, statuses
<1>8. /\ q.retries = retries /\ q.timeout = Given(p.timeout, b.timeout)
      /\ q.elapsed = Given(p.elapsed, b.elapsed) /\ q.initial = Given(p.initial, b.initial)
      /\ q.maxBackoff = Given(p.maxBackoff, b.maxBackoff)
      /\ q.statuses = statuses /\ q.on429 = Given(p.on429, b.on429)
  BY DEF retries, statuses
<1>9. q = [retries |-> retries, timeout |-> Given(p.timeout, b.timeout),
           elapsed |-> Given(p.elapsed, b.elapsed), initial |-> Given(p.initial, b.initial),
           maxBackoff |-> Given(p.maxBackoff, b.maxBackoff),
           statuses |-> statuses, on429 |-> Given(p.on429, b.on429)]
  BY DEF retries, statuses
<1>10. Apply(p, b) = normalizeRetryPolicy(q)
  BY DEF Apply
<1> HIDE DEF q
<1>11. Normal(q)
  BY <1>5, <1>6, <1>8, <1>9 DEF Normal
<1>12. q \in [retries : Int, timeout : Int, elapsed : Int, initial : Int,
              maxBackoff : Int, statuses : SUBSET SUBSET Int, on429 : BOOLEAN]
  BY <1>5, <1>6, <1>9
<1>13. Apply(p, b) = q
  BY <1>10, <1>11, <1>12, NormalizeFacts
<1>14. Patched(q, p, b)
  BY <1>7, <1>8 DEF Patched, statuses
<1> QED
  BY <1>11, <1>13, <1>14

-----------------------------------------------------------------------------
(* The layers of two files *)

LEMMA EmptyPatchFacts ==
    /\ EmptyPatch \in Patch /\ toPatch(EmptyPatch) /\ AsksRetries(EmptyPatch) = {}
    /\ EmptyPatch.disable = {} /\ EmptyPatch.retries = {} /\ EmptyPatch.timeout = {}
    /\ EmptyPatch.elapsed = {} /\ EmptyPatch.initial = {} /\ EmptyPatch.maxBackoff = {}
    /\ EmptyPatch.statuses = {} /\ EmptyPatch.on429 = {}
<1>1. /\ EmptyPatch.disable = {} /\ EmptyPatch.retries = {} /\ EmptyPatch.timeout = {}
      /\ EmptyPatch.elapsed = {} /\ EmptyPatch.initial = {} /\ EmptyPatch.maxBackoff = {}
      /\ EmptyPatch.statuses = {} /\ EmptyPatch.on429 = {}
  BY DEF EmptyPatch
<1>2. EmptyPatch \in Patch
  BY DEF EmptyPatch, Patch
<1>3. toPatch(EmptyPatch)
  BY <1>1 DEF toPatch
<1>4. AsksRetries(EmptyPatch) = {}
  <2>1. {} # {TRUE}
    OBVIOUS
  <2> QED
    BY <1>1, <2>1 DEF AsksRetries
<1> QED
  BY <1>1, <1>2, <1>3, <1>4

\* What the patch that merges two says of each field.
Merges(m, lower, upper) ==
    /\ AsksRetries(m) = Over(IF upper.disable = {FALSE} THEN lower.retries
                             ELSE AsksRetries(lower), AsksRetries(upper))
    /\ m.timeout = Over(lower.timeout, upper.timeout)
    /\ m.elapsed = Over(lower.elapsed, upper.elapsed)
    /\ m.initial = Over(lower.initial, upper.initial)
    /\ m.maxBackoff = Over(lower.maxBackoff, upper.maxBackoff)
    /\ m.statuses = Over(lower.statuses, upper.statuses)
    /\ m.on429 = Over(lower.on429, upper.on429)

LEMMA MergesFacts ==
    ASSUME NEW lower \in Patch, NEW upper \in Patch, NEW m,
           m = mergeRetryPolicyPatchFiles(lower, upper)
    PROVE  /\ m \in Patch
           /\ toPatch(upper) => Merges(m, lower, upper)
           /\ m = EmptyPatch => lower = EmptyPatch /\ upper = EmptyPatch
<1>1. m = [disable    |-> mergeDisable(lower, upper),
           retries    |-> mergeRetries(lower, upper),
           timeout    |-> Over(lower.timeout, upper.timeout),
           elapsed    |-> Over(lower.elapsed, upper.elapsed),
           initial    |-> Over(lower.initial, upper.initial),
           maxBackoff |-> Over(lower.maxBackoff, upper.maxBackoff),
           statuses   |-> Over(lower.statuses, upper.statuses),
           on429      |-> Over(lower.on429, upper.on429)]
  BY DEF mergeRetryPolicyPatchFiles
<1>2. /\ m.disable = mergeDisable(lower, upper) /\ m.retries = mergeRetries(lower, upper)
      /\ m.timeout = Over(lower.timeout, upper.timeout)
      /\ m.elapsed = Over(lower.elapsed, upper.elapsed)
      /\ m.initial = Over(lower.initial, upper.initial)
      /\ m.maxBackoff = Over(lower.maxBackoff, upper.maxBackoff)
      /\ m.statuses = Over(lower.statuses, upper.statuses)
      /\ m.on429 = Over(lower.on429, upper.on429)
  BY <1>1
<1>3. \A p \in Patch : /\ p.disable \in {{}, {TRUE}, {FALSE}} /\ p.retries \subseteq Int
                       /\ p.timeout \subseteq Int /\ p.elapsed \subseteq Int
                       /\ p.initial \subseteq Int /\ p.maxBackoff \subseteq Int
                       /\ p.statuses \subseteq SUBSET Int /\ p.on429 \subseteq BOOLEAN
  BY DEF Patch
<1>4. \A a, b : Over(a, b) = a \/ Over(a, b) = b
  BY DEF Over
<1>5. m \in Patch
  <2>1. mergeDisable(lower, upper) \in {{}, {TRUE}, {FALSE}}
    BY <1>3 DEF mergeDisable, Over
  <2>2. mergeRetries(lower, upper) \in SUBSET Int
    BY <1>3 DEF mergeRetries, Over
  <2>3. /\ Over(lower.timeout, upper.timeout) \in SUBSET Int
        /\ Over(lower.elapsed, upper.elapsed) \in SUBSET Int
        /\ Over(lower.initial, upper.initial) \in SUBSET Int
        /\ Over(lower.maxBackoff, upper.maxBackoff) \in SUBSET Int
        /\ Over(lower.statuses, upper.statuses) \in SUBSET SUBSET Int
        /\ Over(lower.on429, upper.on429) \in SUBSET BOOLEAN
    BY <1>3 DEF Over
  <2> DEFINE D == {{}, {TRUE}, {FALSE}}
  <2>4. Patch = [disable : D, retries : SUBSET Int, timeout : SUBSET Int,
                 elapsed : SUBSET Int, initial : SUBSET Int, maxBackoff : SUBSET Int,
                 statuses : SUBSET SUBSET Int, on429 : SUBSET BOOLEAN]
    BY DEF Patch
  <2>5. mergeDisable(lower, upper) \in D
    BY <2>1
  <2> HIDE DEF D
  <2> QED
    BY <1>1, <2>2, <2>3, <2>4, <2>5
<1>6. ASSUME toPatch(upper) PROVE Merges(m, lower, upper)
  <2> DEFINE base == IF upper.disable = {FALSE} THEN lower.retries ELSE AsksRetries(lower)
  <2>1. AsksRetries(m) = Over(base, AsksRetries(upper))
    <3>1. {TRUE} # {} /\ {FALSE} # {} /\ {TRUE} # {FALSE} /\ {0} # {}
      <4>1. TRUE \in {TRUE} /\ TRUE \notin {FALSE} /\ FALSE \in {FALSE} /\ 0 \in {0}
        OBVIOUS
      <4> QED
        BY <4>1
    <3>2. CASE upper.disable = {TRUE}
      <4>1. upper.retries = {}
        BY <1>6, <3>2 DEF toPatch
      <4>2. m.disable = {TRUE}
        BY <1>2, <3>1, <3>2 DEF mergeDisable, Over
      <4>3. AsksRetries(m) = {0} /\ AsksRetries(upper) = {0}
        BY <3>2, <4>2 DEF AsksRetries
      <4> QED
        BY <3>1, <4>3 DEF Over
    <3>3. CASE upper.disable = {FALSE}
      <4>1. m.disable = {FALSE} /\ m.retries = Over(lower.retries, upper.retries)
        BY <1>2, <3>1, <3>3 DEF mergeDisable, mergeRetries, Over
      <4>2. AsksRetries(m) = m.retries /\ AsksRetries(upper) = upper.retries
        BY <3>1, <3>3, <4>1 DEF AsksRetries
      <4> QED
        BY <3>3, <4>1, <4>2
    <3>4. CASE upper.disable = {}
      <4>1. AsksRetries(upper) = upper.retries /\ base = AsksRetries(lower)
        BY <3>1, <3>4 DEF AsksRetries
      <4>2. CASE upper.retries = {}
        <5>1. m.disable = lower.disable /\ m.retries = lower.retries
          BY <1>2, <3>1, <3>4, <4>2 DEF mergeDisable, mergeRetries, Over
        <5>2. AsksRetries(m) = AsksRetries(lower)
          BY <5>1 DEF AsksRetries
        <5> HIDE DEF base
        <5> QED
          BY <4>1, <4>2, <5>2 DEF Over
      <4>3. CASE upper.retries # {}
        <5>1. m.disable = {} /\ m.retries = upper.retries
          BY <1>2, <3>1, <3>4, <4>3 DEF mergeDisable, mergeRetries, Over
        <5>2. AsksRetries(m) = upper.retries
          BY <3>1, <5>1 DEF AsksRetries
        <5> HIDE DEF base
        <5> QED
          BY <4>1, <4>3, <5>2 DEF Over
      <4> QED
        BY <4>2, <4>3
    <3> QED
      BY <1>3, <3>2, <3>3, <3>4
  <2> HIDE DEF base
  <2> QED
    BY <1>2, <2>1 DEF Merges, base
<1>7. ASSUME m = EmptyPatch PROVE lower = EmptyPatch /\ upper = EmptyPatch
  <2>1. /\ m.disable = {} /\ m.retries = {} /\ m.timeout = {} /\ m.elapsed = {}
        /\ m.initial = {} /\ m.maxBackoff = {} /\ m.statuses = {} /\ m.on429 = {}
    BY <1>7, EmptyPatchFacts
  <2>2. \A a, b : Over(a, b) = {} => a = {} /\ b = {}
    BY DEF Over
  <2>3. /\ lower.timeout = {} /\ upper.timeout = {} /\ lower.elapsed = {} /\ upper.elapsed = {}
        /\ lower.initial = {} /\ upper.initial = {}
        /\ lower.maxBackoff = {} /\ upper.maxBackoff = {}
        /\ lower.statuses = {} /\ upper.statuses = {} /\ lower.on429 = {} /\ upper.on429 = {}
    BY <1>2, <2>1, <2>2
  <2>4. {TRUE} # {}
    OBVIOUS
  <2>5. upper.disable # {TRUE}
    BY <1>2, <2>1, <2>4 DEF mergeDisable, Over
  <2>6. lower.retries = {} /\ upper.retries = {}
    BY <1>2, <2>1, <2>2, <2>5 DEF mergeRetries
  <2>7. lower.disable = {} /\ upper.disable = {}
    BY <1>2, <2>1, <2>2, <2>6 DEF mergeDisable
  <2>8. \A p \in Patch :
            p = [disable |-> p.disable, retries |-> p.retries, timeout |-> p.timeout,
                 elapsed |-> p.elapsed, initial |-> p.initial, maxBackoff |-> p.maxBackoff,
                 statuses |-> p.statuses, on429 |-> p.on429]
    BY DEF Patch
  <2> QED
    BY <2>3, <2>6, <2>7, <2>8 DEF EmptyPatch
<1> QED
  BY <1>5, <1>6, <1>7

LEMMA ClassPatchFacts ==
    ASSUME NEW base \in Files, NEW override \in Files, NEW class
    PROVE  /\ ClassPatch(base, class) \in Patch
           /\ compileRetryConfigFile(base) => toPatch(ClassPatch(base, class))
           /\ ClassPatch(mergeRetryConfigFiles(base, override), class)
                = mergeRetryPolicyPatchFiles(ClassPatch(base, class), ClassPatch(override, class))
<1>1. base.policies \in [Classes -> Patch]
  BY LayersAssumption
<1>2. CASE class \in Classes
  <2>1. /\ ClassPatch(base, class) = base.policies[class]
        /\ ClassPatch(override, class) = override.policies[class]
        /\ ClassPatch(mergeRetryConfigFiles(base, override), class)
             = mergeRetryPolicyPatchFiles(base.policies[class], override.policies[class])
    BY <1>2 DEF ClassPatch, mergeRetryConfigFiles
  <2> QED
    BY <1>1, <1>2, <2>1 DEF compileRetryConfigFile
<1>3. CASE class \notin Classes
  <2>1. /\ ClassPatch(base, class) = EmptyPatch /\ ClassPatch(override, class) = EmptyPatch
        /\ ClassPatch(mergeRetryConfigFiles(base, override), class) = EmptyPatch
    BY <1>3 DEF ClassPatch
  <2>2. mergeRetryPolicyPatchFiles(EmptyPatch, EmptyPatch) = EmptyPatch
    <3>1. Over({}, {}) = {} /\ {} # {TRUE}
      BY DEF Over
    <3>2. mergeDisable(EmptyPatch, EmptyPatch) = {} /\ mergeRetries(EmptyPatch, EmptyPatch) = {}
      BY <3>1, EmptyPatchFacts DEF mergeDisable, mergeRetries
    <3>3. mergeRetryPolicyPatchFiles(EmptyPatch, EmptyPatch)
            = [disable |-> {}, retries |-> {}, timeout |-> {}, elapsed |-> {}, initial |-> {},
               maxBackoff |-> {}, statuses |-> {}, on429 |-> {}]
      BY <3>1, <3>2, EmptyPatchFacts DEF mergeRetryPolicyPatchFiles
    <3> QED
      BY <3>3 DEF EmptyPatch
  <2> QED
    BY <2>1, <2>2, EmptyPatchFacts
<1> QED
  BY <1>2, <1>3

\* Two patches, one after the other, say what their fields say, the second first.
LEMMA PatchedTwice ==
    ASSUME NEW base, NEW q, NEW p, NEW m, NEW rule, NEW lower, NEW upper,
           Merges(m, lower, upper), Patched(q, m, base), Patched(p, rule, q)
    PROVE  Layered(p, rule, upper, lower, base)
<1> DEFINE asked == IF upper.disable = {FALSE} THEN lower.retries ELSE AsksRetries(lower)
<1>1. \A r, u, l, d : Given(r, Given(Over(l, u), d)) = FirstGiven(r, u, l, d)
  BY GivenOver DEF FirstGiven
<1>2. p.retries = FirstGiven(AsksRetries(rule), AsksRetries(upper), asked, base.retries)
  <2>1. AsksRetries(m) = Over(asked, AsksRetries(upper))
    BY DEF Merges
  <2> HIDE DEF asked
  <2> QED
    BY <1>1, <2>1 DEF Patched
<1>3. p.timeout = FirstGiven(rule.timeout, upper.timeout, lower.timeout, base.timeout)
  BY <1>1 DEF Merges, Patched
<1>4. p.elapsed = FirstGiven(rule.elapsed, upper.elapsed, lower.elapsed, base.elapsed)
  BY <1>1 DEF Merges, Patched
<1>5. p.initial = FirstGiven(rule.initial, upper.initial, lower.initial, base.initial)
  BY <1>1 DEF Merges, Patched
<1>6. p.maxBackoff = FirstGiven(rule.maxBackoff, upper.maxBackoff, lower.maxBackoff,
                                base.maxBackoff)
  BY <1>1 DEF Merges, Patched
<1>7. p.statuses = Over(base.statuses, Over(Over(lower.statuses, upper.statuses),
                                            rule.statuses))
  BY OverOver DEF Merges, Patched
<1>8. p.on429 = FirstGiven(rule.on429, upper.on429, lower.on429, base.on429)
  BY <1>1 DEF Merges, Patched
<1> QED
  BY <1>2, <1>3, <1>4, <1>5, <1>6, <1>7, <1>8 DEF Layered

\* The empty patch changes no policy.
LEMMA EmptyPatched ==
    ASSUME NEW q
    PROVE  Patched(q, EmptyPatch, q)
<1>1. (\A d : Given({}, d) = d) /\ \A a : Over(a, {}) = a
  BY GivenFacts, OverOver
<1> QED
  BY <1>1, EmptyPatchFacts DEF Patched

\* The layers of a request, by its scope.
LayeredFor(p, s, base) ==
    Layered(p, RulePatch(s), ClassPatch(service, s.class), ClassPatch(application, s.class), base)

\* What the code makes of the merged file is what the two files say, layer by layer.
LEMMA ResolveLayered ==
    ASSUME application \in Files, service \in Files,
           compileRetryConfigFile(application), compileRetryConfigFile(service),
           NEW base, Normal(base), NEW s, NEW p,
           p = resolveRetryPolicy(s, mergeRetryConfigFiles(application, service), base)
    PROVE  LayeredFor(p, s, base)
<1> DEFINE file == mergeRetryConfigFiles(application, service)
           lower == ClassPatch(application, s.class)
           upper == ClassPatch(service, s.class)
           m == ClassPatch(file, s.class)
           q == Apply(m, base)
           found == FirstMatch(Enabled(file.rules), s)
           rule == RulePatch(s)
<1>1. /\ lower \in Patch /\ toPatch(lower) /\ upper \in Patch /\ toPatch(upper)
      /\ m = mergeRetryPolicyPatchFiles(lower, upper)
  BY ClassPatchFacts
<1>2. p = IF found = {} THEN q ELSE Apply((CHOOSE r \in found : TRUE).patch, q)
  BY DEF resolveRetryPolicy
<1>3. file.rules = mergeNamedItems(application.rules, service.rules)
  BY DEF mergeRetryConfigFiles
<1>4. NamesUnique(application.rules) /\ NamesUnique(service.rules)
  BY DEF compileRetryConfigFile
<1>5. found = FirstMatch(Enabled(mergeNamedItems(application.rules, service.rules)), s)
  BY <1>3
<1> HIDE DEF file, lower, upper, m, found, rule
<1>6. /\ found = {} => rule = EmptyPatch
      /\ found # {} => /\ rule = (CHOOSE r \in found : TRUE).patch
                       /\ \E i \in RuleHits(s) : rule = AllRules[i].patch
  BY <1>4, <1>5, RuleFound DEF rule
<1>7. m \in Patch /\ toPatch(m) /\ Merges(m, lower, upper)
  BY <1>1, MergesFacts, MergedPatch
<1>8. Normal(q) /\ Patched(q, m, base)
  BY <1>7, ApplyFacts
<1> HIDE DEF q
<1>9. Patched(p, rule, q)
  <2>1. CASE found = {}
    BY <1>2, <1>6, <2>1, EmptyPatched
  <2>2. CASE found # {}
    <3>1. PICK i \in RuleHits(s) : rule = AllRules[i].patch
      BY <1>6, <2>2
    <3>2. AllRules[i] \in ToSet(application.rules) \cup ToSet(service.rules)
      <4> DEFINE X == ToSet(application.rules) \cup ToSet(service.rules)
      <4>1. AllRules \in Seq(X) /\ i \in DOMAIN AllRules
        BY <3>1, ForceFacts DEF RuleHits, InForce
      <4> HIDE DEF X
      <4>2. AllRules[i] \in X
        BY <4>1, LenProperties, ElementOfSeq
      <4> QED
        BY <4>2 DEF X
    <3>3. rule \in Patch
      BY <3>1, <3>2, LayersAssumption
    <3>4. ~AllRules[i].disabled
      BY <3>1 DEF RuleHits
    <3>5. RuleCompiles(AllRules[i])
      BY <3>2 DEF compileRetryConfigFile, ToSet
    <3>6. toPatch(rule)
      BY <3>1, <3>4, <3>5 DEF RuleCompiles
    <3>7. p = Apply(rule, q)
      BY <1>2, <1>6, <2>2
    <3> QED
      BY <1>8, <3>3, <3>6, <3>7, ApplyFacts
  <2> QED
    BY <2>1, <2>2
<1> QED
  BY <1>7, <1>8, <1>9, PatchedTwice DEF LayeredFor, lower, upper, rule

\* Two files that merge to an empty one say nothing.
LEMMA EmptyLayered ==
    ASSUME application \in Files, service \in Files,
           mergeRetryConfigFiles(application, service) = EmptyFile,
           NEW s, NEW base
    PROVE  LayeredFor(base, s, base)
<1> DEFINE lower == ClassPatch(application, s.class)
           upper == ClassPatch(service, s.class)
           rule == RulePatch(s)
           list == AllRules
           X == ToSet(application.rules) \cup ToSet(service.rules)
<1>1. lower \in Patch /\ upper \in Patch
  BY ClassPatchFacts
<1>2. ClassPatch(EmptyFile, s.class) = EmptyPatch
  BY DEF ClassPatch, EmptyFile
<1>3. EmptyPatch = mergeRetryPolicyPatchFiles(lower, upper)
  BY <1>2, ClassPatchFacts
<1> HIDE DEF lower, upper, rule
<1>4. lower = EmptyPatch /\ upper = EmptyPatch
  BY <1>1, <1>3, MergesFacts
<1>5. list \in Seq(X)
  BY ForceFacts
<1>6. FoldLeft(Take, <<>>, list) = <<>>
  <2>1. mergeNamedItems(application.rules, service.rules) = <<>>
    BY DEF mergeRetryConfigFiles, EmptyFile
  <2> QED
    BY <2>1 DEF mergeNamedItems, AllRules
<1>7. Len(list) = 0
  <2> HIDE DEF list, X
  <2> SUFFICES ASSUME Len(list) # 0 PROVE FALSE
    OBVIOUS
  <2>1. Len(list) \in Nat
    BY <1>5, LenProperties
  <2>2. 1 \in 1 .. Len(list) /\ \A j \in 1 .. Len(list) : ~(j < 1)
    BY <2>1
  <2>3. 1 \in Firsts(list)
    BY <2>2 DEF Firsts
  <2>4. PICK o : Picks(o, list, Firsts(list), Len(list), <<>>)
    BY <1>5, <1>6, TakenPicks
  <2>5. \E p \in 1 .. Len(<<>>) : o[p] = 1
    BY <2>2, <2>3, <2>4 DEF Picks
  <2> QED
    BY <2>5
<1>8. RuleHits(s) = {}
  <2>1. DOMAIN AllRules = 1 .. 0
    BY <1>5, <1>7, LenProperties
  <2> QED
    BY <2>1 DEF RuleHits, InForce
<1>9. rule = EmptyPatch
  BY <1>8 DEF RulePatch, rule
<1>10. \A d : FirstGiven({}, {}, {}, d) = d /\ Over(d, Over(Over({}, {}), {})) = d
  BY DEF FirstGiven, Given, Over
<1> QED
  BY <1>4, <1>9, <1>10, EmptyPatchFacts DEF LayeredFor, Layered, lower, upper, rule

\* For any two files, any request and any client: a request's policy is, field by
\* field, what the first matching rule says, else the service's class policy, else
\* the application's, else the default (mergeRetryConfigFiles, compileRetryConfigFile
\* and resolveRetryPolicy, retry_config_file.go).
THEOREM PolicyLayeredAlways == Spec => []PolicyLayered
<1> DEFINE Kept == /\ application \in Files /\ service \in Files /\ request \in RequestsSeen
                   /\ status = "stored" => merged = EmptyFile /\ scope = {}
                   /\ status = "loaded" =>
                          /\ compileRetryConfigFile(application)
                          /\ compileRetryConfigFile(service)
                          /\ merged = mergeRetryConfigFiles(application, service)
                          /\ scope = {}
           MergedOfBoth == merged = mergeRetryConfigFiles(application, service)
<1>1. Init => Kept /\ PolicyLayered
  BY DEF Init, PolicyLayered
<1>2. Kept /\ PolicyLayered /\ [Next]_vars => Kept' /\ PolicyLayered'
  <2> SUFFICES ASSUME Kept, PolicyLayered, [Next]_vars PROVE Kept' /\ PolicyLayered'
    OBVIOUS
  <2>1. ASSUME application' = application, service' = service
        PROVE  /\ compileRetryConfigFile(application)' = compileRetryConfigFile(application)
               /\ compileRetryConfigFile(service)' = compileRetryConfigFile(service)
    <3>1. compileRetryConfigFile(application)' = compileRetryConfigFile(application)
      BY <2>1 DEF compileRetryConfigFile, NamesUnique, RuleCompiles, toPatch, specificity
    <3>2. compileRetryConfigFile(service)' = compileRetryConfigFile(service)
      BY <2>1 DEF compileRetryConfigFile, NamesUnique, RuleCompiles, toPatch, specificity
    <3> QED
      BY <3>1, <3>2
  <2>2. CASE Load
    <3>1. /\ application' = application /\ service' = service /\ request' = request
          /\ scope' = scope /\ status = "stored"
          /\ \/ status' = "rejected"
             \/ /\ status' = "loaded"
                /\ compileRetryConfigFile(application)
                /\ compileRetryConfigFile(service)
                /\ merged' = mergeRetryConfigFiles(application, service)
      BY <2>2 DEF Load
    <3>2. /\ compileRetryConfigFile(application)' = compileRetryConfigFile(application)
          /\ compileRetryConfigFile(service)' = compileRetryConfigFile(service)
      BY <2>1, <3>1
    <3>3. mergeRetryConfigFiles(application, service)' = mergeRetryConfigFiles(application, service)
      BY <3>1
    <3>4. Kept'
      BY <3>1, <3>2, <3>3
    <3> QED
      BY <3>1, <3>4 DEF PolicyLayered
  <2>3. ASSUME NEW s, NEW p, NEW default, NEW event, Resolved(s, p, default, event),
               MergedOfBoth => LayeredFor(p, s, BasePolicy(request, default))
        PROVE  Kept' /\ PolicyLayered'
    <3>1. /\ application' = application /\ service' = service /\ request' = request
          /\ merged' = merged /\ scope' = {s} /\ policy' = {p} /\ status' = "resolved"
          /\ classes' = {[default |-> default, event |-> event]}
      BY <2>3 DEF Resolved
    <3>2. Kept'
      BY <3>1
    <3>3. LayeredFor(p, s, BasePolicy(request, default))'
              = LayeredFor(p, s, BasePolicy(request, default))
      BY <3>1 DEF LayeredFor, RulePatch, RuleHits, InForce, AllRules
    <3>4. MergedOfBoth' = MergedOfBoth
      BY <3>1
    <3>5. MergedOfBoth' => LayeredFor(p, s, BasePolicy(request, default))'
      BY <2>3, <3>3, <3>4
    <3>6. PolicyLayered'
      BY <3>1, <3>5 DEF PolicyLayered, LayeredFor
    <3> QED
      BY <3>2, <3>6
  <2>4. ASSUME NEW client \in Clients, Resolve(client) PROVE Kept' /\ PolicyLayered'
    <3> DEFINE class == Given(ExplicitClass(request), resolveRequestClass(request, merged))
               default == requestClassFromContextOrResolver(request, {}, client, merged)
               s == resolveRetryConfigScope(request, class, merged.downstreams, merged.operations)
               base == BasePolicy(request, default)
               p == resolveRetryPolicy(s, merged, base)
    <3>1. status = "loaded" /\ Resolved(s, p, default, s.class)
      BY <2>4 DEF Resolve
    <3>2. p = resolveRetryPolicy(s, mergeRetryConfigFiles(application, service), base)
      BY <3>1
    <3>3. Normal(base)
      BY BaseNormal
    <3> HIDE DEF class, default, s, p, base
    <3>4. LayeredFor(p, s, base)
      BY <3>1, <3>2, <3>3, ResolveLayered
    <3> QED
      BY <2>3, <3>1, <3>4 DEF base
  <2>5. ASSUME NEW client \in Clients, ResolveCustom(client) PROVE Kept' /\ PolicyLayered'
    <3> DEFINE class == requestClassFromContextOrResolver(request, client.own, client, merged)
               s == resolveRetryConfigScope(request, class, <<>>, <<>>)
    <3>1. status = "stored" /\ Resolved(s, BasePolicy(request, class), class, class)
      BY <2>5 DEF ResolveCustom
    <3> HIDE DEF class, s
    <3>2. MergedOfBoth => LayeredFor(BasePolicy(request, class), s, BasePolicy(request, class))
      BY <3>1, EmptyLayered
    <3> QED
      BY <2>3, <3>1, <3>2
  <2>6. CASE UNCHANGED vars
    <3>1. /\ application' = application /\ service' = service /\ request' = request
          /\ merged' = merged /\ scope' = scope /\ policy' = policy /\ status' = status
          /\ classes' = classes
      BY <2>6 DEF vars
    <3>2. /\ compileRetryConfigFile(application)' = compileRetryConfigFile(application)
          /\ compileRetryConfigFile(service)' = compileRetryConfigFile(service)
      BY <2>1, <3>1
    <3>3. Kept'
      BY <3>1, <3>2
    <3>4. ASSUME NEW s PROVE RulePatch(s)' = RulePatch(s)
      BY <3>1 DEF RulePatch, RuleHits, InForce, AllRules
    <3>5. PolicyLayered'
      BY <3>1, <3>4 DEF PolicyLayered
    <3> QED
      BY <3>3, <3>5
  <2> QED
    BY <2>2, <2>4, <2>5, <2>6 DEF Next
<1> QED
  BY <1>1, <1>2, PTL DEF Spec
=============================================================================
