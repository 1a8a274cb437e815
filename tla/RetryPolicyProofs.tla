--------------------------- MODULE RetryPolicyProofs ---------------------------
(***************************************************************************)
(* The backoff of any policy before any retry, and what definitions by     *)
(* recursion need: induction over a set and the existence of a function    *)
(* that a first value and a step define.                                   *)
(***************************************************************************)
EXTENDS RetryPolicy, WellFoundedInduction, TLAPS

-----------------------------------------------------------------------------
(* Induction and recursion, by sets and functions *)

\* A set that holds 0 and every successor of what it holds holds every number.
LEMMA SetInduction ==
    ASSUME NEW S, 0 \in S, \A n \in Nat : n \in S => n + 1 \in S
    PROVE  \A n \in Nat : n \in S
<1> DEFINE T == Nat \ S
<1> SUFFICES ASSUME T # {} PROVE FALSE
  OBVIOUS
<1>1. PICK x \in T : \A y \in T : ~(<<y, x>> \in OpToRel(<, Nat))
  BY NatLessThanWellFounded, WFMin
<1>2. x # 0 /\ x - 1 \in Nat /\ x - 1 < x
  OBVIOUS
<1>3. <<x - 1, x>> \in OpToRel(<, Nat)
  BY <1>2 DEF OpToRel
<1>4. x - 1 \in S
  BY <1>1, <1>2, <1>3
<1> QED
  BY <1>2, <1>4

\* The first values of the recursion that starts with b and goes on by g.
IsRun(f, b, g, m) ==
    /\ f[0] = b
    /\ \A n \in 1 .. m : f[n] = g[n - 1][f[n - 1]]

LEMMA RunsExist ==
    ASSUME NEW S, NEW b \in S, NEW g \in [Nat -> [S -> S]]
    PROVE  \A m \in Nat : \E f \in [0 .. m -> S] : IsRun(f, b, g, m)
<1> DEFINE T == {m \in Nat : \E f \in [0 .. m -> S] : IsRun(f, b, g, m)}
<1>1. 0 \in T
  <2> DEFINE f == [n \in 0 .. 0 |-> b]
  <2>1. f \in [0 .. 0 -> S] /\ IsRun(f, b, g, 0)
    BY DEF IsRun
  <2> QED
    BY <2>1
<1>2. ASSUME NEW m \in Nat, m \in T PROVE m + 1 \in T
  <2>1. PICK f \in [0 .. m -> S] : IsRun(f, b, g, m)
    BY <1>2
  <2> DEFINE h == [n \in 0 .. m + 1 |-> IF n = m + 1 THEN g[m][f[m]] ELSE f[n]]
  <2>2. f[m] \in S
    OBVIOUS
  <2>3. g[m][f[m]] \in S
    BY <2>2
  <2>4. h \in [0 .. m + 1 -> S]
    BY <2>3
  <2>5. ASSUME NEW n \in 1 .. m + 1 PROVE h[n] = g[n - 1][h[n - 1]]
    <3>1. CASE n = m + 1
      <4>1. n - 1 = m /\ m \in 0 .. m + 1 /\ m # m + 1
        BY <3>1
      <4> QED
        BY <3>1, <4>1
    <3>2. CASE n \in 1 .. m
      <4>1. n # m + 1 /\ n - 1 \in 0 .. m + 1 /\ n - 1 # m + 1
        BY <3>2
      <4>2. f[n] = g[n - 1][f[n - 1]]
        BY <2>1, <3>2 DEF IsRun
      <4> QED
        BY <4>1, <4>2
    <3> QED
      BY <3>1, <3>2
  <2>6. h[0] = b
    BY <2>1 DEF IsRun
  <2>7. IsRun(h, b, g, m + 1)
    BY <2>5, <2>6 DEF IsRun
  <2> QED
    BY <2>4, <2>7
<1> HIDE DEF T
<1>3. \A m \in Nat : m \in T
  BY <1>1, <1>2, SetInduction
<1> QED
  BY <1>3 DEF T

LEMMA RunsUnique ==
    ASSUME NEW b, NEW g, NEW m \in Nat, NEW k \in Nat, NEW f, NEW h,
           IsRun(f, b, g, m), IsRun(h, b, g, k)
    PROVE  \A n \in Nat : n <= m /\ n <= k => f[n] = h[n]
<1> DEFINE T == {n \in Nat : n <= m /\ n <= k => f[n] = h[n]}
<1>1. 0 \in T
  BY DEF IsRun
<1>2. ASSUME NEW n \in Nat, n \in T PROVE n + 1 \in T
  <2> SUFFICES ASSUME n + 1 <= m, n + 1 <= k PROVE f[n + 1] = h[n + 1]
    OBVIOUS
  <2>1. f[n] = h[n]
    BY <1>2
  <2>2. (n + 1) - 1 = n /\ n + 1 \in 1 .. m /\ n + 1 \in 1 .. k
    OBVIOUS
  <2> QED
    BY <2>1, <2>2 DEF IsRun
<1> HIDE DEF T
<1>3. \A n \in Nat : n \in T
  BY <1>1, <1>2, SetInduction
<1> QED
  BY <1>3 DEF T

\* The steps of a recursion, and a function that starts with b and follows them.
StepsOn(S) == [Nat -> [S -> S]]
Follows(f, b, g) == f[0] = b /\ \A n \in Nat : f[n + 1] = g[n][f[n]]

\* A first value and a step define a function on the numbers.
LEMMA Recursion ==
    ASSUME NEW S, NEW b \in S, NEW g \in StepsOn(S)
    PROVE  \E f \in [Nat -> S] : Follows(f, b, g)
<1> DEFINE first(n) == CHOOSE f \in [0 .. n -> S] : IsRun(f, b, g, n)
           F == [n \in Nat |-> first(n)[n]]
<1>1. ASSUME NEW n \in Nat PROVE first(n) \in [0 .. n -> S] /\ IsRun(first(n), b, g, n)
  BY RunsExist DEF StepsOn
<1> HIDE DEF first
<1>2. F \in [Nat -> S]
  BY <1>1
<1>3. F[0] = b
  BY <1>1 DEF IsRun
<1>4. ASSUME NEW n \in Nat PROVE F[n + 1] = g[n][F[n]]
  <2>1. (n + 1) - 1 = n /\ n + 1 \in 1 .. n + 1 /\ n + 1 \in Nat
    OBVIOUS
  <2>2. first(n + 1)[n + 1] = g[n][first(n + 1)[n]]
    BY <1>1, <2>1 DEF IsRun
  <2>3. first(n + 1)[n] = first(n)[n]
    BY <1>1, <2>1, RunsUnique
  <2> QED
    BY <2>1, <2>2, <2>3
<1> QED
  BY <1>2, <1>3, <1>4 DEF Follows

-----------------------------------------------------------------------------
(* The base of the backoff *)

\* The durations of a policy.
Durations(p) == p.initial \in Int /\ p.maxBackoff \in Int

\* The base that follows b.
NextBase(p, b) ==
    IF b >= p.maxBackoff \/ b > p.maxBackoff - b THEN p.maxBackoff ELSE 2 * b

\* The recursive definition of Base defines what it says.
LEMMA BaseDef ==
    ASSUME NEW p, Durations(p)
    PROVE  /\ Base(p) \in [Nat -> Int]
           /\ Base(p)[0] = p.initial
           /\ \A n \in Nat : Base(p)[n + 1] = NextBase(p, Base(p)[n])
<1> DEFINE g == [n \in Nat |-> [v \in Int |-> NextBase(p, v)]]
           IsBase(b) == b = [n \in Nat |-> IF n = 0 THEN p.initial ELSE NextBase(p, b[n - 1])]
<1>1. p.initial \in Int /\ g \in StepsOn(Int)
  BY DEF Durations, NextBase, StepsOn
<1>2. PICK f \in [Nat -> Int] : Follows(f, p.initial, g)
  <2> HIDE DEF g
  <2> QED
    BY <1>1, Recursion
<1>3. f[0] = p.initial /\ \A n \in Nat : f[n + 1] = NextBase(p, f[n])
  BY <1>2 DEF Follows
<1>4. IsBase(f)
  <2>1. ASSUME NEW n \in Nat
        PROVE  f[n] = IF n = 0 THEN p.initial ELSE NextBase(p, f[n - 1])
    <3>1. n # 0 => n - 1 \in Nat /\ (n - 1) + 1 = n
      OBVIOUS
    <3> QED
      BY <1>3, <3>1
  <2> QED
    BY <2>1
<1>5. Base(p) = CHOOSE b : IsBase(b)
  BY DEF Base, NextBase
<1>6. IsBase(Base(p))
  <2> HIDE DEF IsBase
  <2> QED
    BY <1>4, <1>5
<1>7. Base(p)[0] = p.initial /\ \A n \in Nat : Base(p)[n + 1] = NextBase(p, Base(p)[n])
  <2>1. \A n \in Nat : n + 1 \in Nat /\ n + 1 # 0 /\ (n + 1) - 1 = n
    OBVIOUS
  <2> QED
    BY <1>6, <2>1
<1>8. Base(p) \in [Nat -> Int]
  <2> DEFINE T == {n \in Nat : Base(p)[n] \in Int}
  <2>1. 0 \in T
    BY <1>1, <1>7
  <2>2. ASSUME NEW n \in Nat, n \in T PROVE n + 1 \in T
    <3>1. Base(p)[n] \in Int
      BY <2>2
    <3>2. NextBase(p, Base(p)[n]) \in Int
      BY <3>1 DEF NextBase, Durations
    <3> QED
      BY <1>7, <3>2
  <2> HIDE DEF T
  <2>3. \A n \in Nat : n \in T
    BY <2>1, <2>2, SetInduction
  <2>4. Base(p) = [n \in Nat |-> Base(p)[n]]
    BY <1>6
  <2> QED
    BY <2>3, <2>4 DEF T
<1> QED
  BY <1>7, <1>8

\* The base is positive and does not sink, up to the maximum.
LEMMA BaseBounds ==
    ASSUME NEW p, Durations(p), p.initial > 0, p.maxBackoff > 0
    PROVE  \A n \in Nat : Base(p)[n] > 0 /\ Base(p)[n + 1] <= p.maxBackoff
<1> DEFINE T == {n \in Nat : Base(p)[n] > 0 /\ Base(p)[n + 1] <= p.maxBackoff}
<1>1. ASSUME NEW n \in Nat, Base(p)[n] > 0
      PROVE  Base(p)[n + 1] > 0 /\ Base(p)[n + 1] <= p.maxBackoff
  <2>1. Base(p)[n] \in Int /\ Base(p)[n + 1] = NextBase(p, Base(p)[n])
    BY BaseDef
  <2> HIDE DEF T
  <2> QED
    BY <1>1, <2>1 DEF NextBase, Durations
<1>2. 0 \in T
  BY <1>1, BaseDef
<1>3. ASSUME NEW n \in Nat, n \in T PROVE n + 1 \in T
  BY <1>1, <1>3
<1> HIDE DEF T
<1>4. \A n \in Nat : n \in T
  BY <1>2, <1>3, SetInduction
<1> QED
  BY <1>4 DEF T

\* Every wait is a number, whatever the policy and the answer.
LEMMA DelayType ==
    ASSUME NEW p, Durations(p), NEW n \in Nat, NEW o, o.retryAfter \subseteq Int
    PROVE  retryDelay(p, n, o) \subseteq Int
<1>1. Base(p)[n] \in Int
  BY BaseDef
<1>2. \A j \in 0 .. Base(p)[n] - 1 : Least(Base(p)[n] + j, p.maxBackoff) \in Int
  BY <1>1 DEF Least, Durations
<1> QED
  BY <1>1, <1>2 DEF retryDelay, Durations

LEMMA DelayBounds ==
    ASSUME NEW p, Durations(p), p.initial > 0, p.maxBackoff > 0,
           NEW n \in Nat, NEW o, o.retryAfter = {}
    PROVE  \A d \in retryDelay(p, n, o) : d \in 1 .. p.maxBackoff
<1>1. Base(p)[n] \in Int /\ Base(p)[n] > 0
  BY BaseDef, BaseBounds
<1>2. \A j \in 0 .. Base(p)[n] - 1 :
          Base(p)[n] < p.maxBackoff => Least(Base(p)[n] + j, p.maxBackoff) \in 1 .. p.maxBackoff
  BY <1>1 DEF Least, Durations
<1>3. p.maxBackoff \in 1 .. p.maxBackoff
  BY DEF Durations
<1> QED
  BY <1>1, <1>2, <1>3 DEF retryDelay, Durations

\* The policies whose sets of statuses are in Statuses.
PoliciesOver(Statuses) ==
    [retries : Int, timeout : Int, elapsed : Int, initial : Int, maxBackoff : Int,
     statuses : Statuses, on429 : BOOLEAN]

\* Whatever a policy says of its durations, negative and zero included, once it
\* is normalized it waits for a positive time and never for more than its
\* maximum, before every retry without a Retry-After: no doubling passes the
\* maximum and no jitter does (retry.go:166-183, 224-249).
THEOREM DelayWithinMaximum ==
    ASSUME NEW Statuses, NEW q \in PoliciesOver(Statuses),
           NEW n \in Nat, NEW o, o.retryAfter = {}
    PROVE  \A d \in retryDelay(normalizeRetryPolicy(q), n, o) :
               d \in 1 .. normalizeRetryPolicy(q).maxBackoff
<1> DEFINE p == normalizeRetryPolicy(q)
<1>1. /\ p.initial = OrDefault(q.initial, DefaultInitial)
      /\ p.maxBackoff = OrDefault(q.maxBackoff, DefaultMaxBackoff)
  BY DEF normalizeRetryPolicy, PoliciesOver
<1>2. q.initial \in Int /\ q.maxBackoff \in Int
  BY DEF PoliciesOver
<1>3. Durations(p) /\ p.initial > 0 /\ p.maxBackoff > 0
  BY <1>1, <1>2, DefaultsAssumption DEF OrDefault, Durations
<1> HIDE DEF p
<1>4. \A d \in retryDelay(p, n, o) : d \in 1 .. p.maxBackoff
  BY <1>3, DelayBounds
<1> QED
  BY <1>4 DEF p
=============================================================================
