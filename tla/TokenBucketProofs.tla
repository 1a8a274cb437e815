-------------------------- MODULE TokenBucketProofs --------------------------
(***************************************************************************)
(* TokenBucket: types, and the bound on what retries can spend, for every  *)
(* set of requests, keys and parameters.                                   *)
(***************************************************************************)
EXTENDS TokenBucket, FiniteSetTheorems, TLAPS

\* The parameters of an enabled budget are positive integers.
LEMMA ConfigFacts ==
    ASSUME NEW c \in Configs
    PROVE  /\ c.capacity \in Nat /\ c.cost \in Nat /\ c.increment \in Nat
           /\ Enabled(c) => c.capacity > 0 /\ c.cost > 0 /\ c.increment > 0
  BY ConfigsAssumption DEF BudgetConfig

LEMMA KeyFacts == ASSUME NEW r \in Requests PROVE KeyOf[r] \in Keys
  BY KeysAssumption

\* Replenishing stays in the naturals and never adds more than the amount.
LEMMA ReplenishedFacts ==
    ASSUME NEW b \in Nat, NEW amount \in Nat, NEW capacity \in Nat
    PROVE  /\ Replenished(b, amount, capacity) \in Nat
           /\ Replenished(b, amount, capacity) <= b + amount
           /\ Replenished(b, amount, capacity) <= capacity
  BY DEF Replenished

-----------------------------------------------------------------------------
(* Counting reserved units *)

LEMMA NoReservationType == NoReservation \in Reservation /\ NoReservation.cost = 0
  BY DEF NoReservation, Reservation

\* When a request without a reservation takes one, it adds as many units as the
\* reservation costs, on its own key only.
LEMMA UnitsAdded ==
    ASSUME NEW old \in [Requests -> Reservation],
           NEW new \in [Requests -> Reservation],
           NEW r \in Requests, NEW k,
           \A q \in Requests \ {r} : new[q] = old[q],
           old[r].cost = 0,
           IsFiniteSet(Units(old, k))
    PROVE  /\ IsFiniteSet(Units(new, k))
           /\ Cardinality(Units(new, k)) =
                  Cardinality(Units(old, k)) + (IF KeyOf[r] = k THEN new[r].cost ELSE 0)
<1> DEFINE V == {r} \X (1 .. new[r].cost)
<1>1. new[r].cost \in Nat
  BY DEF Reservation
<1>2. Cardinality(Units(old, k)) \in Nat
  BY FS_CardinalityType
<1>3. CASE KeyOf[r] # k
  <2>1. Units(new, k) = Units(old, k)
    BY <1>3 DEF Units
  <2> QED BY <2>1, <1>3, <1>2
<1>4. CASE KeyOf[r] = k
  <2>0. 1 .. old[r].cost = {}
    OBVIOUS
  <2>1. Units(new, k) = Units(old, k) \cup V
    BY <1>4, <2>0 DEF Units
  <2>2. Units(old, k) \cap V = {}
    BY <2>0 DEF Units
  <2>3. IsFiniteSet(V) /\ Cardinality(V) = new[r].cost
    <3> DEFINE I == 1 .. new[r].cost
    <3>1. IsFiniteSet({r}) /\ Cardinality({r}) = 1
      BY FS_Singleton
    <3>2. IsFiniteSet(I) /\ Cardinality(I) = new[r].cost
      BY <1>1, FS_Interval
    <3> HIDE DEF I
    <3>3. IsFiniteSet({r} \X I) /\ Cardinality({r} \X I) = 1 * Cardinality(I)
      BY <3>1, <3>2, FS_Product
    <3> QED BY <3>2, <3>3, <1>1 DEF I
  <2> HIDE DEF V
  <2>4. /\ IsFiniteSet(Units(old, k) \cup V)
        /\ Cardinality(Units(old, k) \cup V) =
            Cardinality(Units(old, k)) + Cardinality(V)
                - Cardinality(Units(old, k) \cap V)
    BY <2>3, FS_Union
  <2>5. Cardinality(Units(old, k) \cap V) = 0
    BY <2>2, FS_EmptySet
  <2>6. /\ IsFiniteSet(Units(new, k))
        /\ Cardinality(Units(new, k)) =
               Cardinality(Units(old, k)) + Cardinality(V) - 0
    BY <2>1, <2>4, <2>5
  <2> QED BY <2>3, <2>6, <1>1, <1>2, <1>4
<1> QED BY <1>3, <1>4

\* When a request drops its reservation, that many units are gone again.
LEMMA UnitsRemoved ==
    ASSUME NEW old \in [Requests -> Reservation],
           NEW new \in [Requests -> Reservation],
           NEW r \in Requests, NEW k,
           \A q \in Requests \ {r} : new[q] = old[q],
           new[r].cost = 0,
           IsFiniteSet(Units(old, k))
    PROVE  /\ IsFiniteSet(Units(new, k))
           /\ Cardinality(Units(old, k)) =
                  Cardinality(Units(new, k)) + (IF KeyOf[r] = k THEN old[r].cost ELSE 0)
<1>1. Units(new, k) \subseteq Units(old, k)
  <2>1. 1 .. new[r].cost = {}
    OBVIOUS
  <2> QED BY <2>1 DEF Units
<1>2. IsFiniteSet(Units(new, k))
  BY <1>1, FS_Subset
<1> QED BY <1>2, UnitsAdded

-----------------------------------------------------------------------------
(* Types *)

\* The balance of every key stays a natural number, and reservations exist
\* exactly while a granted retry waits to start (TokenBucket's type invariant).
THEOREM BucketTypeCorrect == Spec => []TypeOK
<1>1. Init => TypeOK
  BY NoReservationType DEF Init, TypeOK, Stages
<1>2. TypeOK /\ [Next]_vars => TypeOK'
  <2> SUFFICES ASSUME TypeOK, [Next]_vars
               PROVE  TypeOK'
    OBVIOUS
  <2> USE DEF TypeOK, Stages, data
  <2>1. ASSUME NEW r \in Requests, NEW c \in Configs, Open(r, c)
       PROVE  TypeOK'
    BY <2>1, ConfigFacts, KeyFacts DEF Open
  <2>2. ASSUME NEW r \in Requests, NEW c \in Configs, Trim(r, c)
       PROVE  TypeOK'
    BY <2>2, ConfigFacts, KeyFacts DEF Trim
  <2>3. ASSUME NEW r \in Requests, NEW c \in Configs, Bypass(r, c)
       PROVE  TypeOK'
    BY <2>3, ConfigFacts DEF Bypass
  <2>4. ASSUME NEW r \in Requests, NEW c \in Configs, Grant(r, c)
       PROVE  TypeOK'
    BY <2>4, ConfigFacts, KeyFacts DEF Grant, Reservation, NoReservation
  <2>5. ASSUME NEW r \in Requests, NEW c \in Configs, Deny(r, c)
       PROVE  TypeOK'
    BY <2>5, ConfigFacts DEF Deny
  <2>6. ASSUME NEW r \in Requests, NEW c \in Configs, Credit(r, c)
       PROVE  TypeOK'
    <3> DEFINE b == Replenished(balance[KeyOf[r]], c.increment, c.capacity)
    <3>1. KeyOf[r] \in Keys /\ c.increment \in Nat
      BY ConfigFacts, KeyFacts
    <3>2. b \in Nat
      BY <3>1, ConfigFacts, ReplenishedFacts
    <3>3. /\ stage' = [stage EXCEPT ![r] = "closed"]
          /\ UNCHANGED <<entries, opened, spent, reservation, suppressed>>
          /\ stage[r] = "final"
      BY <2>6 DEF Credit
    <3>4. CASE Enabled(c) /\ KeyOf[r] \in entries
      <4>1. /\ balance' = [balance EXCEPT ![KeyOf[r]] = b]
            /\ earned' = [earned EXCEPT ![KeyOf[r]] = @ + c.increment]
        BY <2>6, <3>4 DEF Credit
      <4> HIDE DEF b
      <4> QED BY <3>1, <3>2, <3>3, <3>4, <4>1
    <3>5. CASE ~(Enabled(c) /\ KeyOf[r] \in entries)
      <4>1. UNCHANGED <<balance, earned>>
        BY <2>6, <3>5 DEF Credit
      <4> QED BY <3>3, <4>1
    <3> QED BY <3>4, <3>5
  <2>7. ASSUME NEW r \in Requests, Commit(r)
       PROVE  TypeOK'
    BY <2>7, KeyFacts, NoReservationType DEF Commit, Reservation
  <2>8. ASSUME NEW r \in Requests, Refund(r)
       PROVE  TypeOK'
    <3> DEFINE b == Replenished(balance[KeyOf[r]], reservation[r].cost,
                                reservation[r].capacity)
    <3>1. KeyOf[r] \in Keys
      BY KeyFacts
    <3>2. b \in Nat
      BY <3>1, ReplenishedFacts DEF Reservation
    <3>3. /\ reservation' = [reservation EXCEPT ![r] = NoReservation]
          /\ stage' = [stage EXCEPT ![r] = "closed"]
          /\ UNCHANGED <<entries, opened, spent, earned, suppressed>>
      BY <2>8 DEF Refund
    <3>4. \/ balance' = balance
          \/ /\ balance' = [balance EXCEPT ![KeyOf[r]] = b]
             /\ KeyOf[r] \in entries
      BY <2>8 DEF Refund
    <3> HIDE DEF b
    <3> QED BY <3>1, <3>2, <3>3, <3>4, NoReservationType
  <2>9. ASSUME NEW r \in Requests, Stop(r)
       PROVE  TypeOK'
    BY <2>9 DEF Stop
  <2>10. ASSUME NEW r \in Requests, Close(r)
       PROVE  TypeOK'
    BY <2>10 DEF Close
  <2>11. CASE UNCHANGED vars
    BY <2>11 DEF vars
  <2> QED BY <2>1, <2>2, <2>3, <2>4, <2>5, <2>6, <2>7, <2>8, <2>9, <2>10, <2>11 DEF Next
<1> QED BY <1>1, <1>2, PTL DEF Spec

-----------------------------------------------------------------------------
(* The bound on spending *)

\* The bound is inductive once it is known that reservations hold finitely many
\* units and that a key without an entry was never opened.
Bounded ==
    /\ \A k \in Keys : IsFiniteSet(HeldUnits(k))
    /\ \A k \in Keys \ entries : opened[k] = 0
    /\ SpendBounded

\* What Bounded says of one key.
BoundedAt(k) ==
    /\ IsFiniteSet(HeldUnits(k))
    /\ k \notin entries => opened[k] = 0
    /\ balance[k] + Cardinality(HeldUnits(k)) + spent[k] <= opened[k] + earned[k]

LEMMA BoundedByKey == Bounded <=> \A k \in Keys : BoundedAt(k)
  BY DEF Bounded, BoundedAt, SpendBounded

\* A step that leaves the reservations alone keeps the bound when it adds no
\* more to a balance than to what was opened and earned.
LEMMA BoundKept ==
    ASSUME TypeOK, TypeOK', NEW k \in Keys, BoundedAt(k),
           UNCHANGED <<reservation, spent>>,
           entries \subseteq entries',
           k \in entries' \/ opened'[k] = opened[k],
           balance'[k] - balance[k] <=
               (opened'[k] + earned'[k]) - (opened[k] + earned[k])
    PROVE  BoundedAt(k)'
<1>1. HeldUnits(k)' = HeldUnits(k)
  BY DEF HeldUnits, Units
<1>2. Cardinality(HeldUnits(k)) \in Nat
  BY FS_CardinalityType DEF BoundedAt
<1> DEFINE n == Cardinality(HeldUnits(k))
<1>3. BoundedAt(k)' <=> /\ IsFiniteSet(HeldUnits(k))
                        /\ k \notin entries' => opened'[k] = 0
                        /\ balance'[k] + n + spent'[k] <= opened'[k] + earned'[k]
  BY <1>1 DEF BoundedAt
<1>4. /\ balance[k] \in Nat /\ spent[k] \in Nat /\ opened[k] \in Nat
      /\ earned[k] \in Nat /\ balance'[k] \in Nat /\ opened'[k] \in Nat
      /\ earned'[k] \in Nat
  BY DEF TypeOK
<1>5. /\ IsFiniteSet(HeldUnits(k))
      /\ k \notin entries => opened[k] = 0
      /\ balance[k] + n + spent[k] <= opened[k] + earned[k]
  BY DEF BoundedAt
<1> HIDE DEF n
<1>6. n \in Nat
  BY <1>2 DEF n
<1>7. balance'[k] + n + spent'[k] <= opened'[k] + earned'[k]
  <2>1. spent'[k] = spent[k]
    OBVIOUS
  <2> QED BY <1>4, <1>5, <1>6, <2>1
<1> QED BY <1>3, <1>5, <1>7

\* Through every interleaving of requests and every choice of parameters, the
\* balance left, the units reserved and the units spent on retries stay within
\* what the entry was created with plus the successes recorded.
THEOREM BucketSpendBounded == Spec => []SpendBounded
<1>1. Init => Bounded
  <2> SUFFICES ASSUME Init, NEW k \in Keys
               PROVE  BoundedAt(k)
    BY BoundedByKey
  <2>1. HeldUnits(k) = {}
    <3>1. \A r \in Requests : 1 .. reservation[r].cost = {}
      BY NoReservationType DEF Init
    <3> QED BY <3>1 DEF HeldUnits, Units
  <2>2. IsFiniteSet({}) /\ Cardinality({}) = 0
    BY FS_EmptySet
  <2> QED BY <2>1, <2>2 DEF Init, BoundedAt
<1>2. TypeOK /\ TypeOK' /\ Bounded /\ [Next]_vars => Bounded'
  <2> SUFFICES ASSUME TypeOK, TypeOK', Bounded, [Next]_vars,
                      NEW k \in Keys
               PROVE  BoundedAt(k)'
    BY BoundedByKey DEF Bounded, BoundedAt, SpendBounded
  <2>a. BoundedAt(k)
    BY BoundedByKey
  <2> DEFINE n == Cardinality(HeldUnits(k))
  <2>b. /\ IsFiniteSet(HeldUnits(k)) /\ n \in Nat
        /\ k \notin entries => opened[k] = 0
        /\ balance[k] + n + spent[k] <= opened[k] + earned[k]
    BY <2>a, FS_CardinalityType DEF BoundedAt
  <2>c. /\ balance[k] \in Nat /\ spent[k] \in Nat /\ opened[k] \in Nat
        /\ earned[k] \in Nat /\ balance'[k] \in Nat /\ spent'[k] \in Nat
        /\ opened'[k] \in Nat /\ earned'[k] \in Nat
        /\ reservation \in [Requests -> Reservation]
        /\ reservation' \in [Requests -> Reservation]
        /\ k \notin entries => balance[k] = 0
    BY DEF TypeOK
  <2>d. ASSUME NEW m, HeldUnits(k)' = m, IsFiniteSet(m),
               balance'[k] + Cardinality(m) + spent'[k] <= opened[k] + earned[k],
               UNCHANGED <<entries, opened, earned>>
        PROVE  BoundedAt(k)'
    BY <2>b, <2>d DEF BoundedAt
  <2>1. ASSUME NEW r \in Requests, NEW c \in Configs, Open(r, c)
        PROVE  BoundedAt(k)'
    <3>1. balance'[k] - balance[k] <=
              (opened'[k] + earned'[k]) - (opened[k] + earned[k])
      BY <2>1, <2>b, <2>c, ConfigFacts, KeyFacts DEF Open, TypeOK
    <3>2. k \in entries' \/ opened'[k] = opened[k]
      BY <2>1, KeyFacts DEF Open, TypeOK
    <3> QED BY <2>1, <2>a, <3>1, <3>2, BoundKept DEF Open
  <2>2. ASSUME NEW r \in Requests, NEW c \in Configs, Trim(r, c)
        PROVE  BoundedAt(k)'
    <3>1. balance'[k] - balance[k] <=
              (opened'[k] + earned'[k]) - (opened[k] + earned[k])
      BY <2>2, <2>c, ConfigFacts, KeyFacts DEF Trim, TypeOK
    <3> QED BY <2>2, <2>a, <3>1, BoundKept DEF Trim
  <2>3. ASSUME NEW r \in Requests, NEW c \in Configs, Grant(r, c)
        PROVE  BoundedAt(k)'
    <3> DEFINE m == Units(reservation', k)
    <3>1. c.cost \in Nat
      BY ConfigFacts
    <3>2. reservation[r].cost = 0
      BY <2>3, NoReservationType DEF Grant, TypeOK
    <3>3. /\ \A q \in Requests \ {r} : reservation'[q] = reservation[q]
          /\ reservation'[r].cost = c.cost
      BY <2>3, <2>c DEF Grant
    <3>4. HeldUnits(k)' = m
      BY DEF HeldUnits
    <3>5. /\ IsFiniteSet(m)
          /\ Cardinality(m) =
                 Cardinality(Units(reservation, k))
                     + (IF KeyOf[r] = k THEN reservation'[r].cost ELSE 0)
      BY <2>b, <2>c, <3>2, <3>3, UnitsAdded DEF HeldUnits
    <3>6. Cardinality(m) = n + (IF KeyOf[r] = k THEN c.cost ELSE 0)
      BY <3>3, <3>5 DEF HeldUnits
    <3>7. CASE KeyOf[r] = k
      <4>1. /\ balance'[k] = balance[k] - c.cost
            /\ UNCHANGED <<entries, opened, earned, spent>>
        BY <2>3, <3>7 DEF Grant, TypeOK
      <4> HIDE DEF m, n
      <4>2. balance'[k] + Cardinality(m) + spent'[k] <= opened[k] + earned[k]
        BY <4>1, <3>1, <3>6, <3>7, <2>b, <2>c
      <4> QED BY <4>1, <4>2, <3>4, <3>5, <2>d
    <3>8. CASE KeyOf[r] # k
      <4>1. /\ balance'[k] = balance[k]
            /\ UNCHANGED <<entries, opened, earned, spent>>
        BY <2>3, <3>8 DEF Grant, TypeOK
      <4> HIDE DEF m
      <4>2. Cardinality(m) = n
        BY <3>6, <3>8, <2>b
      <4> HIDE DEF n
      <4>3. balance'[k] + Cardinality(m) + spent'[k] <= opened[k] + earned[k]
        BY <4>1, <4>2, <2>b
      <4> QED BY <4>1, <4>3, <3>4, <3>5, <2>d
    <3> QED BY <3>7, <3>8
  <2>4. ASSUME NEW r \in Requests, Commit(r)
        PROVE  BoundedAt(k)'
    <3> DEFINE cost == reservation[r].cost
               m == Units(reservation', k)
    <3>1. cost \in Nat /\ reservation[r].capacity \in Nat
      BY <2>c DEF Reservation
    <3>2. HeldUnits(k)' = m
      BY DEF HeldUnits
    <3>3. IsFiniteSet(m) /\ n = Cardinality(m) + (IF KeyOf[r] = k THEN cost ELSE 0)
      <4>1. IsFiniteSet(Units(reservation, k)) /\ n = Cardinality(Units(reservation, k))
        BY <2>b DEF HeldUnits
      <4>2. /\ \A q \in Requests \ {r} : reservation'[q] = reservation[q]
            /\ reservation'[r].cost = 0
        BY <2>4, <2>c, NoReservationType DEF Commit
      <4>3. /\ IsFiniteSet(m)
            /\ Cardinality(Units(reservation, k)) =
                   Cardinality(m) + (IF KeyOf[r] = k THEN reservation[r].cost ELSE 0)
        BY <4>1, <4>2, <2>c, UnitsRemoved
      <4> QED BY <4>1, <4>3
    <3>4. Cardinality(m) \in Nat
      BY <3>3, FS_CardinalityType
    <3>5. UNCHANGED <<entries, opened, earned>>
      BY <2>4 DEF Commit
    <3>6. /\ balance'[k] = balance[k]
          /\ spent'[k] = spent[k] + (IF KeyOf[r] = k THEN cost ELSE 0)
      BY <2>4, <3>1, <2>c DEF Commit, TypeOK
    <3> HIDE DEF m, n, cost
    <3>7. balance'[k] + Cardinality(m) + spent'[k] <= opened[k] + earned[k]
      BY <3>1, <3>3, <3>4, <3>6, <2>b, <2>c
    <3> QED BY <3>2, <3>3, <3>5, <3>7, <2>d
  <2>5. ASSUME NEW r \in Requests, Refund(r)
        PROVE  BoundedAt(k)'
    <3> DEFINE cost == reservation[r].cost
               m == Units(reservation', k)
    <3>1. cost \in Nat /\ reservation[r].capacity \in Nat
      BY <2>c DEF Reservation
    <3>2. HeldUnits(k)' = m
      BY DEF HeldUnits
    <3>3. IsFiniteSet(m) /\ n = Cardinality(m) + (IF KeyOf[r] = k THEN cost ELSE 0)
      <4>1. IsFiniteSet(Units(reservation, k)) /\ n = Cardinality(Units(reservation, k))
        BY <2>b DEF HeldUnits
      <4>2. /\ \A q \in Requests \ {r} : reservation'[q] = reservation[q]
            /\ reservation'[r].cost = 0
        BY <2>5, <2>c, NoReservationType DEF Refund
      <4>3. /\ IsFiniteSet(m)
            /\ Cardinality(Units(reservation, k)) =
                   Cardinality(m) + (IF KeyOf[r] = k THEN reservation[r].cost ELSE 0)
        BY <4>1, <4>2, <2>c, UnitsRemoved
      <4> QED BY <4>1, <4>3
    <3>4. Cardinality(m) \in Nat
      BY <3>3, FS_CardinalityType
    <3>5. UNCHANGED <<entries, opened, earned>>
      BY <2>5 DEF Refund
    <3>6. /\ balance'[k] <= balance[k] + (IF KeyOf[r] = k THEN cost ELSE 0)
          /\ spent'[k] = spent[k]
      <4>1. balance[KeyOf[r]] \in Nat
        BY KeyFacts DEF TypeOK
      <4>2. Replenished(balance[KeyOf[r]], cost, reservation[r].capacity)
                <= balance[KeyOf[r]] + cost
        BY <4>1, <3>1, ReplenishedFacts
      <4>3. balance \in [Keys -> Nat] /\ KeyOf[r] \in Keys
        BY KeyFacts DEF TypeOK
      <4>4. \/ balance' = balance
            \/ balance' = [balance EXCEPT ![KeyOf[r]] =
                   Replenished(balance[KeyOf[r]], cost, reservation[r].capacity)]
        BY <2>5 DEF Refund
      <4>5. spent' = spent
        BY <2>5 DEF Refund
      <4> HIDE DEF cost
      <4> QED BY <4>1, <4>2, <4>3, <4>4, <4>5, <3>1, <2>c
    <3> HIDE DEF m, n, cost
    <3>7. balance'[k] + Cardinality(m) + spent'[k] <= opened[k] + earned[k]
      BY <3>1, <3>3, <3>4, <3>6, <2>b, <2>c
    <3> QED BY <3>2, <3>3, <3>5, <3>7, <2>d
  <2>6. ASSUME NEW r \in Requests, NEW c \in Configs, Credit(r, c)
        PROVE  BoundedAt(k)'
    <3> DEFINE b == Replenished(balance[KeyOf[r]], c.increment, c.capacity)
    <3>1. balance \in [Keys -> Nat] /\ earned \in [Keys -> Nat] /\ KeyOf[r] \in Keys
      BY KeyFacts DEF TypeOK
    <3>2. c.increment \in Nat /\ c.capacity \in Nat
      BY ConfigFacts
    <3>3. b <= balance[KeyOf[r]] + c.increment /\ b \in Nat
      BY <3>1, <3>2, ReplenishedFacts
    <3>4. UNCHANGED <<entries, opened, spent, reservation>>
      BY <2>6 DEF Credit
    <3>5. balance'[k] - balance[k] <=
              (opened'[k] + earned'[k]) - (opened[k] + earned[k])
      <4>1. \/ UNCHANGED <<balance, earned>>
            \/ /\ balance' = [balance EXCEPT ![KeyOf[r]] = b]
               /\ earned' = [earned EXCEPT ![KeyOf[r]] = @ + c.increment]
        BY <2>6 DEF Credit
      <4> HIDE DEF b
      <4> QED BY <4>1, <3>1, <3>2, <3>3, <3>4, <2>c
    <3> QED BY <2>a, <3>4, <3>5, BoundKept
  <2>7. ASSUME UNCHANGED <<data, reservation>>
        PROVE  BoundedAt(k)'
    <3>1. balance'[k] - balance[k] <=
              (opened'[k] + earned'[k]) - (opened[k] + earned[k])
      BY <2>7, <2>c DEF data
    <3> QED BY <2>7, <2>a, <3>1, BoundKept DEF data
  <2>8. ASSUME NEW r \in Requests,
               Stop(r) \/ Close(r) \/ \E c \in Configs : Bypass(r, c) \/ Deny(r, c)
        PROVE  UNCHANGED <<data, reservation>>
    BY <2>8 DEF Stop, Close, Bypass, Deny
  <2>9. CASE UNCHANGED vars
    BY <2>7, <2>9 DEF vars
  <2> QED BY <2>1, <2>2, <2>3, <2>4, <2>5, <2>6, <2>7, <2>8, <2>9 DEF Next
<1>3. Bounded => SpendBounded
  BY DEF Bounded
<1> QED BY <1>1, <1>2, <1>3, BucketTypeCorrect, PTL DEF Spec
=============================================================================
