-------------------------- MODULE RateLimiter_proofs --------------------------
(***************************************************************************)
(* Theorems about RateLimiter, for any rate, clock resolution, number of   *)
(* tenants and sweep period.                                               *)
(***************************************************************************)
EXTENDS RateLimiter, TLAPS

(* What a span of time earns is a natural number of tokens, worth no more  *)
(* than the span and within one token of it.                               *)
LEMMA RefillBounds ==
  ASSUME NEW e \in Nat
  PROVE  /\ Refill(e) \in Nat
         /\ Refill(e) * Minute <= e * Rpm
         /\ Refill(e) = 0 => e * Rpm < Minute
<1> DEFINE a == e * Rpm
<1>1. a \in Nat
  BY LimiterAssumption
<1>2. \A x \in Nat, m \in Nat \ {0} :
        x \div m \in Nat /\ (x \div m) * m <= x /\ (x \div m = 0 => x < m)
  OBVIOUS
<1>3. QED
  BY <1>1, <1>2, LimiterAssumption DEF Refill

(* The count of checks wraps around. *)
LEMMA CountWraps == \A n \in Nat : (n + 1) % SweepEvery \in 0 .. SweepEvery - 1
<1>1. \A x \in Nat, m \in Nat \ {0} : x % m \in 0 .. m - 1
  OBVIOUS
<1>2. QED
  BY <1>1, LimiterAssumption

(* A bucket credited at the present time holds a natural number of tokens. *)
LEMMA CreditedBounds ==
  ASSUME now \in Nat, NEW b \in [refill: Nat, tokens: Nat], b.refill <= now
  PROVE  /\ Credited(b) \in Nat
         /\ Credited(b) <= Rpm
         /\ Credited(b) <= b.tokens + Refill(now - b.refill)
         /\ Refill(now - b.refill) \in Nat
         /\ Refill(now - b.refill) * Minute <= (now - b.refill) * Rpm
         /\ Credited(b) = 0 => b.tokens = 0 /\ (now - b.refill) * Rpm < Minute
<1>1. now - b.refill \in Nat
  OBVIOUS
<1>2. QED
  BY <1>1, RefillBounds, LimiterAssumption DEF Credited, Least

(* The bucket a check works on: the one stored, or a fresh one when there  *)
(* is none; a sweep takes no bucket away, because none is full.            *)
LEMMA BucketFacts ==
  ASSUME TypeOK, Ledger, NEW k \in Tenants
  PROVE  /\ Swept = buckets
         /\ Bucket(k) \in [refill: Nat, tokens: Nat]
         /\ Bucket(k).refill <= now
         /\ buckets[k] = None => Bucket(k) = Fresh
         /\ buckets[k] # None => Bucket(k) = buckets[k]
<1>1. \A j \in Tenants : ~Stale(j)
  <2> SUFFICES ASSUME NEW j \in Tenants, buckets[j] # None, buckets[j].tokens = Rpm
               PROVE  FALSE
    BY DEF Stale
  <2>1. buckets[j].tokens < Rpm
    BY DEF Ledger
  <2>2. QED
    BY <2>1, LimiterAssumption
<1>2. Swept = buckets
  BY <1>1 DEF Swept, TypeOK
<1>3. QED
  BY <1>2, LimiterAssumption DEF Bucket, Fresh, TypeOK, Ledger

(* The window opened last is charged what it was granted. *)
LEMMA LedgerStep == TypeOK /\ Ledger /\ [Next]_vars => TypeOK' /\ Ledger'
<1> SUFFICES ASSUME TypeOK, Ledger, [Next]_vars
             PROVE  TypeOK' /\ Ledger'
  OBVIOUS
<1> USE LimiterAssumption
<1>1. ASSUME NEW k \in Tenants, Allow(k) PROVE TypeOK' /\ Ledger'
  <2> DEFINE b == Bucket(k)
             c == Credited(b)
  <2>1. /\ b \in [refill: Nat, tokens: Nat]
        /\ b.refill <= now
        /\ buckets[k] = None => b = Fresh
        /\ buckets[k] # None => b = buckets[k]
        /\ buckets' = [buckets EXCEPT ![k] = [refill |-> now, tokens |-> c - 1]]
    BY <1>1, BucketFacts DEF Allow
  <2>2. /\ c \in Nat /\ c > 0 /\ c <= Rpm
        /\ c <= b.tokens + Refill(now - b.refill)
        /\ Refill(now - b.refill) \in Nat
        /\ Refill(now - b.refill) * Minute <= (now - b.refill) * Rpm
    BY <1>1, <2>1, CreditedBounds DEF Allow, TypeOK
  <2>3. TypeOK'
    <3>1. [refill |-> now, tokens |-> c - 1] \in [refill: Nat, tokens: Nat]
      BY <2>2 DEF TypeOK
    <3>2. checks' \in 0 .. SweepEvery - 1
      BY <1>1, CountWraps DEF Allow, TypeOK
    <3>3. /\ granted' = [granted EXCEPT ![k] = @ + 1]
          /\ latest' = [latest EXCEPT ![k] = now]
          /\ UNCHANGED <<now, start>>
      BY <1>1 DEF Allow
    <3> HIDE DEF c
    <3>4. QED
      BY <2>1, <3>1, <3>2, <3>3 DEF TypeOK
  <2>4. ASSUME granted[k] > 0
        PROVE  (granted[k] + 1) * Minute + (c - 1) * Minute
                 <= Rpm * Minute + Rpm * (now - start[k])
    <3> DEFINE r == Refill(now - b.refill)
    <3>1. /\ buckets[k] # None /\ b = buckets[k]
          /\ granted[k] * Minute + b.tokens * Minute
               <= Rpm * Minute + Rpm * (b.refill - start[k])
      BY <2>1, <2>4 DEF Ledger, TypeOK
    <3>2. c * Minute <= b.tokens * Minute + r * Minute
      BY <2>1, <2>2
    <3>3. /\ granted[k] \in Nat /\ start[k] \in Nat /\ now \in Nat
          /\ b.refill \in Nat /\ b.tokens \in Nat
      BY <2>1 DEF TypeOK
    <3>4. Rpm * (now - start[k])
            = Rpm * (b.refill - start[k]) + (now - b.refill) * Rpm
      BY <3>3
    <3>5. (granted[k] + 1) * Minute + (c - 1) * Minute
            = granted[k] * Minute + c * Minute
      BY <2>2, <3>3
    <3> HIDE DEF r, b, c
    <3>6. QED
      BY <2>2, <3>1, <3>2, <3>3, <3>4, <3>5 DEF r
  <2>5. ASSUME granted[k] = 0
        PROVE  1 * Minute + (c - 1) * Minute
                 <= Rpm * Minute + Rpm * (now - start[k])
    <3>1. c * Minute <= Rpm * Minute
      BY <2>2
    <3>2. 0 <= Rpm * (now - start[k])
      BY DEF Ledger, TypeOK
    <3>3. 1 * Minute + (c - 1) * Minute = c * Minute
      BY <2>2
    <3>4. /\ c * Minute \in Int /\ Rpm * Minute \in Int
          /\ Rpm * (now - start[k]) \in Int
      BY <2>2 DEF TypeOK
    <3>5. \A x, cap, a \in Int : x <= cap /\ 0 <= a => x <= cap + a
      OBVIOUS
    <3> HIDE DEF c
    <3>6. QED
      BY <3>1, <3>2, <3>3, <3>4, <3>5
  <2>6. Ledger'
    <3> SUFFICES ASSUME NEW j \in Tenants PROVE
          /\ start'[j] <= now'
          /\ buckets'[j] # None =>
               /\ buckets'[j].refill <= now'
               /\ buckets'[j].tokens < Rpm
               /\ latest'[j] = buckets'[j].refill
          /\ buckets'[j] = None => granted'[j] = 0
          /\ granted'[j] > 0 =>
               /\ start'[j] <= buckets'[j].refill
               /\ granted'[j] * Minute + buckets'[j].tokens * Minute
                    <= Rpm * Minute + Rpm * (buckets'[j].refill - start'[j])
      BY DEF Ledger
    <3>1. UNCHANGED <<now, start>>
      BY <1>1 DEF Allow
    <3>2. CASE j # k
      BY <1>1, <2>1, <3>1, <3>2 DEF Allow, TypeOK, Ledger
    <3>3. CASE j = k
      <4>1. /\ buckets'[k] = [refill |-> now, tokens |-> c - 1]
            /\ latest'[k] = now
            /\ granted'[k] = granted[k] + 1
        BY <1>1, <2>1 DEF Allow, TypeOK
      <4>2. granted[k] \in Nat /\ start[k] <= now
        BY DEF TypeOK, Ledger
      <4>3. (granted[k] + 1) * Minute + (c - 1) * Minute
              <= Rpm * Minute + Rpm * (now - start[k])
        BY <2>4, <2>5, <4>2
      <4>4. [refill |-> now, tokens |-> c - 1] # None
        BY <2>3, <2>2 DEF TypeOK
      <4> HIDE DEF c
      <4>5. latest'[k] = buckets'[k].refill /\ buckets'[k].tokens < Rpm
        BY <2>2, <4>1
      <4>6. QED
        BY <3>1, <3>3, <4>1, <4>2, <4>3, <4>4, <4>5 DEF TypeOK
    <3>4. QED
      BY <3>2, <3>3
  <2>7. QED
    BY <2>3, <2>6
<1>2. ASSUME NEW k \in Tenants, Deny(k) PROVE TypeOK' /\ Ledger'
  <2> DEFINE b == Bucket(k)
             c == Credited(b)
  <2>1. /\ b \in [refill: Nat, tokens: Nat]
        /\ b.refill <= now
        /\ buckets[k] = None => b = Fresh
        /\ buckets[k] # None => b = buckets[k]
        /\ buckets' = [buckets EXCEPT ![k] = [refill |-> b.refill, tokens |-> c]]
    BY <1>2, BucketFacts DEF Deny
  <2>2. c = 0 /\ b.tokens = 0
    BY <1>2, <2>1, CreditedBounds DEF Deny, TypeOK
  <2>3. buckets[k] # None /\ b = buckets[k]
    BY <2>1, <2>2 DEF Fresh
  <2>4. buckets' = buckets
    BY <2>1, <2>2, <2>3 DEF TypeOK
  <2>5. checks' \in 0 .. SweepEvery - 1
    BY <1>2, CountWraps DEF Deny, TypeOK
  <2>6. QED
    BY <1>2, <2>4, <2>5 DEF Deny, TypeOK, Ledger
<1>3. ASSUME NEW k \in Tenants, Watch(k) PROVE TypeOK' /\ Ledger'
  BY <1>3 DEF Watch, TypeOK, Ledger
<1>4. ASSUME Tick PROVE TypeOK' /\ Ledger'
  BY <1>4 DEF Tick, TypeOK, Ledger
<1>5. CASE UNCHANGED vars
  BY <1>5 DEF vars, TypeOK, Ledger
<1>6. QED
  BY <1>1, <1>2, <1>3, <1>4, <1>5 DEF Next

(* The types and the ledger hold in every state. *)
THEOREM LedgerHolds == Spec => [](TypeOK /\ Ledger)
<1>1. Init => TypeOK /\ Ledger
  BY LimiterAssumption DEF Init, TypeOK, Ledger
<1>2. QED
  BY <1>1, LedgerStep, PTL DEF Spec

(* Every variable of the rate limiter keeps its type. *)
THEOREM TypeCorrect == Spec => []TypeOK
BY LedgerHolds, PTL

(* No window of time, wherever it begins, sees more requests of a tenant   *)
(* let through than the capacity plus the refill of that window.           *)
THEOREM RateTheorem == Spec => []RateIsBounded
<1>1. TypeOK /\ Ledger => RateIsBounded
  <2> SUFFICES ASSUME TypeOK, Ledger, NEW k \in Tenants
               PROVE  granted[k] * Minute <= Rpm * Minute + Rpm * (now - start[k])
    BY DEF RateIsBounded
  <2> USE LimiterAssumption
  <2>1. /\ granted[k] \in Nat /\ start[k] \in Nat /\ now \in Nat
        /\ start[k] <= now
    BY DEF TypeOK, Ledger
  <2>2. 0 <= Rpm * (now - start[k]) /\ 0 <= Rpm * Minute
    BY <2>1
  <2>3. CASE granted[k] = 0
    BY <2>1, <2>2, <2>3
  <2>4. CASE granted[k] > 0
    <3> DEFINE r == buckets[k].refill
               tokens == buckets[k].tokens
    <3>1. /\ r \in Nat /\ tokens \in Nat /\ r <= now
          /\ granted[k] * Minute + tokens * Minute
               <= Rpm * Minute + Rpm * (r - start[k])
      BY <2>1, <2>4 DEF TypeOK, Ledger
    <3>2. Rpm * (r - start[k]) <= Rpm * (now - start[k])
      BY <2>1, <3>1
    <3>3. 0 <= tokens * Minute
      BY <3>1
    <3>4. /\ granted[k] * Minute \in Int /\ tokens * Minute \in Int
          /\ Rpm * Minute \in Int /\ Rpm * (r - start[k]) \in Int
          /\ Rpm * (now - start[k]) \in Int
      BY <2>1, <3>1
    <3>5. \A g, x, cap, a, z \in Int :
            g + x <= cap + a /\ a <= z /\ 0 <= x => g <= cap + z
      OBVIOUS
    <3> HIDE DEF r, tokens
    <3>6. QED
      BY <3>1, <3>2, <3>3, <3>4, <3>5
  <2>5. QED
    BY <2>1, <2>3, <2>4
<1>2. QED
  BY <1>1, LedgerHolds, PTL

(* A tenant is refused only within the time one token takes since its last *)
(* request that was let through.                                           *)
THEOREM RefusalTheorem == Spec => RefusedAfterGrant
<1>1. ASSUME TypeOK, Ledger, NEW k \in Tenants, Deny(k)
      PROVE  latest[k] # None /\ (now - latest[k]) * Rpm < Minute
  <2>1. /\ Bucket(k) \in [refill: Nat, tokens: Nat]
        /\ Bucket(k).refill <= now
        /\ buckets[k] = None => Bucket(k) = Fresh
        /\ buckets[k] # None => Bucket(k) = buckets[k]
    BY <1>1, BucketFacts
  <2>2. /\ Bucket(k).tokens = 0
        /\ (now - Bucket(k).refill) * Rpm < Minute
    BY <1>1, <2>1, CreditedBounds DEF Deny, TypeOK
  <2>3. buckets[k] # None /\ latest[k] = Bucket(k).refill
    BY <1>1, <2>1, <2>2, LimiterAssumption DEF Fresh, Ledger
  <2>4. latest[k] \in Nat
    BY <2>1, <2>3
  <2>5. QED
    BY <2>2, <2>3, <2>4, LimiterAssumption
<1>2. TypeOK /\ Ledger =>
        [\A k \in Tenants : Deny(k) =>
           latest[k] # None /\ (now - latest[k]) * Rpm < Minute]_vars
  BY <1>1
<1>3. QED
  BY <1>2, LedgerHolds, PTL DEF RefusedAfterGrant
=============================================================================
