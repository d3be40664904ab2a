----------------------------- MODULE RateLimiter -----------------------------
(***************************************************************************)
(* The token bucket in front of every tenant route                         *)
(* (app/middleware/ratelimit.py).  The middleware calls check from the     *)
(* event loop, so checks follow each other and time.monotonic() never goes *)
(* back between two of them.                                               *)
(***************************************************************************)
EXTENDS Integers

CONSTANTS
  Tenants,     \* keys of the buckets
  Rpm,         \* rate_limit_per_minute, and the capacity of a bucket
  Minute,      \* clock ticks per minute
  StaleAfter,  \* idle time after which a sweep may evict (five minutes)
  SweepEvery,  \* checks per sweep (1000)
  LastTick,    \* bound on the clock
  None

ASSUME LimiterAssumption ==
  /\ Rpm \in Nat \ {0}
  /\ Minute \in Nat \ {0}
  /\ StaleAfter \in Nat
  /\ SweepEvery \in Nat \ {0}
  /\ LastTick \in Nat
  /\ None \notin Nat \union [refill: Nat, tokens: Nat]

VARIABLES
  now,      \* time.monotonic()
  buckets,  \* _buckets: (last_refill, tokens), None for an absent key
  checks,   \* _check_count, modulo SweepEvery
  start,    \* history: begin of the window in which grants are counted
  granted,  \* history: requests let through since then
  latest    \* history: when a request was last let through, None before

vars == <<now, buckets, checks, start, granted, latest>>

Fresh == [refill |-> now, tokens |-> Rpm]

(* Tokens earned in a time span: int(elapsed * rpm / 60). *)
Refill(elapsed) == (elapsed * Rpm) \div Minute

Least(a, b) == IF a <= b THEN a ELSE b

(* Mutant: tokens pile up beyond the capacity. *)
CreditedUncapped(b) == b.tokens + Refill(now - b.refill)

(* What a bucket holds once the time since its last refill is credited. *)
Credited(b) == Least(Rpm, b.tokens + Refill(now - b.refill))

Sweeps == (checks + 1) % SweepEvery = 0

(* The eviction test compares the tokens stored, not the tokens credited.  *)
Stale(k) ==
  /\ buckets[k] # None
  /\ buckets[k].tokens = Rpm
  /\ now - buckets[k].refill > StaleAfter

(* The buckets a check finds after its sweep. *)
Swept == [k \in Tenants |-> IF Sweeps /\ Stale(k) THEN None ELSE buckets[k]]

Bucket(k) == IF Swept[k] = None THEN Fresh ELSE Swept[k]

Init ==
  /\ now = 0
  /\ buckets = [k \in Tenants |-> None]
  /\ checks = 0
  /\ start = [k \in Tenants |-> 0]
  /\ granted = [k \in Tenants |-> 0]
  /\ latest = [k \in Tenants |-> None]

----------------------------------------------------------------------------
(* Mutant: one request too many. *)
AllowAtZero(k) ==
  /\ Credited(Bucket(k)) >= 0
  /\ buckets' = [Swept EXCEPT ![k] =
       [refill |-> now, tokens |-> Credited(Bucket(k)) - 1]]
  /\ checks' = (checks + 1) % SweepEvery
  /\ granted' = [granted EXCEPT ![k] = @ + 1]
  /\ latest' = [latest EXCEPT ![k] = now]
  /\ UNCHANGED <<now, start>>

(* A request that is let through takes a token; what was earned beyond     *)
(* whole tokens is lost with the new refill time.                          *)
Allow(k) ==
  /\ Credited(Bucket(k)) > 0
  /\ buckets' = [Swept EXCEPT ![k] =
       [refill |-> now, tokens |-> Credited(Bucket(k)) - 1]]
  /\ checks' = (checks + 1) % SweepEvery
  /\ granted' = [granted EXCEPT ![k] = @ + 1]
  /\ latest' = [latest EXCEPT ![k] = now]
  /\ UNCHANGED <<now, start>>

(* Mutant: a refused request starts the waiting over. *)
DenyRestarts(k) ==
  /\ ~(Credited(Bucket(k)) > 0)
  /\ buckets' = [Swept EXCEPT ![k] =
       [refill |-> now, tokens |-> Credited(Bucket(k))]]
  /\ checks' = (checks + 1) % SweepEvery
  /\ UNCHANGED <<now, start, granted, latest>>

(* A refused request leaves the refill time alone: waiting still counts.   *)
Deny(k) ==
  /\ ~(Credited(Bucket(k)) > 0)
  /\ buckets' = [Swept EXCEPT ![k] =
       [refill |-> Bucket(k).refill, tokens |-> Credited(Bucket(k))]]
  /\ checks' = (checks + 1) % SweepEvery
  /\ UNCHANGED <<now, start, granted, latest>>

Tick ==
  /\ now < LastTick
  /\ now' = now + 1
  /\ UNCHANGED <<buckets, checks, start, granted, latest>>

(* History only: counting starts over, at whatever moment. *)
Watch(k) ==
  /\ start' = [start EXCEPT ![k] = now]
  /\ granted' = [granted EXCEPT ![k] = 0]
  /\ UNCHANGED <<now, buckets, checks, latest>>

Next ==
  \/ \E k \in Tenants : Allow(k) \/ Deny(k) \/ Watch(k)
  \/ Tick

Spec == Init /\ [][Next]_vars

----------------------------------------------------------------------------
(* Every variable has its type. *)
TypeOK ==
  /\ now \in Nat
  /\ buckets \in [Tenants -> [refill: Nat, tokens: Nat] \union {None}]
  /\ checks \in 0 .. SweepEvery - 1
  /\ start \in [Tenants -> Nat]
  /\ granted \in [Tenants -> Nat]
  /\ latest \in [Tenants -> Nat \union {None}]

(* In every window, wherever it begins, a tenant gets at most the capacity *)
(* of the bucket plus what is earned at Rpm per minute since: refills that *)
(* are rounded, refused requests that keep the refill time and sweeps      *)
(* never give a token twice.                                               *)
RateIsBounded ==
  \A k \in Tenants : granted[k] * Minute <= Rpm * Minute + Rpm * (now - start[k])

(* A tenant is refused only if its last request was let through so short a *)
(* time ago that not one token was earned since: a client that keeps       *)
(* asking is not kept out by its own refused requests.                     *)
RefusedAfterGrant ==
  [][\A k \in Tenants : Deny(k) =>
       latest[k] # None /\ (now - latest[k]) * Rpm < Minute]_vars

(* ratelimit.py:24: buckets "with tokens at full capacity and not accessed *)
(* for > 5 minutes" are evicted.  No such bucket is left when a check that *)
(* sweeps returns.  The code keeps them all: the tokens it stores never    *)
(* reach the capacity again.                                               *)
SweepEvicts ==
  [][Sweeps /\ checks' = 0 =>
       \A k \in Tenants :
         ~(/\ buckets'[k] # None
           /\ Credited(buckets'[k]) = Rpm
           /\ now - buckets'[k].refill > StaleAfter)]_vars

----------------------------------------------------------------------------
(* The inductive invariant behind RateIsBounded. *)
Ledger ==
  \A k \in Tenants :
    /\ start[k] <= now
    /\ buckets[k] # None =>
         /\ buckets[k].refill <= now
         /\ buckets[k].tokens < Rpm
         /\ latest[k] = buckets[k].refill
    /\ buckets[k] = None => granted[k] = 0
    /\ granted[k] > 0 =>
         /\ start[k] <= buckets[k].refill
         /\ granted[k] * Minute + buckets[k].tokens * Minute
              <= Rpm * Minute + Rpm * (buckets[k].refill - start[k])
=============================================================================
