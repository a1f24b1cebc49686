-------------------------- MODULE RateLimitProofs --------------------------
(***************************************************************************)
(* Theorems about RateLimit for every capacity, rate and number of peers.  *)
(***************************************************************************)
EXTENDS RateLimit, TLAPS

\* What the window has granted, and what a check would still find, together
\* fit the burst and the refill.
Budget ==
    \A p \in Peers : Cost * granted[p] + Avail(p) <= Capacity + Refill * (clock - mark[p])

\* A check finds a full bucket or at least the refill since the last grant.
Accrued ==
    \A p \in Peers : Avail(p) >= Capacity \/ Avail(p) >= Refill * (clock - since[p])

IInv == TypeOK /\ Budget /\ Accrued

-----------------------------------------------------------------------------
LEMMA Distribute ==
    ASSUME NEW a \in Int, NEW b \in Int, NEW c \in Int
    PROVE  a * (b + c) = a * b + a * c
OBVIOUS

LEMMA ProductNat ==
    ASSUME NEW a \in Nat, NEW b \in Nat
    PROVE  a * b \in Nat
OBVIOUS

\* What a check finds is a number of tokens, at most the capacity.
LEMMA AvailRange ==
    ASSUME TypeOK, NEW p \in Peers
    PROVE  Avail(p) \in Nat /\ Avail(p) <= Capacity
<1>1. CASE bucket[p] = NoBucket
  BY <1>1, RateAssumption DEF Avail
<1>2. CASE bucket[p] # NoBucket
  <2>1. bucket[p].tokens \in Nat /\ clock - bucket[p].last \in Nat
    BY <1>2 DEF TypeOK, Bucket
  <2>2. Refill * (clock - bucket[p].last) \in Nat
    BY <2>1, ProductNat, RateAssumption
  <2> QED  BY <1>2, <2>1, <2>2, RateAssumption DEF Avail, Smaller
<1> QED  BY <1>1, <1>2

\* A check that spends cost leaves what it found less the cost, and the buckets
\* of the others as they were.
LEMMA SpentAvail ==
    ASSUME TypeOK, NEW p \in Peers, NEW cost \in Nat, cost <= Avail(p),
           bucket' = Spent(p, cost), UNCHANGED clock
    PROVE  /\ bucket' \in [Peers -> Bucket \cup {NoBucket}]
           /\ bucket'[p] # NoBucket
           /\ bucket'[p].last = clock /\ bucket'[p].tokens <= Capacity
           /\ Avail(p)' = Avail(p) - cost
           /\ \A q \in Peers : q # p => bucket'[q] = bucket[q] /\ Avail(q)' = Avail(q)
<1>1. Avail(p) \in Nat /\ Avail(p) <= Capacity /\ clock \in Nat
  BY AvailRange DEF TypeOK
<1>2. bucket'[p] = [tokens |-> Avail(p) - cost, last |-> clock]
  BY DEF Spent, TypeOK
<1>3. bucket'[p] \in Bucket
  BY <1>1, <1>2 DEF Bucket
<1>4. bucket'[p] # NoBucket
  BY <1>3, NoBucketAssumption DEF Bucket
<1>5. Refill * (clock - clock) = 0
  BY <1>1, RateAssumption
<1>6. Avail(p)' = Smaller(Avail(p) - cost + Refill * (clock - clock), Capacity)
  BY <1>2, <1>4 DEF Avail
<1>7. Avail(p)' = Avail(p) - cost
  BY <1>1, <1>5, <1>6, RateAssumption DEF Smaller
<1>8. \A q \in Peers : q # p => bucket'[q] = bucket[q]
  BY DEF Spent, TypeOK
<1>9. \A q \in Peers : q # p => Avail(q)' = Avail(q)
  BY <1>8 DEF Avail
<1>10. bucket' \in [Peers -> Bucket \cup {NoBucket}]
  BY <1>3, <1>8 DEF Spent, TypeOK
<1>11. bucket'[p].last = clock /\ bucket'[p].tokens <= Capacity
  BY <1>1, <1>2, RateAssumption
<1> QED  BY <1>4, <1>7, <1>8, <1>9, <1>10, <1>11

\* A tick adds at most the refill, and all of it unless the bucket is full.
LEMMA TickAvail ==
    ASSUME TypeOK, Tick, NEW p \in Peers
    PROVE  /\ Avail(p)' \in Nat /\ Avail(p)' <= Avail(p) + Refill
           /\ Avail(p)' >= Capacity \/ Avail(p)' >= Avail(p) + Refill
<1>1. bucket' = bucket /\ clock' = clock + 1 /\ clock \in Nat
  BY DEF Tick, TypeOK
<1>2. CASE bucket[p] = NoBucket
  BY <1>1, <1>2, RateAssumption DEF Avail
<1>3. CASE bucket[p] # NoBucket
  <2>1. bucket[p].tokens \in Nat /\ bucket[p].last \in Nat /\ clock - bucket[p].last \in Nat
    BY <1>3 DEF TypeOK, Bucket
  <2>2. Refill * (clock - bucket[p].last) \in Nat
    BY <2>1, ProductNat, RateAssumption
  <2>3. Refill * (clock + 1 - bucket[p].last) = Refill * (clock - bucket[p].last) + Refill
    <3>1. clock + 1 - bucket[p].last = (clock - bucket[p].last) + 1
      BY <1>1, <2>1
    <3>2. Refill * ((clock - bucket[p].last) + 1) = Refill * (clock - bucket[p].last) + Refill * 1
      BY <2>1, RateAssumption, Distribute
    <3> QED  BY <3>1, <3>2, RateAssumption
  <2>4. Avail(p)' = Smaller(bucket[p].tokens + Refill * (clock - bucket[p].last) + Refill, Capacity)
    BY <1>1, <1>3, <2>1, <2>2, <2>3, RateAssumption DEF Avail
  <2>5. Avail(p) = Smaller(bucket[p].tokens + Refill * (clock - bucket[p].last), Capacity)
    BY <1>3 DEF Avail
  <2> HIDE DEF Avail
  <2> QED  BY <2>1, <2>2, <2>4, <2>5, RateAssumption DEF Smaller
<1> QED  BY <1>2, <1>3

-----------------------------------------------------------------------------
LEMMA InitIInv == Init => IInv
<1> SUFFICES ASSUME Init PROVE IInv
  OBVIOUS
<1>1. TypeOK
  BY DEF Init, TypeOK
<1>2. \A p \in Peers : Avail(p) = Capacity
  BY DEF Init, Avail
<1>3. Cost * 0 = 0 /\ Refill * (0 - 0) = 0
  BY RateAssumption
<1>4. Budget
  <2> SUFFICES ASSUME NEW p \in Peers
               PROVE  Cost * granted[p] + Avail(p) <= Capacity + Refill * (clock - mark[p])
    BY DEF Budget
  <2>1. granted[p] = 0 /\ clock = 0 /\ mark[p] = 0 /\ Avail(p) = Capacity
    BY <1>2 DEF Init
  <2> QED  BY <1>3, <2>1, RateAssumption
<1>5. ASSUME NEW p \in Peers PROVE Avail(p) >= Capacity
  <2>1. Avail(p) = Capacity
    BY <1>2
  <2> QED  BY <2>1, RateAssumption
<1>6. Accrued
  BY <1>5 DEF Accrued
<1> QED  BY <1>1, <1>4, <1>6 DEF IInv

LEMMA GrantStep == ASSUME IInv, NEW p \in Peers, Grant(p) PROVE IInv'
<1>0. TypeOK /\ Budget /\ Accrued /\ Avail(p) \in Nat /\ Avail(p) <= Capacity
  BY AvailRange DEF IInv
<1>1. /\ bucket' \in [Peers -> Bucket \cup {NoBucket}]
      /\ bucket'[p].last = clock /\ bucket'[p].tokens <= Capacity
      /\ Avail(p)' = Avail(p) - Cost
      /\ \A q \in Peers : q # p => bucket'[q] = bucket[q] /\ Avail(q)' = Avail(q)
  BY <1>0, RateAssumption, SpentAvail DEF Grant, Enough
<1>2. /\ granted' = [granted EXCEPT ![p] = @ + 1] /\ since' = [since EXCEPT ![p] = clock]
      /\ UNCHANGED <<clock, restarts, mark>>
  BY DEF Grant
<1>3. TypeOK'
  BY <1>0, <1>1, <1>2 DEF TypeOK
<1>4. Budget'
  <2> SUFFICES ASSUME NEW q \in Peers
               PROVE  Cost * granted'[q] + Avail(q)' <= Capacity + Refill * (clock - mark[q])
    BY <1>2 DEF Budget
  <2>1. CASE q = p
    <3>1. granted[p] \in Nat /\ granted'[p] = granted[p] + 1 /\ Cost * granted[p] \in Nat
      BY <1>0, <1>2, ProductNat, RateAssumption DEF TypeOK
    <3>2. Cost * (granted[p] + 1) = Cost * granted[p] + Cost * 1
      BY <3>1, RateAssumption, Distribute
    <3>3. Cost * 1 = Cost
      BY RateAssumption
    <3>4. Cost * granted'[p] + Avail(p)' = Cost * granted[p] + Avail(p)
      BY <1>0, <1>1, <3>1, <3>2, <3>3, RateAssumption
    <3> QED  BY <1>0, <2>1, <3>4 DEF Budget
  <2>2. CASE q # p
    BY <1>0, <1>1, <1>2, <2>2 DEF Budget, TypeOK
  <2> QED  BY <2>1, <2>2
<1>5. Accrued'
  <2> SUFFICES ASSUME NEW q \in Peers
               PROVE  Avail(q)' >= Capacity \/ Avail(q)' >= Refill * (clock - since'[q])
    BY <1>2 DEF Accrued
  <2>1. CASE q = p
    <3>1. Refill * (clock - since'[p]) = 0
      BY <1>0, <1>2, RateAssumption DEF TypeOK
    <3>2. Avail(p) >= Cost
      BY DEF Grant, Enough
    <3> QED  BY <1>0, <1>1, <2>1, <3>1, <3>2, RateAssumption
  <2>2. CASE q # p
    BY <1>0, <1>1, <1>2, <2>2 DEF Accrued, TypeOK
  <2> QED  BY <2>1, <2>2
<1> QED  BY <1>3, <1>4, <1>5 DEF IInv

LEMMA DenyStep == ASSUME IInv, NEW p \in Peers, Deny(p) PROVE IInv'
<1>0. TypeOK /\ Budget /\ Accrued /\ Avail(p) \in Nat
  BY AvailRange DEF IInv
<1>1. /\ bucket' \in [Peers -> Bucket \cup {NoBucket}]
      /\ bucket'[p].last = clock /\ bucket'[p].tokens <= Capacity
      /\ Avail(p)' = Avail(p) - 0
      /\ \A q \in Peers : q # p => bucket'[q] = bucket[q] /\ Avail(q)' = Avail(q)
  BY <1>0, SpentAvail DEF Deny
<1>2. UNCHANGED <<clock, restarts, mark, granted, since>>
  BY DEF Deny, watch
<1>3. \A q \in Peers : Avail(q)' = Avail(q)
  BY <1>0, <1>1
<1> QED  BY <1>0, <1>1, <1>2, <1>3 DEF IInv, TypeOK, Budget, Accrued

LEMMA TickStep == IInv /\ Tick => IInv'
<1> SUFFICES ASSUME IInv, Tick PROVE IInv'
  OBVIOUS
<1>0. TypeOK /\ Budget /\ Accrued
  BY DEF IInv
<1>1. clock' = clock + 1 /\ UNCHANGED <<bucket, restarts, mark, granted, since>>
  BY DEF Tick, watch
<1>2. TypeOK'
  <2>1. clock \in Nat /\ \A p \in Peers : bucket[p] # NoBucket => bucket[p].last \in Nat
    BY <1>0 DEF TypeOK, Bucket
  <2> QED  BY <1>0, <1>1, <2>1 DEF TypeOK
<1>3. ASSUME NEW t \in Nat, t <= clock
      PROVE  /\ Refill * (clock' - t) = Refill * (clock - t) + Refill
             /\ Refill * (clock - t) \in Nat
  <2>1. clock - t \in Nat /\ clock' - t = (clock - t) + 1
    BY <1>0, <1>1, <1>3 DEF TypeOK
  <2>2. Refill * ((clock - t) + 1) = Refill * (clock - t) + Refill * 1
    BY <2>1, RateAssumption, Distribute
  <2> QED  BY <2>1, <2>2, RateAssumption, ProductNat
<1>4. ASSUME NEW p \in Peers
      PROVE  /\ Cost * granted[p] + Avail(p)' <= Capacity + Refill * (clock' - mark[p])
             /\ Avail(p)' >= Capacity \/ Avail(p)' >= Refill * (clock' - since[p])
  <2>1. /\ Avail(p) \in Nat /\ Avail(p)' \in Nat
        /\ Avail(p)' <= Avail(p) + Refill
        /\ Avail(p)' >= Capacity \/ Avail(p)' >= Avail(p) + Refill
    BY <1>0, AvailRange, TickAvail
  <2>2. granted[p] \in Nat /\ mark[p] \in Nat /\ since[p] \in Nat /\ mark[p] <= clock /\ since[p] <= clock
    BY <1>0 DEF TypeOK
  <2>3. /\ Cost * granted[p] \in Nat
        /\ Cost * granted[p] + Avail(p) <= Capacity + Refill * (clock - mark[p])
        /\ Avail(p) >= Capacity \/ Avail(p) >= Refill * (clock - since[p])
    BY <1>0, <2>2, ProductNat, RateAssumption DEF Budget, Accrued
  <2> QED  BY <1>3, <2>1, <2>2, <2>3, RateAssumption
<1> QED  BY <1>0, <1>1, <1>2, <1>4 DEF IInv, Budget, Accrued

LEMMA RestartStep == IInv /\ Restart => IInv'
<1> SUFFICES ASSUME IInv, Restart PROVE IInv'
  OBVIOUS
<1>0. TypeOK /\ clock \in Nat
  BY DEF IInv, TypeOK
<1>1. /\ bucket' = [p \in Peers |-> NoBucket] /\ mark' = [p \in Peers |-> clock]
      /\ granted' = [p \in Peers |-> 0] /\ restarts' = restarts + 1
      /\ UNCHANGED <<clock, since>>
  BY DEF Restart
<1>2. TypeOK'
  BY <1>0, <1>1 DEF TypeOK
<1>3. \A p \in Peers : Avail(p)' = Capacity
  BY <1>1 DEF Avail
<1>4. Cost * 0 = 0 /\ Refill * (clock - clock) = 0
  BY <1>0, RateAssumption
<1>5. ASSUME NEW p \in Peers
      PROVE  Cost * granted'[p] + Avail(p)' <= Capacity + Refill * (clock' - mark'[p])
  <2>1. granted'[p] = 0 /\ clock' = clock /\ mark'[p] = clock /\ Avail(p)' = Capacity
    BY <1>1, <1>3
  <2> QED  BY <1>4, <2>1, RateAssumption
<1>6. \A p \in Peers : Avail(p)' >= Capacity
  BY <1>3, RateAssumption
<1> QED  BY <1>2, <1>5, <1>6 DEF IInv, Budget, Accrued

LEMMA OpenWindowStep == ASSUME IInv, NEW p \in Peers, OpenWindow(p) PROVE IInv'
<1>0. TypeOK /\ Budget /\ Accrued /\ clock \in Nat
  BY DEF IInv, TypeOK
<1>1. /\ mark' = [mark EXCEPT ![p] = clock] /\ granted' = [granted EXCEPT ![p] = 0]
      /\ UNCHANGED <<bucket, clock, restarts, since>>
  BY DEF OpenWindow
<1>2. TypeOK'
  BY <1>0, <1>1 DEF TypeOK
<1>3. \A q \in Peers : Avail(q)' = Avail(q)
  BY <1>1 DEF Avail
<1>4. Cost * 0 = 0 /\ Refill * (clock - clock) = 0
  BY <1>0, RateAssumption
<1>5. ASSUME NEW q \in Peers
      PROVE  Cost * granted'[q] + Avail(q)' <= Capacity + Refill * (clock' - mark'[q])
  <2>1. CASE q = p
    <3>1. granted'[p] = 0 /\ clock' = clock /\ mark'[p] = clock
      BY <1>0, <1>1 DEF TypeOK
    <3>2. Avail(p)' \in Nat /\ Avail(p)' <= Capacity
      BY <1>0, <1>3, AvailRange
    <3> QED  BY <1>4, <2>1, <3>1, <3>2, RateAssumption
  <2>2. CASE q # p
    <3>1. granted'[q] = granted[q] /\ mark'[q] = mark[q] /\ clock' = clock
      BY <1>0, <1>1, <2>2 DEF TypeOK
    <3> QED  BY <1>0, <1>3, <3>1 DEF Budget
  <2> QED  BY <2>1, <2>2
<1> QED  BY <1>0, <1>1, <1>2, <1>3, <1>5 DEF IInv, Budget, Accrued

LEMMA IInvAlways == Spec => []IInv
<1>1. IInv /\ UNCHANGED vars => IInv'
  BY DEF IInv, TypeOK, Budget, Accrued, Avail, vars, watch
<1>2. IInv /\ [Next]_vars => IInv'
  BY <1>1, GrantStep, DenyStep, TickStep, RestartStep, OpenWindowStep DEF Next
<1> QED  BY <1>2, InitIInv, PTL DEF Spec

-----------------------------------------------------------------------------
\* A bucket never holds a negative amount or more than a burst, nor is it dated
\* ahead of the clock (RateLimiter::check).
THEOREM TypeCorrect == Spec => []TypeOK
<1>1. IInv => TypeOK  BY DEF IInv
<1> QED  BY <1>1, IInvAlways, PTL

\* A peer cannot post faster than a burst plus the refill of any window, for
\* every capacity, rate and cost (RateLimiter::check).
THEOREM RateIsBounded == Spec => []RateBound
<1>1. IInv => RateBound
  <2> SUFFICES ASSUME IInv, NEW p \in Peers
               PROVE  Cost * granted[p] <= Capacity + Refill * (clock - mark[p])
    BY DEF RateBound
  <2>1. /\ Avail(p) \in Nat /\ granted[p] \in Nat /\ clock - mark[p] \in Nat
        /\ Cost * granted[p] + Avail(p) <= Capacity + Refill * (clock - mark[p])
    BY AvailRange DEF IInv, TypeOK, Budget
  <2>2. Cost * granted[p] \in Nat /\ Refill * (clock - mark[p]) \in Nat
    BY <2>1, ProductNat, RateAssumption
  <2> QED  BY <2>1, <2>2, RateAssumption
<1> QED  BY <1>1, IInvAlways, PTL

\* Denied attempts do not put the next grant off, wherever the capacity is
\* worth at least one post (RateLimiter::check).
THEOREM NobodyIsStarved == Spec => []NotStarved
<1>1. IInv => NotStarved
  <2> SUFFICES ASSUME IInv, NEW p \in Peers, Refill * (clock - since[p]) >= Cost
               PROVE  Avail(p) >= Cost
    BY DEF NotStarved, Enough
  <2>1. /\ Avail(p) \in Nat /\ clock - since[p] \in Nat
        /\ Avail(p) >= Capacity \/ Avail(p) >= Refill * (clock - since[p])
    BY AvailRange DEF IInv, TypeOK, Accrued
  <2>2. Refill * (clock - since[p]) \in Nat
    BY <2>1, ProductNat, RateAssumption
  <2> QED  BY <2>1, <2>2, RateAssumption, BurstAssumption
<1> QED  BY <1>1, IInvAlways, PTL
=============================================================================
